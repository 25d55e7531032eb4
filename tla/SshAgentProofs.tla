--------------------------- MODULE SshAgentProofs --------------------------
(***************************************************************************)
(* The SSH agent for any keys, requests, bounds and caps: the types, that  *)
(* the slots count what they should, that a person never faces two prompts *)
(* for one key, and what lets a request be signed.                         *)
(***************************************************************************)
EXTENDS SshAgent, SequenceTheorems, FiniteSetTheorems, TLAPS

-----------------------------------------------------------------------------
(* Queues without repetitions.                                             *)

Members(q) == {q[i] : i \in 1..Len(q)}
Distinct(q) == \A i, j \in 1..Len(q) : q[i] = q[j] => i = j

LEMMA EmptyQueue == Members(<<>>) = {} /\ Distinct(<<>>)
BY DEF Members, Distinct

LEMMA AppendMembers ==
  ASSUME NEW S, NEW q \in Seq(S), NEW r \in S
  PROVE  /\ Append(q, r) \in Seq(S) /\ Len(Append(q, r)) = Len(q) + 1
         /\ Members(Append(q, r)) = Members(q) \cup {r}
         /\ Distinct(q) /\ r \notin Members(q) => Distinct(Append(q, r))
<1>1. /\ Append(q, r) \in Seq(S) /\ Len(Append(q, r)) = Len(q) + 1 /\ Len(q) \in Nat
      /\ \A i \in 1..Len(q) : Append(q, r)[i] = q[i]
      /\ Append(q, r)[Len(q) + 1] = r
  BY AppendProperties, LenProperties
<1> DEFINE a == Append(q, r)
<1> HIDE DEF a
<1>2. \A i \in 1..Len(a) : i \in 1..Len(q) \/ i = Len(q) + 1
  BY <1>1 DEF a
<1>3. Members(a) \subseteq Members(q) \cup {r}
  BY <1>1, <1>2 DEF a, Members
<1>4. Members(q) \cup {r} \subseteq Members(a)
  <2>1. r \in Members(a)
    <3>1. Len(q) + 1 \in 1..Len(a) /\ a[Len(q) + 1] = r
      BY <1>1 DEF a
    <3> QED BY <3>1 DEF Members
  <2>2. \A i \in 1..Len(q) : i \in 1..Len(a) /\ a[i] = q[i]
    BY <1>1 DEF a
  <2> QED BY <2>1, <2>2 DEF Members
<1>5. ASSUME Distinct(q), r \notin Members(q) PROVE Distinct(a)
  <2>1. \A i \in 1..Len(q) : q[i] # r
    BY <1>5 DEF Members
  <2>2. \A i \in 1..Len(q) : a[i] = q[i]
    BY <1>1 DEF a
  <2>3. a[Len(q) + 1] = r
    BY <1>1 DEF a
  <2> QED BY <1>2, <1>5, <2>1, <2>2, <2>3 DEF Distinct
<1> QED BY <1>1, <1>3, <1>4, <1>5 DEF a

LEMMA TailMembers ==
  ASSUME NEW S, NEW q \in Seq(S), q # <<>>, Distinct(q)
  PROVE  /\ Tail(q) \in Seq(S) /\ Len(Tail(q)) = Len(q) - 1 /\ Len(q) \in Nat /\ Len(q) > 0
         /\ Head(q) \in Members(q) /\ Head(q) \in S
         /\ Members(Tail(q)) = Members(q) \ {Head(q)}
         /\ Distinct(Tail(q))
<1>1. /\ Head(q) \in S /\ Tail(q) \in Seq(S) /\ Len(Tail(q)) = Len(q) - 1
      /\ \A i \in 1..Len(Tail(q)) : Tail(q)[i] = q[i + 1]
  BY HeadTailProperties
<1>2. Len(q) \in Nat /\ Len(q) # 0 /\ Head(q) = q[1]
  BY LenProperties, EmptySeq
<1>3. Len(q) \in Nat /\ Len(q) > 0 /\ 1 \in 1..Len(q)
  BY <1>2
<1> DEFINE t == Tail(q)
<1> HIDE DEF t
<1>4. \A i \in 1..Len(t) : i + 1 \in 1..Len(q) /\ i + 1 # 1 /\ t[i] = q[i + 1]
  BY <1>1, <1>3 DEF t
<1>5. \A i \in 1..Len(q) : i # 1 => i - 1 \in 1..Len(t) /\ (i - 1) + 1 = i
  BY <1>1, <1>3 DEF t
<1>6. Members(t) \subseteq Members(q) \ {Head(q)}
  <2>1. \A i \in 1..Len(t) : q[i + 1] # q[1]
    BY <1>3, <1>4 DEF Distinct
  <2> QED BY <1>2, <1>4, <2>1 DEF Members
<1>7. Members(q) \ {Head(q)} \subseteq Members(t)
  <2>1. ASSUME NEW i \in 1..Len(q), q[i] # q[1] PROVE q[i] \in Members(t)
    <3>1. i - 1 \in 1..Len(t) /\ t[i - 1] = q[i]
      BY <1>4, <1>5, <2>1
    <3> QED BY <3>1 DEF Members
  <2> QED BY <1>2, <2>1 DEF Members
<1>8. Distinct(t)
  <2>1. \A i, j \in 1..Len(t) : q[i + 1] = q[j + 1] => i + 1 = j + 1
    BY <1>4 DEF Distinct
  <2> QED BY <1>4, <2>1 DEF Distinct
<1>9. Head(q) \in Members(q)
  BY <1>2, <1>3 DEF Members
<1> QED BY <1>1, <1>3, <1>6, <1>7, <1>8, <1>9 DEF t

-----------------------------------------------------------------------------
(* One key's slot, field by field.                                         *)

LEMMA EmptySlotIs ==
  /\ EmptySlot \in Slots /\ EmptySlot.live = 0 /\ EmptySlot.retained = 0 /\ ~EmptySlot.working
  /\ ~EmptySlot.orphan /\ EmptySlot.waiters = {}
BY DEF EmptySlot, Slots

LEMMA StartedIs ==
  ASSUME NEW s \in Slots, s.retained > 0
  PROVE  /\ Started(s) \in Slots /\ Started(s).retained = s.retained - 1 /\ Started(s).live = s.live
         /\ Started(s).working = s.working /\ Started(s).waiters = s.waiters
<1>1. s.retained - 1 \in Nat
  BY DEF Slots
<1> QED BY <1>1 DEF Started, Slots

LEMMA LeftIs ==
  ASSUME NEW s \in Slots, NEW r, s.live > 0
  PROVE  /\ Left(s, r) \in Slots /\ Left(s, r).retained = s.retained /\ Left(s, r).live = s.live - 1
         /\ Left(s, r).working = s.working /\ Left(s, r).waiters = s.waiters \ {r}
<1> DEFINE one == [s EXCEPT !.live = s.live - 1]
<1>1. s.live - 1 \in Nat
  BY DEF Slots
<1>2. /\ one \in Slots /\ one.retained = s.retained /\ one.live = s.live - 1 /\ one.working = s.working
      /\ one.waiters = s.waiters
  BY <1>1 DEF Slots
<1>3. Left(s, r) = [one EXCEPT !.waiters = s.waiters \ {r}]
  BY DEF Left
<1> HIDE DEF one
<1>4. s.waiters \ {r} \in SUBSET Requests
  BY DEF Slots
<1>5. /\ Left(s, r) \in Slots /\ Left(s, r).retained = one.retained /\ Left(s, r).live = one.live
      /\ Left(s, r).working = one.working /\ Left(s, r).waiters = s.waiters \ {r}
  BY <1>2, <1>3, <1>4 DEF Slots
<1> QED BY <1>2, <1>5

LEMMA FreedIs ==
  ASSUME NEW s \in Slots
  PROVE  /\ Freed(s) \in Slots /\ Freed(s).retained = s.retained /\ Freed(s).live = s.live
         /\ ~Freed(s).working /\ Freed(s).waiters = s.waiters
<1> DEFINE one == [s EXCEPT !.working = FALSE]
<1>1. /\ one \in Slots /\ one.retained = s.retained /\ one.live = s.live /\ one.working = FALSE
      /\ one.waiters = s.waiters
  BY DEF Slots
<1>2. Freed(s) = [one EXCEPT !.orphan = FALSE]
  BY DEF Freed
<1> HIDE DEF one
<1>3. /\ Freed(s) \in Slots /\ Freed(s).retained = one.retained /\ Freed(s).live = one.live
      /\ Freed(s).working = one.working /\ Freed(s).waiters = one.waiters
  BY <1>1, <1>2 DEF Slots
<1> QED BY <1>1, <1>3

\* A request is admitted.
LEMMA AdmittedIs ==
  ASSUME NEW s \in Slots, NEW r \in Requests,
         NEW t, t = [s EXCEPT !.live = @ + 1, !.retained = @ + 1, !.waiters = @ \cup {r}]
  PROVE  /\ t \in Slots /\ t.retained = s.retained + 1 /\ t.live = s.live + 1
         /\ t.working = s.working /\ t.waiters = s.waiters \cup {r}
<1> DEFINE one == [s EXCEPT !.live = s.live + 1]
           two == [one EXCEPT !.retained = s.retained + 1]
<1>1. /\ one \in Slots /\ one.retained = s.retained /\ one.live = s.live + 1 /\ one.working = s.working
      /\ one.waiters = s.waiters
  BY DEF Slots
<1>2. t = [two EXCEPT !.waiters = s.waiters \cup {r}]
  BY DEF Slots
<1> HIDE DEF one
<1>3. s.retained + 1 \in Nat /\ s.waiters \cup {r} \in SUBSET Requests
  BY DEF Slots
<1>4. /\ two \in Slots /\ two.retained = s.retained + 1 /\ two.live = one.live /\ two.working = one.working
      /\ two.waiters = one.waiters
  BY <1>1, <1>3 DEF Slots
<1> HIDE DEF two
<1>5. /\ t \in Slots /\ t.retained = two.retained /\ t.live = two.live
      /\ t.working = two.working /\ t.waiters = s.waiters \cup {r}
  BY <1>2, <1>3, <1>4 DEF Slots
<1> QED BY <1>1, <1>4, <1>5

\* A turn opens.
Opened(s, r) == [Started(s) EXCEPT !.working = TRUE, !.waiters = @ \ {r}]

LEMMA OpenedIs ==
  ASSUME NEW s \in Slots, NEW r, s.retained > 0,
         NEW t, t = Opened(s, r)
  PROVE  /\ t \in Slots /\ t.retained = s.retained - 1 /\ t.live = s.live
         /\ t.working /\ t.waiters = s.waiters \ {r}
<1> DEFINE zero == Started(s)
           one == [zero EXCEPT !.working = TRUE]
<1>0. /\ zero \in Slots /\ zero.retained = s.retained - 1 /\ zero.live = s.live /\ zero.waiters = s.waiters
  BY StartedIs
<1>1. t = [one EXCEPT !.waiters = zero.waiters \ {r}]
  BY DEF Opened
<1> HIDE DEF zero
<1>2. /\ one \in Slots /\ one.retained = zero.retained /\ one.live = zero.live /\ one.working = TRUE
      /\ one.waiters = zero.waiters
  BY <1>0 DEF Slots
<1> HIDE DEF one
<1>3. zero.waiters \ {r} \in SUBSET Requests
  BY <1>0 DEF Slots
<1>4. /\ t \in Slots /\ t.retained = one.retained /\ t.live = one.live
      /\ t.working = one.working /\ t.waiters = zero.waiters \ {r}
  BY <1>1, <1>2, <1>3 DEF Slots
<1> QED BY <1>0, <1>2, <1>4

\* A turn ended before its modal.
Orphaned(s, n) == [s EXCEPT !.live = @ - 1 - n, !.waiters = {}, !.orphan = TRUE]

LEMMA OrphanedIs ==
  ASSUME NEW s \in Slots, NEW n \in Nat, s.live - 1 - n \in Nat,
         NEW t, t = Orphaned(s, n)
  PROVE  /\ t \in Slots /\ t.retained = s.retained /\ t.live = s.live - 1 - n
         /\ t.working = s.working /\ t.waiters = {}
<1> DEFINE one == [s EXCEPT !.live = s.live - 1 - n]
           two == [one EXCEPT !.waiters = {}]
<1>1. /\ one \in Slots /\ one.retained = s.retained /\ one.live = s.live - 1 - n /\ one.working = s.working
  BY DEF Slots
<1>2. t = [two EXCEPT !.orphan = TRUE]
  BY DEF Orphaned
<1> HIDE DEF one
<1>3. /\ two \in Slots /\ two.retained = one.retained /\ two.live = one.live /\ two.working = one.working
      /\ two.waiters = {}
  BY <1>1 DEF Slots
<1> HIDE DEF two
<1>4. /\ t \in Slots /\ t.retained = two.retained /\ t.live = two.live
      /\ t.working = two.working /\ t.waiters = two.waiters
  BY <1>2, <1>3 DEF Slots
<1> QED BY <1>1, <1>3, <1>4

-----------------------------------------------------------------------------
(* What a key's slot, its queue and its running turn say of each other.    *)
(* Who waits is who is in the queue and undecided; whoever is undecided    *)
(* waits or runs; and whoever is in the queue or runs has come once, so    *)
(* the next to come is neither.                                            *)

Held(k) ==
  /\ slot[k] \in Slots \cup {None} /\ (slot[k] # None => ~Idle(slot[k]))
  /\ SlotOf(k).retained = Len(queue[k])
  /\ SlotOf(k).working <=> running[k] # None
  /\ SlotOf(k).live = Cardinality(Undecided(k)) /\ SlotOf(k).live <= MaxWaiting + 1

InLine(k) ==
  /\ queue[k] \in Seq(Requests) /\ Distinct(queue[k])
  /\ \A r \in Members(queue[k]) : KeyOf[r] = k /\ ~New(r) /\ r # running[k]
  /\ running[k] \in Requests \cup {None}
  /\ running[k] # None => KeyOf[running[k]] = k /\ ~New(running[k])

Waiting(k) ==
  /\ SlotOf(k).waiters = {r \in Members(queue[k]) : outcome[r] = None}
  /\ \A r \in Undecided(k) : r \in SlotOf(k).waiters \/ r = running[k]

KeyOK(k) == Held(k) /\ InLine(k) /\ Waiting(k)

TurnShape ==
  /\ DOMAIN slot = AskedKeys /\ DOMAIN queue = AskedKeys /\ DOMAIN running = AskedKeys
  /\ outcome \in [Requests -> Outcomes \cup Replies \cup {None}]
  /\ due \in [Requests -> Int \cup {None}]

TurnsOK == TurnShape /\ \A k \in AskedKeys : KeyOK(k)

LEMMA Constants ==
  /\ \A r \in Requests : KeyOf[r] \in AskedKeys /\ KeyOf[r] \in Keys
  /\ AskedKeys \subseteq Keys /\ None \notin Requests /\ IsFiniteSet(Requests)
  /\ MaxWaiting \in Nat /\ Bound \in Nat
  /\ None \notin Outcomes /\ None \notin Replies /\ None \notin Int
  /\ None # "window" /\ None # "click"
<1>1. None \notin Outcomes /\ None \notin Replies /\ None # "window" /\ None # "click"
  BY NoneAssumption, AgentAssumption
<1> QED BY <1>1, TurnAssumption, NoneAssumption, AgentAssumption DEF AskedKeys

LEMMA UndecidedIsFinite ==
  ASSUME NEW k
  PROVE  /\ Undecided(k) \subseteq Requests /\ IsFiniteSet(Undecided(k)) /\ Cardinality(Undecided(k)) \in Nat
<1>1. Undecided(k) \subseteq Requests
  BY DEF Undecided
<1> QED BY <1>1, Constants, FS_Subset, FS_CardinalityType

\* What is read of a slot that was released if it holds nothing.
LEMMA ReleasedIs ==
  ASSUME NEW k, NEW s \in Slots, slot'[k] = Released(s), Idle(s) => s.waiters = {}
  PROVE  /\ slot'[k] \in Slots \cup {None} /\ (slot'[k] # None => ~Idle(slot'[k]))
         /\ SlotOf(k)'.live = s.live /\ SlotOf(k)'.retained = s.retained
         /\ SlotOf(k)'.working <=> s.working
         /\ SlotOf(k)'.waiters = s.waiters
<1>1. s # None
  BY NoneAssumption
<1>2. CASE Idle(s)
  BY <1>2, EmptySlotIs DEF Released, SlotOf, Idle
<1>3. CASE ~Idle(s)
  BY <1>1, <1>3 DEF Released, SlotOf
<1> QED BY <1>2, <1>3

\* A key whose turn took a step: it is enough to say what its slot is before it is released.
LEMMA KeyFrom ==
  ASSUME NEW k, NEW s \in Slots, slot'[k] = Released(s), InLine(k)',
         s.retained = Len(queue'[k]), s.working <=> running'[k] # None,
         s.live = Cardinality(Undecided(k)'), s.live <= MaxWaiting + 1,
         s.waiters = {r \in Members(queue'[k]) : outcome'[r] = None},
         \A r \in Undecided(k)' : r \in s.waiters \/ r = running'[k]
  PROVE  KeyOK(k)'
<1>1. Idle(s) => s.waiters = {}
  <2> SUFFICES ASSUME Idle(s) PROVE s.waiters = {}
    OBVIOUS
  <2>1. Len(queue'[k]) = 0 /\ queue'[k] \in Seq(Requests)
    BY DEF Idle, InLine
  <2>2. queue'[k] = <<>>
    BY <2>1, EmptySeq
  <2> QED BY <2>2, EmptyQueue
<1>2. /\ slot'[k] \in Slots \cup {None} /\ (slot'[k] # None => ~Idle(slot'[k]))
      /\ SlotOf(k)'.live = s.live /\ SlotOf(k)'.retained = s.retained
      /\ SlotOf(k)'.working <=> s.working
      /\ SlotOf(k)'.waiters = s.waiters
  BY <1>1, ReleasedIs
<1>3. Held(k)'
  BY <1>2 DEF Held
<1>4. Waiting(k)'
  BY <1>2 DEF Waiting
<1> QED BY <1>3, <1>4 DEF KeyOK

\* Nothing a key looks at has changed: a request may be replied to, or be decided as it comes.
LEMMA KeyStill ==
  ASSUME NEW k, KeyOK(k), slot'[k] = slot[k], queue'[k] = queue[k], running'[k] = running[k],
         \A r \in Requests : KeyOf[r] = k =>
           \/ (outcome'[r] = None <=> outcome[r] = None) /\ (outcome[r] = None => due'[r] = due[r])
           \/ New(r) /\ outcome'[r] # None
  PROVE  KeyOK(k)'
<1>1. Undecided(k)' = Undecided(k)
  BY DEF Undecided, New
<1>2. SlotOf(k)' = SlotOf(k)
  BY DEF SlotOf
<1>3. Members(queue[k]) \subseteq Requests /\ running[k] \in Requests \cup {None}
  BY ElementOfSeq DEF KeyOK, InLine, Members
<1>4. \A r \in Requests : KeyOf[r] = k /\ ~New(r) => ~New(r)' /\ (outcome'[r] = None <=> outcome[r] = None)
  BY DEF New
<1>5. InLine(k)'
  BY <1>3, <1>4 DEF KeyOK, InLine
<1>6. Held(k)'
  BY <1>1, <1>2 DEF KeyOK, Held
<1>7. Waiting(k)'
  <2>1. {r \in Members(queue[k]) : outcome'[r] = None} = {r \in Members(queue[k]) : outcome[r] = None}
    BY <1>3, <1>4 DEF KeyOK, InLine
  <2> QED BY <1>1, <1>2, <2>1 DEF KeyOK, Waiting
<1> QED BY <1>5, <1>6, <1>7 DEF KeyOK

\* A step of one key's turn: the other keys see nothing of it.
OnlyAt(k) ==
  /\ DOMAIN slot' = AskedKeys /\ DOMAIN queue' = AskedKeys /\ DOMAIN running' = AskedKeys
  /\ \A j \in AskedKeys : j # k => slot'[j] = slot[j] /\ queue'[j] = queue[j] /\ running'[j] = running[j]
  /\ outcome' \in [Requests -> Outcomes \cup Replies \cup {None}]
  /\ due' \in [Requests -> Int \cup {None}]
  /\ \A r \in Requests : KeyOf[r] # k => outcome'[r] = outcome[r] /\ due'[r] = due[r]

LEMMA TurnsFrom ==
  ASSUME TurnsOK, NEW k \in AskedKeys, OnlyAt(k), KeyOK(k)'
  PROVE  TurnsOK'
<1>1. TurnShape'
  BY DEF OnlyAt, TurnShape
<1>2. ASSUME NEW j \in AskedKeys, j # k PROVE KeyOK(j)'
  <2>1. KeyOK(j) /\ slot'[j] = slot[j] /\ queue'[j] = queue[j] /\ running'[j] = running[j]
    BY <1>2 DEF OnlyAt, TurnsOK
  <2>2. \A r \in Requests : KeyOf[r] = j => outcome'[r] = outcome[r] /\ due'[r] = due[r]
    BY <1>2 DEF OnlyAt
  <2> QED BY <2>1, <2>2, KeyStill
<1> QED BY <1>1, <1>2 DEF TurnsOK

\* A request is decided as it comes, or replied to: no slot changes.
LEMMA TurnsSame ==
  ASSUME TurnsOK, UNCHANGED <<slot, queue, running>>,
         outcome' \in [Requests -> Outcomes \cup Replies \cup {None}], due' \in [Requests -> Int \cup {None}],
         \A r \in Requests :
           \/ (outcome'[r] = None <=> outcome[r] = None) /\ (outcome[r] = None => due'[r] = due[r])
           \/ New(r) /\ outcome'[r] # None
  PROVE  TurnsOK'
<1>1. TurnShape'
  BY DEF TurnsOK, TurnShape
<1>2. ASSUME NEW k \in AskedKeys PROVE KeyOK(k)'
  <2>1. KeyOK(k) /\ slot'[k] = slot[k] /\ queue'[k] = queue[k] /\ running'[k] = running[k]
    BY DEF TurnsOK
  <2> QED BY <2>1, KeyStill
<1> QED BY <1>1, <1>2 DEF TurnsOK

LEMMA TurnsStill == ASSUME TurnsOK, UNCHANGED turnVars PROVE TurnsOK'
<1>1. UNCHANGED <<slot, queue, running, outcome, due>>
  BY DEF turnVars
<1>2. outcome' \in [Requests -> Outcomes \cup Replies \cup {None}] /\ due' \in [Requests -> Int \cup {None}]
  BY <1>1 DEF TurnsOK, TurnShape
<1> QED BY <1>1, <1>2, TurnsSame

LEMMA TurnsRefused ==
  ASSUME TurnsOK, NEW r \in Requests, NEW now \in Int, New(r), RefuseAtArrival(r, now)
  PROVE  TurnsOK'
<1>1. /\ outcome \in [Requests -> Outcomes \cup Replies \cup {None}] /\ due \in [Requests -> Int \cup {None}]
      /\ now + Bound \in Int
  BY Constants DEF TurnsOK, TurnShape
<1>2. PICK o \in {"orphaned", "full"} : outcome' = [outcome EXCEPT ![r] = o]
  BY DEF RefuseAtArrival
<1>3. o \in Outcomes /\ o # None
  BY Constants DEF Outcomes, Refusals
<1>4. due' = [due EXCEPT ![r] = now + Bound] /\ UNCHANGED <<slot, queue, running>>
  BY DEF RefuseAtArrival
<1>5. outcome' \in [Requests -> Outcomes \cup Replies \cup {None}] /\ due' \in [Requests -> Int \cup {None}]
  BY <1>1, <1>2, <1>3, <1>4
<1>6. \A q \in Requests : q # r => outcome'[q] = outcome[q] /\ due'[q] = due[q]
  BY <1>1, <1>2, <1>4
<1>7. outcome'[r] # None
  BY <1>1, <1>2, <1>3
<1> QED BY <1>4, <1>5, <1>6, <1>7, TurnsSame

LEMMA TurnsDelivered ==
  ASSUME TurnsOK, NEW r \in Requests, NEW answer \in Replies, outcome[r] \in Outcomes, Deliver(r, answer)
  PROVE  TurnsOK'
<1>1. /\ outcome \in [Requests -> Outcomes \cup Replies \cup {None}] /\ due \in [Requests -> Int \cup {None}]
      /\ answer # None /\ outcome[r] # None
  BY Constants DEF TurnsOK, TurnShape
<1>2. outcome' = [outcome EXCEPT ![r] = answer] /\ due' = [due EXCEPT ![r] = None] /\ UNCHANGED <<slot, queue, running>>
  BY DEF Deliver
<1>3. outcome' \in [Requests -> Outcomes \cup Replies \cup {None}] /\ due' \in [Requests -> Int \cup {None}]
  BY <1>1, <1>2
<1>4. \A q \in Requests : q # r => outcome'[q] = outcome[q] /\ due'[q] = due[q]
  BY <1>1, <1>2
<1>5. outcome'[r] # None
  BY <1>1, <1>2
<1> QED BY <1>1, <1>2, <1>3, <1>4, <1>5, TurnsSame

LEMMA TurnsEnqueued ==
  ASSUME TurnsOK, NEW r \in Requests, NEW now \in Int, New(r), Enqueue(r, now)
  PROVE  TurnsOK'
<1> DEFINE k == KeyOf[r]
           s == [SlotOf(k) EXCEPT !.live = @ + 1, !.retained = @ + 1, !.waiters = @ \cup {r}]
<1>0. k \in AskedKeys /\ TurnShape /\ KeyOK(k)
  BY Constants DEF TurnsOK
<1>1. /\ slot' = [slot EXCEPT ![k] = s] /\ queue' = [queue EXCEPT ![k] = Append(queue[k], r)]
      /\ due' = [due EXCEPT ![r] = now + Bound] /\ UNCHANGED <<running, outcome>>
      /\ ~Full(SlotOf(k))
  BY DEF Enqueue
<1>2. SlotOf(k) \in Slots
  BY <1>0, EmptySlotIs DEF SlotOf, KeyOK, Held
<1>3. /\ s \in Slots /\ s.retained = SlotOf(k).retained + 1 /\ s.live = SlotOf(k).live + 1
      /\ s.working = SlotOf(k).working /\ s.waiters = SlotOf(k).waiters \cup {r}
  BY <1>2, AdmittedIs
<1> HIDE DEF s, k
<1>4. /\ SlotOf(k).live \in Nat /\ SlotOf(k).retained \in Nat /\ SlotOf(k).live <= MaxWaiting
      /\ MaxWaiting \in Nat
  BY <1>1, <1>2, Constants DEF Slots, Full
<1>5. ~Idle(s)
  BY <1>3, <1>4 DEF Idle
<1>6. slot'[k] = Released(s)
  BY <1>0, <1>1, <1>5 DEF Released, TurnShape
<1>7. due'[r] # None /\ outcome'[r] = None /\ due'[r] \in Int
  BY <1>0, <1>1, Constants DEF New, TurnShape
<1>8. \A q \in Requests : q # r => due'[q] = due[q] /\ outcome'[q] = outcome[q]
  BY <1>0, <1>1 DEF TurnShape
<1>9. OnlyAt(k)
  <2>1. due' \in [Requests -> Int \cup {None}]
    BY <1>0, <1>1, <1>7 DEF TurnShape
  <2> QED BY <1>0, <1>1, <1>8, <2>1 DEF OnlyAt, TurnShape, k
<1>10. /\ queue[k] \in Seq(Requests) /\ Distinct(queue[k]) /\ r \notin Members(queue[k]) /\ r # running[k]
       /\ Members(queue[k]) \subseteq Requests
  <2>1. queue[k] \in Seq(Requests)
    BY <1>0 DEF KeyOK, InLine
  <2>2. Members(queue[k]) \subseteq Requests
    BY <2>1, ElementOfSeq DEF Members
  <2> QED BY <1>0, <2>1, <2>2, Constants DEF KeyOK, InLine
<1>11. /\ queue'[k] \in Seq(Requests) /\ Len(queue'[k]) = Len(queue[k]) + 1
       /\ Members(queue'[k]) = Members(queue[k]) \cup {r} /\ Distinct(queue'[k])
  BY <1>0, <1>1, <1>10, AppendMembers DEF TurnShape
<1>12. Undecided(k)' = Undecided(k) \cup {r} /\ r \notin Undecided(k)
  BY <1>7, <1>8 DEF Undecided, New, k
<1>13. Cardinality(Undecided(k)') = Cardinality(Undecided(k)) + 1
  BY <1>12, UndecidedIsFinite, FS_AddElement
<1>14. InLine(k)'
  <2>1. ~New(r)'
    BY <1>7 DEF New
  <2>2. \A q \in Requests : ~New(q) => ~New(q)'
    BY <1>8, <2>1 DEF New
  <2>3. \A q \in Members(queue'[k]) : KeyOf[q] = k /\ ~New(q)' /\ q # running'[k]
    BY <1>0, <1>1, <1>10, <1>11, <2>1, <2>2 DEF KeyOK, InLine, k
  <2>4. /\ running'[k] \in Requests \cup {None} /\ (running'[k] # None => KeyOf[running'[k]] = k /\ ~New(running[k])')
    BY <1>0, <1>1, <2>2 DEF KeyOK, InLine
  <2> QED BY <1>1, <1>11, <2>3, <2>4 DEF InLine
<1>15. s.waiters = {q \in Members(queue'[k]) : outcome'[q] = None}
  BY <1>0, <1>1, <1>3, <1>7, <1>11 DEF KeyOK, Waiting
<1>16. \A q \in Undecided(k)' : q \in s.waiters \/ q = running'[k]
  BY <1>0, <1>1, <1>3, <1>12 DEF KeyOK, Waiting
<1>17. s.retained = Len(queue'[k]) /\ (s.working <=> running'[k] # None)
  BY <1>0, <1>1, <1>3, <1>11 DEF KeyOK, Held
<1>18. s.live = Cardinality(Undecided(k)') /\ s.live <= MaxWaiting + 1
  BY <1>0, <1>3, <1>4, <1>13 DEF KeyOK, Held
<1>19. KeyOK(k)'
  BY <1>3, <1>6, <1>14, <1>15, <1>16, <1>17, <1>18, KeyFrom
<1> QED BY <1>0, <1>9, <1>19, TurnsFrom

\* What TurnsOK says at one key.
LEMMA AtKey ==
  ASSUME TurnsOK, NEW k \in AskedKeys
  PROVE  /\ SlotOf(k) \in Slots /\ SlotOf(k).live \in Nat /\ SlotOf(k).retained \in Nat
         /\ SlotOf(k).live = Cardinality(Undecided(k)) /\ SlotOf(k).live <= MaxWaiting + 1
         /\ SlotOf(k).retained = Len(queue[k]) /\ (SlotOf(k).working <=> running[k] # None)
         /\ SlotOf(k).waiters = {q \in Members(queue[k]) : outcome[q] = None}
         /\ \A q \in Undecided(k) : q \in SlotOf(k).waiters \/ q = running[k]
         /\ queue[k] \in Seq(Requests) /\ Distinct(queue[k]) /\ Members(queue[k]) \subseteq Requests
         /\ \A q \in Members(queue[k]) : KeyOf[q] = k /\ ~New(q) /\ q # running[k]
         /\ running[k] \in Requests \cup {None}
         /\ running[k] # None => KeyOf[running[k]] = k /\ ~New(running[k])
         /\ TurnShape /\ MaxWaiting \in Nat
<1>1. KeyOK(k) /\ TurnShape
  BY DEF TurnsOK
<1>2. SlotOf(k) \in Slots
  BY <1>1, EmptySlotIs DEF SlotOf, KeyOK, Held
<1>3. SlotOf(k).live \in Nat /\ SlotOf(k).retained \in Nat
  BY <1>2 DEF Slots
<1>4. queue[k] \in Seq(Requests)
  BY <1>1 DEF KeyOK, InLine
<1>5. Members(queue[k]) \subseteq Requests
  BY <1>4, ElementOfSeq DEF Members
<1>6. /\ SlotOf(k).live = Cardinality(Undecided(k)) /\ SlotOf(k).live <= MaxWaiting + 1
      /\ SlotOf(k).retained = Len(queue[k]) /\ (SlotOf(k).working <=> running[k] # None)
  BY <1>1 DEF KeyOK, Held
<1>7. /\ SlotOf(k).waiters = {q \in Members(queue[k]) : outcome[q] = None}
      /\ \A q \in Undecided(k) : q \in SlotOf(k).waiters \/ q = running[k]
  BY <1>1 DEF KeyOK, Waiting
<1>8. /\ Distinct(queue[k])
      /\ \A q \in Members(queue[k]) : KeyOf[q] = k /\ ~New(q) /\ q # running[k]
      /\ running[k] \in Requests \cup {None}
      /\ running[k] # None => KeyOf[running[k]] = k /\ ~New(running[k])
  BY <1>1 DEF KeyOK, InLine
<1> QED BY <1>1, <1>2, <1>3, <1>4, <1>5, <1>6, <1>7, <1>8, Constants

\* The job at the head of a queue is taken from it.
LEMMA AtHead ==
  ASSUME TurnsOK, NEW k \in AskedKeys, Startable(k), queue' = [queue EXCEPT ![k] = Tail(queue[k])]
  PROVE  /\ slot[k] \in Slots /\ SlotOf(k) = slot[k] /\ slot[k].retained > 0
         /\ Head(queue[k]) \in Members(queue[k]) /\ Head(queue[k]) \in Requests /\ KeyOf[Head(queue[k])] = k
         /\ Members(queue'[k]) = Members(queue[k]) \ {Head(queue[k])}
         /\ queue'[k] \in Seq(Requests) /\ Distinct(queue'[k]) /\ Len(queue'[k]) = slot[k].retained - 1
         /\ running[k] = None
<1>1. /\ queue[k] \in Seq(Requests) /\ Distinct(queue[k]) /\ SlotOf(k).retained = Len(queue[k])
      /\ TurnShape /\ SlotOf(k) \in Slots
      /\ \A q \in Members(queue[k]) : KeyOf[q] = k
  BY AtKey
<1>2. queue[k] # <<>> /\ running[k] = None
  BY DEF Startable
<1>3. /\ Tail(queue[k]) \in Seq(Requests) /\ Len(Tail(queue[k])) = Len(queue[k]) - 1 /\ Len(queue[k]) \in Nat
      /\ Len(queue[k]) > 0 /\ Head(queue[k]) \in Members(queue[k]) /\ Head(queue[k]) \in Requests
      /\ Members(Tail(queue[k])) = Members(queue[k]) \ {Head(queue[k])} /\ Distinct(Tail(queue[k]))
  BY <1>1, <1>2, TailMembers
<1>4. queue'[k] = Tail(queue[k])
  BY <1>1 DEF TurnShape
<1>5. slot[k] # None
  BY <1>1, <1>3, EmptySlotIs DEF SlotOf
<1>6. SlotOf(k) = slot[k]
  BY <1>5 DEF SlotOf
<1> QED BY <1>1, <1>2, <1>3, <1>4, <1>6

\* Nothing of a key but its slot and its queue changes, and what is decided stays so.
LEMMA DecidesAt ==
  ASSUME TurnsOK, NEW k \in AskedKeys, NEW s, NEW q,
         slot' = [slot EXCEPT ![k] = s], queue' = [queue EXCEPT ![k] = q] \/ (queue' = queue /\ q = queue[k]),
         NEW j, running' = [running EXCEPT ![k] = j] \/ running' = running,
         due' = due, outcome' \in [Requests -> Outcomes \cup Replies \cup {None}],
         \A r \in Requests : outcome'[r] = outcome[r] \/ (KeyOf[r] = k /\ outcome'[r] # None)
  PROVE  OnlyAt(k) /\ slot'[k] = s /\ queue'[k] = q /\ \A r \in Requests : ~New(r) => ~New(r)'
<1>1. TurnShape
  BY DEF TurnsOK
<1>2. slot'[k] = s /\ queue'[k] = q
  BY <1>1 DEF TurnShape
<1>3. \A r \in Requests : ~New(r) => ~New(r)'
  BY DEF New
<1>4. DOMAIN slot' = AskedKeys /\ DOMAIN queue' = AskedKeys /\ DOMAIN running' = AskedKeys
  BY <1>1 DEF TurnShape
<1>5. \A i \in AskedKeys : i # k => slot'[i] = slot[i] /\ queue'[i] = queue[i] /\ running'[i] = running[i]
  BY <1>1 DEF TurnShape
<1>6. due' \in [Requests -> Int \cup {None}]
  BY <1>1 DEF TurnShape
<1>7. \A r \in Requests : KeyOf[r] # k => outcome'[r] = outcome[r] /\ due'[r] = due[r]
  OBVIOUS
<1>8. OnlyAt(k)
  BY <1>4, <1>5, <1>6, <1>7 DEF OnlyAt
<1> QED BY <1>2, <1>3, <1>8

LEMMA TurnsDrained ==
  ASSUME TurnsOK, NEW k \in AskedKeys, DrainGhost(k)
  PROVE  TurnsOK'
<1> DEFINE s == Started(slot[k])
           h == Head(queue[k])
<1>1. /\ slot' = [slot EXCEPT ![k] = Released(s)] /\ queue' = [queue EXCEPT ![k] = Tail(queue[k])]
      /\ UNCHANGED <<running, outcome, due>> /\ Startable(k) /\ outcome[h] # None
  BY DEF DrainGhost
<1>2. /\ slot[k] \in Slots /\ SlotOf(k) = slot[k] /\ slot[k].retained > 0
      /\ h \in Members(queue[k]) /\ h \in Requests /\ KeyOf[h] = k
      /\ Members(queue'[k]) = Members(queue[k]) \ {h}
      /\ queue'[k] \in Seq(Requests) /\ Distinct(queue'[k]) /\ Len(queue'[k]) = slot[k].retained - 1
      /\ running[k] = None
  BY <1>1, AtHead
<1>3. /\ s \in Slots /\ s.retained = slot[k].retained - 1 /\ s.live = slot[k].live
      /\ s.working = slot[k].working /\ s.waiters = slot[k].waiters
  BY <1>2, StartedIs
<1> HIDE DEF s, h
<1>4. OnlyAt(k) /\ slot'[k] = Released(s) /\ \A r \in Requests : ~New(r) => ~New(r)'
  <2>1. outcome' \in [Requests -> Outcomes \cup Replies \cup {None}]
    BY <1>1 DEF TurnsOK, TurnShape
  <2> QED BY <1>1, <2>1, DecidesAt
<1>5. InLine(k)'
  BY <1>1, <1>2, <1>4, AtKey DEF InLine
<1>6. Undecided(k)' = Undecided(k)
  BY <1>1 DEF Undecided
<1>7. s.waiters = {q \in Members(queue'[k]) : outcome'[q] = None}
  BY <1>1, <1>2, <1>3, AtKey
<1>8. \A q \in Undecided(k)' : q \in s.waiters \/ q = running'[k]
  BY <1>1, <1>2, <1>3, <1>6, AtKey
<1>9. /\ s.retained = Len(queue'[k]) /\ (s.working <=> running'[k] # None)
      /\ s.live = Cardinality(Undecided(k)') /\ s.live <= MaxWaiting + 1
  BY <1>1, <1>2, <1>3, <1>6, AtKey
<1>10. KeyOK(k)'
  BY <1>3, <1>4, <1>5, <1>7, <1>8, <1>9, KeyFrom
<1> QED BY <1>4, <1>10, TurnsFrom

\* An undecided request is counted; decided, it is not.
LEMMA OneDecided ==
  ASSUME TurnsOK, NEW r \in Requests, outcome[r] = None, ~New(r), due' = due,
         outcome'[r] # None, \A q \in Requests : q # r => outcome'[q] = outcome[q]
  PROVE  /\ r \in Undecided(KeyOf[r]) /\ SlotOf(KeyOf[r]).live > 0
         /\ Undecided(KeyOf[r])' = Undecided(KeyOf[r]) \ {r}
         /\ Cardinality(Undecided(KeyOf[r])') = SlotOf(KeyOf[r]).live - 1
<1> DEFINE k == KeyOf[r]
<1>1. r \in Undecided(k)
  BY DEF Undecided, New
<1>2. Undecided(k)' = Undecided(k) \ {r}
  BY DEF Undecided
<1>3. k \in AskedKeys
  BY Constants
<1> HIDE DEF k
<1>4. SlotOf(k).live \in Nat /\ SlotOf(k).live = Cardinality(Undecided(k))
  BY <1>3, AtKey
<1>5. Cardinality(Undecided(k)') = Cardinality(Undecided(k)) - 1 /\ IsFiniteSet(Undecided(k))
  BY <1>1, <1>2, UndecidedIsFinite, FS_RemoveElement
<1>6. Cardinality(Undecided(k)) # 0
  BY <1>1, <1>5, FS_EmptySet
<1> QED BY <1>1, <1>2, <1>4, <1>5, <1>6 DEF k

LEMMA TurnsAnswered ==
  ASSUME TurnsOK, NEW r \in Requests, NEW answer \in Outcomes, AnswerEarly(r, answer)
  PROVE  TurnsOK'
<1> DEFINE k == KeyOf[r]
           z == Started(slot[k])
           s == Left(z, r)
<1>0. k \in AskedKeys /\ answer # None
  BY Constants
<1>1. /\ slot' = [slot EXCEPT ![k] = Released(s)] /\ queue' = [queue EXCEPT ![k] = Tail(queue[k])]
      /\ UNCHANGED <<running, due>> /\ Startable(k) /\ outcome[r] = None /\ Head(queue[k]) = r
      /\ outcome' = [outcome EXCEPT ![r] = answer]
  BY DEF AnswerEarly
<1>2. /\ slot[k] \in Slots /\ SlotOf(k) = slot[k] /\ slot[k].retained > 0
      /\ r \in Members(queue[k])
      /\ Members(queue'[k]) = Members(queue[k]) \ {r}
      /\ queue'[k] \in Seq(Requests) /\ Distinct(queue'[k]) /\ Len(queue'[k]) = slot[k].retained - 1
      /\ running[k] = None
  <2> HIDE DEF k, s, z
  <2> QED BY <1>0, <1>1, AtHead
<1>3. /\ z \in Slots /\ z.retained = slot[k].retained - 1 /\ z.live = slot[k].live
      /\ z.working = slot[k].working /\ z.waiters = slot[k].waiters
  BY <1>2, StartedIs
<1>4. outcome' \in [Requests -> Outcomes \cup Replies \cup {None}] /\ outcome'[r] # None
  BY <1>0, <1>1 DEF TurnsOK, TurnShape
<1>5. \A q \in Requests : q # r => outcome'[q] = outcome[q]
  BY <1>1 DEF TurnsOK, TurnShape
<1>6. ~New(r)
  BY <1>0, <1>2, AtKey
<1>7. /\ SlotOf(k).live > 0 /\ Undecided(k)' = Undecided(k) \ {r}
      /\ Cardinality(Undecided(k)') = SlotOf(k).live - 1
  BY <1>1, <1>4, <1>5, <1>6, OneDecided
<1>8. /\ s \in Slots /\ s.retained = z.retained /\ s.live = z.live - 1
      /\ s.working = z.working /\ s.waiters = z.waiters \ {r}
  <2> HIDE DEF z
  <2> QED BY <1>2, <1>3, <1>7, LeftIs
<1> HIDE DEF s, z
<1>9. OnlyAt(k) /\ slot'[k] = Released(s) /\ \A q \in Requests : ~New(q) => ~New(q)'
  <2>1. \A q \in Requests : outcome'[q] = outcome[q] \/ (KeyOf[q] = k /\ outcome'[q] # None)
    BY <1>4, <1>5
  <2> HIDE DEF k
  <2> QED BY <1>0, <1>1, <1>4, <2>1, DecidesAt
<1> HIDE DEF k
<1>10. InLine(k)'
  BY <1>0, <1>1, <1>2, <1>9, AtKey DEF InLine
<1>11. s.waiters = {q \in Members(queue'[k]) : outcome'[q] = None}
  BY <1>0, <1>2, <1>3, <1>5, <1>8, AtKey
<1>12. \A q \in Undecided(k)' : q \in s.waiters \/ q = running'[k]
  BY <1>0, <1>1, <1>2, <1>3, <1>7, <1>8, AtKey
<1>13. /\ s.retained = Len(queue'[k]) /\ (s.working <=> running'[k] # None)
  BY <1>0, <1>1, <1>2, <1>3, <1>8, AtKey
<1>14. s.live = Cardinality(Undecided(k)') /\ s.live <= MaxWaiting + 1
  BY <1>0, <1>2, <1>3, <1>7, <1>8, AtKey
<1>15. KeyOK(k)'
  BY <1>8, <1>9, <1>10, <1>11, <1>12, <1>13, <1>14, KeyFrom
<1> QED BY <1>0, <1>9, <1>15, TurnsFrom

LEMMA TurnsOpened ==
  ASSUME TurnsOK, NEW r \in Requests, NEW now, OpenTurn(r, now)
  PROVE  TurnsOK'
<1> DEFINE k == KeyOf[r]
           s == Opened(slot[k], r)
<1>0. k \in AskedKeys /\ r # None
  BY Constants
<1>1. /\ slot' = [slot EXCEPT ![k] = s] /\ queue' = [queue EXCEPT ![k] = Tail(queue[k])]
      /\ UNCHANGED <<outcome, due>> /\ Startable(k) /\ outcome[r] = None /\ Head(queue[k]) = r
      /\ running' = [running EXCEPT ![k] = r]
  BY DEF OpenTurn, Opened
<1>2. /\ slot[k] \in Slots /\ SlotOf(k) = slot[k] /\ slot[k].retained > 0
      /\ r \in Members(queue[k])
      /\ Members(queue'[k]) = Members(queue[k]) \ {r}
      /\ queue'[k] \in Seq(Requests) /\ Distinct(queue'[k]) /\ Len(queue'[k]) = slot[k].retained - 1
      /\ running[k] = None
  <2> HIDE DEF k, s
  <2> QED BY <1>0, <1>1, AtHead
<1>3. /\ s \in Slots /\ s.retained = slot[k].retained - 1 /\ s.live = slot[k].live
      /\ s.working /\ s.waiters = slot[k].waiters \ {r}
  BY <1>2, OpenedIs
<1> HIDE DEF s
<1>4. OnlyAt(k) /\ slot'[k] = s /\ \A q \in Requests : ~New(q) => ~New(q)'
  <2>1. outcome' \in [Requests -> Outcomes \cup Replies \cup {None}]
    BY <1>1 DEF TurnsOK, TurnShape
  <2> HIDE DEF k
  <2> QED BY <1>0, <1>1, <2>1, DecidesAt
<1>5. slot'[k] = Released(s)
  BY <1>3, <1>4 DEF Released, Idle
<1>6. running'[k] = r /\ ~New(r)' /\ KeyOf[r] = k
  BY <1>0, <1>1, <1>2, <1>4, AtKey DEF TurnsOK, TurnShape
<1> HIDE DEF k
<1>7. InLine(k)'
  <2>1. \A q \in Members(queue'[k]) : KeyOf[q] = k /\ ~New(q)' /\ q # running'[k]
    BY <1>0, <1>2, <1>4, <1>6, AtKey
  <2> QED BY <1>2, <1>6, <2>1 DEF InLine
<1>8. Undecided(k)' = Undecided(k)
  BY <1>1 DEF Undecided
<1>9. s.waiters = {q \in Members(queue'[k]) : outcome'[q] = None}
  BY <1>0, <1>1, <1>2, <1>3, AtKey
<1>10. \A q \in Undecided(k)' : q \in s.waiters \/ q = running'[k]
  BY <1>0, <1>2, <1>3, <1>6, <1>8, AtKey, UndecidedIsFinite, Constants
<1>11. s.retained = Len(queue'[k]) /\ (s.working <=> running'[k] # None)
  BY <1>0, <1>2, <1>3, <1>6
<1>12. s.live = Cardinality(Undecided(k)') /\ s.live <= MaxWaiting + 1
  BY <1>0, <1>2, <1>3, <1>8, AtKey
<1>13. KeyOK(k)'
  BY <1>3, <1>5, <1>7, <1>9, <1>10, <1>11, <1>12, KeyFrom
<1> QED BY <1>0, <1>4, <1>13, TurnsFrom

LEMMA TurnsLeft ==
  ASSUME TurnsOK, NEW r \in Requests, LeaveQueue(r)
  PROVE  TurnsOK'
<1> DEFINE k == KeyOf[r]
           s == Left(slot[k], r)
<1>0. k \in AskedKeys /\ "gone" # None /\ "gone" \in Outcomes
  BY Constants DEF Outcomes, Refusals
<1>1. /\ slot' = [slot EXCEPT ![k] = Released(s)]
      /\ UNCHANGED <<queue, running, due>> /\ r \in SlotOf(k).waiters
      /\ outcome' = [outcome EXCEPT ![r] = "gone"]
  BY DEF LeaveQueue
<1>2. slot[k] \in Slots /\ SlotOf(k) = slot[k]
  <2>1. slot[k] # None
    BY <1>1, EmptySlotIs DEF SlotOf
  <2> QED BY <1>0, <2>1, AtKey DEF SlotOf
<1>3. r \in Members(queue[k]) /\ outcome[r] = None /\ ~New(r)
  BY <1>0, <1>1, AtKey
<1>4. outcome' \in [Requests -> Outcomes \cup Replies \cup {None}] /\ outcome'[r] # None
  BY <1>0, <1>1 DEF TurnsOK, TurnShape
<1>5. \A q \in Requests : q # r => outcome'[q] = outcome[q]
  BY <1>1 DEF TurnsOK, TurnShape
<1>6. /\ SlotOf(k).live > 0 /\ Undecided(k)' = Undecided(k) \ {r}
      /\ Cardinality(Undecided(k)') = SlotOf(k).live - 1
  BY <1>1, <1>3, <1>4, <1>5, OneDecided
<1>7. /\ s \in Slots /\ s.retained = slot[k].retained /\ s.live = slot[k].live - 1
      /\ s.working = slot[k].working /\ s.waiters = slot[k].waiters \ {r}
  BY <1>2, <1>6, LeftIs
<1> HIDE DEF s
<1>8. OnlyAt(k) /\ slot'[k] = Released(s) /\ \A q \in Requests : ~New(q) => ~New(q)'
  <2>1. \A q \in Requests : outcome'[q] = outcome[q] \/ (KeyOf[q] = k /\ outcome'[q] # None)
    BY <1>4, <1>5
  <2> HIDE DEF k
  <2> QED BY <1>0, <1>1, <1>4, <2>1, DecidesAt
<1> HIDE DEF k
<1>9. InLine(k)'
  BY <1>0, <1>1, <1>8, AtKey DEF InLine
<1>10. s.waiters = {q \in Members(queue'[k]) : outcome'[q] = None}
  BY <1>0, <1>1, <1>2, <1>4, <1>5, <1>7, AtKey
<1>11. \A q \in Undecided(k)' : q \in s.waiters \/ q = running'[k]
  BY <1>0, <1>1, <1>2, <1>6, <1>7, AtKey
<1>12. s.retained = Len(queue'[k]) /\ (s.working <=> running'[k] # None)
  BY <1>0, <1>1, <1>2, <1>7, AtKey
<1>13. s.live = Cardinality(Undecided(k)') /\ s.live <= MaxWaiting + 1
  BY <1>0, <1>2, <1>6, <1>7, AtKey
<1>14. KeyOK(k)'
  BY <1>7, <1>8, <1>9, <1>10, <1>11, <1>12, <1>13, KeyFrom
<1> QED BY <1>0, <1>8, <1>14, TurnsFrom

\* A turn runs: its slot is there, and the turn itself does not wait.
LEMMA AtTurn ==
  ASSUME TurnsOK, NEW r \in Requests, running[KeyOf[r]] = r
  PROVE  /\ slot[KeyOf[r]] \in Slots /\ SlotOf(KeyOf[r]) = slot[KeyOf[r]] /\ slot[KeyOf[r]].working
         /\ r \notin Members(queue[KeyOf[r]]) /\ r \notin slot[KeyOf[r]].waiters /\ ~New(r)
<1> DEFINE k == KeyOf[r]
<1>0. k \in AskedKeys /\ r # None
  BY Constants
<1>1. SlotOf(k).working /\ SlotOf(k) \in Slots /\ ~New(r) /\ r \notin Members(queue[k]) /\ r \notin SlotOf(k).waiters
  BY <1>0, AtKey
<1>2. slot[k] # None
  BY <1>1, EmptySlotIs DEF SlotOf
<1> QED BY <1>1, <1>2 DEF SlotOf

LEMMA TurnsSettled ==
  ASSUME TurnsOK, NEW r \in Requests, NEW answer \in Outcomes, WorkSettles(r, answer)
  PROVE  TurnsOK'
<1> DEFINE k == KeyOf[r]
           z == IF outcome[r] = None THEN Left(slot[k], r) ELSE slot[k]
           s == Freed(z)
<1>0. k \in AskedKeys /\ r # None /\ answer # None
  BY Constants
<1>1. /\ slot' = [slot EXCEPT ![k] = Released(s)] /\ running' = [running EXCEPT ![k] = None]
      /\ UNCHANGED <<queue, due>> /\ running[k] = r
      /\ outcome' = [outcome EXCEPT ![r] = IF outcome[r] = None THEN answer ELSE outcome[r]]
  BY DEF WorkSettles
<1>2. /\ slot[k] \in Slots /\ SlotOf(k) = slot[k]
      /\ r \notin Members(queue[k]) /\ r \notin slot[k].waiters /\ ~New(r)
  BY <1>1, AtTurn
<1>3. outcome' \in [Requests -> Outcomes \cup Replies \cup {None}] /\ outcome'[r] # None
  BY <1>0, <1>1 DEF TurnsOK, TurnShape
<1>4. \A q \in Requests : q # r => outcome'[q] = outcome[q]
  BY <1>1 DEF TurnsOK, TurnShape
<1>5. /\ z \in Slots /\ z.retained = slot[k].retained /\ z.waiters = slot[k].waiters
      /\ z.live = Cardinality(Undecided(k)') /\ z.live <= MaxWaiting + 1
      /\ Undecided(k)' = Undecided(k) \ {r}
  <2>1. CASE outcome[r] = None
    <3>1. /\ SlotOf(k).live > 0 /\ Undecided(k)' = Undecided(k) \ {r}
          /\ Cardinality(Undecided(k)') = SlotOf(k).live - 1
      BY <1>1, <1>2, <1>3, <1>4, <2>1, OneDecided
    <3>2. /\ Left(slot[k], r) \in Slots /\ Left(slot[k], r).retained = slot[k].retained
          /\ Left(slot[k], r).live = slot[k].live - 1 /\ Left(slot[k], r).waiters = slot[k].waiters \ {r}
      BY <1>2, <3>1, LeftIs
    <3>3. SlotOf(k).live \in Nat /\ SlotOf(k).live <= MaxWaiting + 1 /\ MaxWaiting \in Nat
      BY <1>0, AtKey
    <3>4. z = Left(slot[k], r)
      BY <2>1
    <3>5. slot[k].waiters \ {r} = slot[k].waiters
      BY <1>2
    <3>6. slot[k].live \in Nat /\ slot[k].live <= MaxWaiting + 1
          /\ Cardinality(Undecided(k)') = slot[k].live - 1
      BY <1>2, <3>1, <3>3
    <3>7. slot[k].live - 1 <= MaxWaiting + 1
      BY <3>3, <3>6
    <3> HIDE DEF z, k
    <3> QED BY <3>1, <3>2, <3>4, <3>5, <3>6, <3>7
  <2>2. CASE outcome[r] # None
    <3>1. Undecided(k)' = Undecided(k) /\ Undecided(k) = Undecided(k) \ {r}
      BY <1>1, <1>3, <1>4, <2>2 DEF Undecided
    <3>2. z = slot[k]
      BY <2>2
    <3> QED BY <1>0, <1>2, <3>1, <3>2, AtKey
  <2> QED BY <2>1, <2>2
<1>6. /\ s \in Slots /\ s.retained = z.retained /\ s.live = z.live /\ ~s.working /\ s.waiters = z.waiters
  <2> HIDE DEF z
  <2> QED BY <1>5, FreedIs
<1> HIDE DEF s, z
<1>7. OnlyAt(k) /\ slot'[k] = Released(s) /\ \A q \in Requests : ~New(q) => ~New(q)'
  <2>1. \A q \in Requests : outcome'[q] = outcome[q] \/ (KeyOf[q] = k /\ outcome'[q] # None)
    BY <1>3, <1>4
  <2> HIDE DEF k
  <2> QED BY <1>0, <1>1, <1>3, <2>1, DecidesAt
<1>8. running'[k] = None
  BY <1>0, <1>1 DEF TurnsOK, TurnShape
<1> HIDE DEF k
<1>9. InLine(k)'
  <2>1. \A q \in Members(queue'[k]) : KeyOf[q] = k /\ ~New(q)' /\ q # running'[k]
    BY <1>0, <1>1, <1>7, <1>8, AtKey, Constants
  <2>2. queue'[k] \in Seq(Requests) /\ Distinct(queue'[k])
    BY <1>0, <1>1, AtKey
  <2> QED BY <1>8, <2>1, <2>2 DEF InLine
<1>10. s.waiters = {q \in Members(queue'[k]) : outcome'[q] = None}
  BY <1>0, <1>1, <1>2, <1>4, <1>5, <1>6, AtKey
<1>11. \A q \in Undecided(k)' : q \in s.waiters \/ q = running'[k]
  BY <1>0, <1>1, <1>2, <1>5, <1>6, AtKey
<1>12. s.retained = Len(queue'[k]) /\ (s.working <=> running'[k] # None)
  BY <1>0, <1>1, <1>2, <1>5, <1>6, <1>8, AtKey
<1>13. KeyOK(k)'
  BY <1>5, <1>6, <1>7, <1>9, <1>10, <1>11, <1>12, KeyFrom
<1> QED BY <1>0, <1>7, <1>13, TurnsFrom

LEMMA TurnsEnded ==
  ASSUME TurnsOK, NEW r \in Requests, NEW kind \in Outcomes, EndTurn(r, kind)
  PROVE  TurnsOK'
<1> DEFINE k == KeyOf[r]
           ws == slot[k].waiters
           s == Orphaned(slot[k], Cardinality(ws))
<1>0. k \in AskedKeys /\ r # None /\ kind # None /\ "orphaned" # None /\ "orphaned" \in Outcomes
  BY Constants DEF Outcomes, Refusals
<1>1. /\ slot' = [slot EXCEPT ![k] = s]
      /\ UNCHANGED <<queue, running, due>> /\ running[k] = r /\ outcome[r] = None
      /\ outcome' = [q \in Requests |-> CASE q = r -> kind
                                          [] q \in ws -> "orphaned"
                                          [] OTHER -> outcome[q]]
  <2>1. PICK x \in {slot[KeyOf[r]].waiters} :
              /\ outcome' = [q \in Requests |-> CASE q = r -> kind
                                                  [] q \in x -> "orphaned"
                                                  [] OTHER -> outcome[q]]
              /\ slot' = [slot EXCEPT ![KeyOf[r]] =
                            [slot[KeyOf[r]] EXCEPT !.live = @ - 1 - Cardinality(x),
                                                   !.waiters = {}, !.orphan = TRUE]]
    BY DEF EndTurn
  <2>2. x = ws
    OBVIOUS
  <2>3. UNCHANGED <<queue, running, due>> /\ running[k] = r /\ outcome[r] = None
    BY DEF EndTurn
  <2> QED BY <2>1, <2>2, <2>3 DEF Orphaned
<1>2. /\ slot[k] \in Slots /\ SlotOf(k) = slot[k] /\ slot[k].working
      /\ r \notin Members(queue[k]) /\ r \notin ws /\ ~New(r)
  BY <1>1, AtTurn
<1>3. /\ outcome'[r] # None
      /\ \A q \in Requests : q \in ws => outcome'[q] # None
      /\ \A q \in Requests : q # r /\ q \notin ws => outcome'[q] = outcome[q]
  <2> HIDE DEF ws, s
  <2>1. outcome'[r] = kind
    BY <1>1, <1>2
  <2>2. \A q \in Requests : q \in ws => outcome'[q] = "orphaned"
    BY <1>1, <1>2
  <2>3. \A q \in Requests : q # r /\ q \notin ws => outcome'[q] = outcome[q]
    BY <1>1
  <2> QED BY <1>0, <2>1, <2>2, <2>3
<1>4. outcome' \in [Requests -> Outcomes \cup Replies \cup {None}]
  <2>1. \A q \in Requests : outcome[q] \in Outcomes \cup Replies \cup {None}
    BY DEF TurnsOK, TurnShape
  <2> QED BY <1>0, <1>1, <2>1
<1>5. ws = {q \in Members(queue[k]) : outcome[q] = None} /\ ws \subseteq Undecided(k) /\ ws \subseteq Requests
  <2>1. ws = {q \in Members(queue[k]) : outcome[q] = None} /\ Members(queue[k]) \subseteq Requests
    BY <1>0, <1>2, AtKey
  <2>2. \A q \in Members(queue[k]) : KeyOf[q] = k /\ ~New(q)
    BY <1>0, AtKey
  <2> QED BY <2>1, <2>2 DEF Undecided, New
<1>6. Undecided(k) = ws \cup {r}
  <2>1. r \in Undecided(k)
    BY <1>1, <1>2 DEF Undecided, New
  <2>2. \A q \in Undecided(k) : q \in ws \/ q = r
    BY <1>0, <1>1, <1>2, AtKey
  <2> QED BY <1>5, <2>1, <2>2
<1>7. Undecided(k)' = {}
  <2>1. \A q \in Requests : KeyOf[q] = k /\ due[q] # None /\ outcome[q] = None => q \in ws \cup {r}
    BY <1>6 DEF Undecided
  <2> HIDE DEF ws, s
  <2>2. ASSUME NEW q \in Undecided(k)' PROVE FALSE
    <3>1. q \in Requests /\ KeyOf[q] = k /\ due[q] # None /\ outcome'[q] = None
      BY <1>1, <2>2 DEF Undecided
    <3> QED BY <1>3, <2>1, <3>1
  <2> QED BY <2>2
<1>8. Cardinality(ws) \in Nat /\ slot[k].live = Cardinality(ws) + 1
  <2>1. IsFiniteSet(ws) /\ Cardinality(ws) \in Nat
    BY <1>5, Constants, FS_Subset, FS_CardinalityType
  <2>2. Cardinality(ws \cup {r}) = Cardinality(ws) + 1
    <3> HIDE DEF ws, s
    <3> QED BY <1>2, <2>1, FS_AddElement
  <2>3. SlotOf(k).live = Cardinality(Undecided(k))
    BY <1>0, AtKey
  <2> HIDE DEF ws, s, k
  <2> QED BY <1>2, <1>6, <2>1, <2>2, <2>3
<1>9. /\ s \in Slots /\ s.retained = slot[k].retained /\ s.live = 0 /\ s.working /\ s.waiters = {}
  <2>1. slot[k].live - 1 - Cardinality(ws) = 0
    BY <1>8
  <2> HIDE DEF ws, k
  <2> QED BY <1>2, <1>8, <2>1, OrphanedIs
<1> HIDE DEF s
<1>10. OnlyAt(k) /\ slot'[k] = s /\ \A q \in Requests : ~New(q) => ~New(q)'
  <2>1. \A q \in Requests : q \in ws => KeyOf[q] = k
    BY <1>5 DEF Undecided
  <2>2. \A q \in Requests : outcome'[q] = outcome[q] \/ (KeyOf[q] = k /\ outcome'[q] # None)
    BY <1>3, <2>1
  <2> HIDE DEF k
  <2> QED BY <1>0, <1>1, <1>4, <2>2, DecidesAt
<1>11. slot'[k] = Released(s)
  BY <1>9, <1>10 DEF Released, Idle
<1> HIDE DEF k
<1>12. InLine(k)'
  BY <1>0, <1>1, <1>10, AtKey DEF InLine
<1>13. s.waiters = {q \in Members(queue'[k]) : outcome'[q] = None}
  <2>1. \A q \in Members(queue[k]) : q \in Requests /\ (q \in ws => outcome'[q] # None)
    BY <1>0, <1>3, AtKey
  <2>2. \A q \in Members(queue[k]) : q \notin ws => q # r /\ outcome'[q] = outcome[q] /\ outcome[q] # None
    BY <1>2, <1>3, <1>5, <2>1
  <2> QED BY <1>1, <1>9, <2>1, <2>2
<1>14. /\ s.retained = Len(queue'[k]) /\ (s.working <=> running'[k] # None)
  BY <1>0, <1>1, <1>2, <1>9, AtKey
<1>15. s.live = Cardinality(Undecided(k)') /\ s.live <= MaxWaiting + 1
  BY <1>7, <1>9, FS_EmptySet, Constants
<1>16. KeyOK(k)'
  BY <1>7, <1>9, <1>11, <1>12, <1>13, <1>14, <1>15, KeyFrom
<1> QED BY <1>0, <1>10, <1>16, TurnsFrom

\* A key that holds nothing.
LEMMA KeyEmpty ==
  ASSUME NEW k, slot[k] = None, queue[k] = <<>>, running[k] = None, Undecided(k) = {}
  PROVE  KeyOK(k)
<1>1. SlotOf(k) = EmptySlot
  BY DEF SlotOf
<1>2. Members(queue[k]) = {} /\ Distinct(queue[k]) /\ queue[k] \in Seq(Requests) /\ Len(queue[k]) = 0
  BY EmptyQueue, EmptySeq
<1>3. Held(k)
  <2>1. Cardinality(Undecided(k)) = 0
    BY FS_EmptySet
  <2>2. 0 <= MaxWaiting + 1
    BY Constants
  <2>3. SlotOf(k).live = 0 /\ SlotOf(k).retained = 0 /\ ~SlotOf(k).working
    BY <1>1, EmptySlotIs
  <2> QED BY <1>2, <2>1, <2>2, <2>3 DEF Held
<1>4. InLine(k)
  BY <1>2 DEF InLine
<1>5. Waiting(k)
  BY <1>1, <1>2, EmptySlotIs DEF Waiting
<1> QED BY <1>3, <1>4, <1>5 DEF KeyOK

LEMMA TurnsCleared ==
  ASSUME TurnsOK, ClearTurns
  PROVE  TurnsOK'
<1>1. /\ slot' = [k \in AskedKeys |-> None] /\ queue' = [k \in AskedKeys |-> <<>>]
      /\ running' = [k \in AskedKeys |-> None] /\ due' = due
      /\ outcome' = [r \in Requests |->
                       IF due[r] # None /\ outcome[r] = None THEN "gone" ELSE outcome[r]]
  BY DEF ClearTurns
<1>2. "gone" \in Outcomes /\ "gone" # None
  BY Constants DEF Outcomes, Refusals
<1>3. TurnShape
  BY DEF TurnsOK
<1>4. TurnShape'
  <2>1. outcome' \in [Requests -> Outcomes \cup Replies \cup {None}]
    BY <1>1, <1>2, <1>3 DEF TurnShape
  <2> QED BY <1>1, <1>3, <2>1 DEF TurnShape
<1>5. ASSUME NEW k \in AskedKeys PROVE KeyOK(k)'
  <2>1. slot'[k] = None /\ queue'[k] = <<>> /\ running'[k] = None
    BY <1>1
  <2>2. Undecided(k)' = {}
    BY <1>1, <1>2 DEF Undecided
  <2>3. Members(queue'[k]) = {} /\ Distinct(queue'[k]) /\ queue'[k] \in Seq(Requests) /\ Len(queue'[k]) = 0
    BY <2>1, EmptyQueue, EmptySeq
  <2>4. slot'[k] = Released(EmptySlot)
    BY <2>1, EmptySlotIs DEF Released, Idle
  <2>5. InLine(k)'
    BY <2>1, <2>3 DEF InLine
  <2>6. EmptySlot.live = Cardinality(Undecided(k)') /\ EmptySlot.live <= MaxWaiting + 1
    BY <2>2, FS_EmptySet, EmptySlotIs, Constants
  <2>7. /\ EmptySlot.retained = Len(queue'[k]) /\ (EmptySlot.working <=> running'[k] # None)
        /\ EmptySlot.waiters = {r \in Members(queue'[k]) : outcome'[r] = None}
    BY <2>1, <2>3, EmptySlotIs
  <2> QED BY <2>2, <2>4, <2>5, <2>6, <2>7, EmptySlotIs, KeyFrom
<1> QED BY <1>4, <1>5 DEF TurnsOK

\* The monotonic clock only goes forth.
ClocksOK == mono \in Nat /\ wall \in Int

LEMMA TurnsInit == ASSUME Init PROVE TurnsOK /\ ClocksOK
<1>1. TurnInit
  BY DEF Init
<1>2. TurnShape
  BY <1>1 DEF TurnInit, TurnShape
<1>3. ASSUME NEW k \in AskedKeys PROVE KeyOK(k)
  <2>1. slot[k] = None /\ queue[k] = <<>> /\ running[k] = None
    BY <1>1 DEF TurnInit
  <2>2. Undecided(k) = {}
    BY <1>1 DEF TurnInit, Undecided
  <2> QED BY <2>1, <2>2, KeyEmpty
<1> QED BY <1>2, <1>3, AgentAssumption DEF TurnsOK, Init, ClocksOK

LEMMA ClocksNext == ASSUME ClocksOK, [Next]_vars PROVE ClocksOK'
<1>1. CASE UNCHANGED clockVars
  BY <1>1 DEF clockVars, ClocksOK
<1>2. CASE Tick
  BY <1>2 DEF Tick, ClocksOK
<1>3. CASE SetClock
  BY <1>3, AgentAssumption DEF SetClock, ClocksOK
<1>4. CASE UNCHANGED vars
  BY <1>1, <1>4 DEF vars
<1>5. ASSUME NEW k \in Keys, Serve(k) \/ Unload(k) \/ AskEveryUse(k) PROVE UNCHANGED clockVars
  BY <1>5 DEF Serve, Unload, AskEveryUse
<1>6. ASSUME Lock \/ Unlock \/ IdleElapses \/ SetAutoLock \/ Expire \/ DrainGhosts \/ Dispose
      PROVE  UNCHANGED clockVars
  BY <1>6 DEF Lock, Unlock, IdleElapses, SetAutoLock, Expire, DrainGhosts, Dispose
<1>7. ASSUME NEW r \in Requests, NEW c, ArriveCovered(r, c) \/ ArriveUncovered(r, c)
      PROVE  UNCHANGED clockVars
  BY <1>7 DEF ArriveCovered, ArriveUncovered
<1>8. ASSUME NEW r \in Requests, Microtask(r) PROVE UNCHANGED clockVars
  BY <1>8 DEF Microtask, RefusedStale, CoveredAfterWaiting, RefusedTooLate, ShowPrompt, Reply, Replied
<1>9. ASSUME NEW r \in Requests, NEW a, Settle(r, a) PROVE UNCHANGED clockVars
  BY <1>9 DEF Settle
<1>10. ASSUME NEW r \in Requests, NEW a, Answer(r, a) \/ Pick(r, a) PROVE UNCHANGED clockVars
  BY <1>9, <1>10 DEF Answer, Pick
<1>11. ASSUME NEW r \in Requests, AnswerLonger(r) PROVE UNCHANGED clockVars
  BY <1>9, <1>11 DEF AnswerLonger
<1>12. ASSUME NEW r \in Requests, StaleAnswer(r) \/ TimesOut(r) \/ HangUp(r) PROVE UNCHANGED clockVars
  BY <1>12 DEF StaleAnswer, TimesOut, HangUp
<1> QED BY <1>1, <1>2, <1>3, <1>4, <1>5, <1>6, <1>7, <1>8, <1>10, <1>11, <1>12 DEF Next

LEMMA TurnsNext == ASSUME TurnsOK, ClocksOK, [Next]_vars PROVE TurnsOK'
<1>0. {"yes", "no", "too-late", "timed-out", "gone"} \subseteq Outcomes /\ {"signed", "refused"} \subseteq Replies
  BY DEF Outcomes, Refusals, Replies
<1>1. ASSUME UNCHANGED turnVars PROVE TurnsOK'
  BY <1>1, TurnsStill
<1>2. ASSUME UNCHANGED vars PROVE UNCHANGED turnVars
  BY <1>2 DEF vars
<1>3. ASSUME NEW k \in Keys, Serve(k) \/ Unload(k) \/ AskEveryUse(k) PROVE UNCHANGED turnVars
  BY <1>3 DEF Serve, Unload, AskEveryUse
<1>4. ASSUME Lock \/ Unlock \/ IdleElapses \/ SetAutoLock \/ Expire \/ Tick \/ SetClock
      PROVE  UNCHANGED turnVars
  BY <1>4 DEF Lock, Unlock, IdleElapses, SetAutoLock, Expire, Tick, SetClock
<1>5. ASSUME NEW r \in Requests, NEW c, ArriveCovered(r, c) PROVE TurnsOK'
  <2>1. /\ outcome' = [outcome EXCEPT ![r] = "yes"] /\ due' = [due EXCEPT ![r] = mono + Bound]
        /\ UNCHANGED <<slot, queue, running>> /\ New(r)
    BY <1>5 DEF ArriveCovered, Asks
  <2>2. /\ outcome \in [Requests -> Outcomes \cup Replies \cup {None}] /\ due \in [Requests -> Int \cup {None}]
        /\ mono + Bound \in Int /\ "yes" # None
    BY <1>0, Constants DEF TurnsOK, TurnShape, ClocksOK
  <2>3. outcome' \in [Requests -> Outcomes \cup Replies \cup {None}] /\ due' \in [Requests -> Int \cup {None}]
    BY <1>0, <2>1, <2>2
  <2>4. \A q \in Requests : q # r => outcome'[q] = outcome[q] /\ due'[q] = due[q]
    BY <2>1, <2>2
  <2>5. outcome'[r] # None
    BY <2>1, <2>2
  <2> QED BY <2>1, <2>3, <2>4, <2>5, TurnsSame
<1>6. ASSUME NEW r \in Requests, NEW c, ArriveUncovered(r, c) PROVE TurnsOK'
  <2>1. New(r) /\ mono \in Int /\ (RefuseAtArrival(r, mono) \/ Enqueue(r, mono))
    BY <1>6 DEF ArriveUncovered, Asks, ClocksOK
  <2>2. CASE RefuseAtArrival(r, mono)
    BY <2>1, <2>2, TurnsRefused
  <2>3. CASE Enqueue(r, mono)
    BY <2>1, <2>3, TurnsEnqueued
  <2> QED BY <2>1, <2>2, <2>3
<1>7. ASSUME NEW r \in Requests, Microtask(r) PROVE TurnsOK'
  <2>1. CASE \E a \in {"yes", "no", "too-late"} : AnswerEarly(r, a)
    BY <1>0, <2>1, TurnsAnswered
  <2>2. CASE OpenTurn(r, mono)
    BY <2>2, TurnsOpened
  <2>3. CASE Reply(r)
    <3>1. outcome[r] \in Outcomes /\ \E a \in {"signed", "refused"} : Deliver(r, a)
      BY <2>3 DEF Reply
    <3> QED BY <1>0, <3>1, TurnsDelivered
  <2>4. RefusedStale(r) => AnswerEarly(r, "no")
    BY DEF RefusedStale
  <2>5. CoveredAfterWaiting(r) => AnswerEarly(r, "yes")
    BY DEF CoveredAfterWaiting
  <2>6. RefusedTooLate(r) => AnswerEarly(r, "too-late")
    BY DEF RefusedTooLate
  <2>7. ShowPrompt(r) => OpenTurn(r, mono)
    BY DEF ShowPrompt
  <2> QED BY <1>7, <2>1, <2>2, <2>3, <2>4, <2>5, <2>6, <2>7 DEF Microtask
<1>8. ASSUME NEW r \in Requests, NEW a, Settle(r, a) PROVE TurnsOK'
  <2>1. \E o \in {"yes", "no"} : WorkSettles(r, o)
    BY <1>8 DEF Settle
  <2> QED BY <1>0, <2>1, TurnsSettled
<1>9. ASSUME NEW r \in Requests, NEW a, Answer(r, a) \/ Pick(r, a) PROVE TurnsOK'
  BY <1>8, <1>9 DEF Answer, Pick
<1>10. ASSUME NEW r \in Requests, AnswerLonger(r) PROVE TurnsOK'
  BY <1>1, <1>8, <1>10 DEF AnswerLonger
<1>11. ASSUME NEW r \in Requests, StaleAnswer(r) PROVE TurnsOK'
  BY <1>0, <1>11, TurnsSettled DEF StaleAnswer
<1>12. ASSUME NEW r \in Requests, TimesOut(r) \/ HangUp(r) PROVE TurnsOK'
  <2>1. (\E o \in {"timed-out", "gone"} : EndTurn(r, o)) \/ LeaveQueue(r)
    BY <1>12 DEF TimesOut, HangUp
  <2> QED BY <1>0, <2>1, TurnsEnded, TurnsLeft
<1>13. ASSUME DrainGhosts PROVE TurnsOK'
  BY <1>13, TurnsDrained DEF DrainGhosts
<1>14. ASSUME Dispose PROVE TurnsOK'
  BY <1>14, TurnsCleared DEF Dispose
<1> QED BY <1>1, <1>2, <1>3, <1>4, <1>5, <1>6, <1>7, <1>9, <1>10, <1>11, <1>12, <1>13, <1>14 DEF Next

LEMMA TurnsInvariant == Spec => [](TurnsOK /\ ClocksOK)
<1>1. Init => TurnsOK /\ ClocksOK
  BY TurnsInit
<1>2. TurnsOK /\ ClocksOK /\ [Next]_vars => (TurnsOK /\ ClocksOK)'
  BY TurnsNext, ClocksNext
<1> QED BY <1>1, <1>2, PTL DEF Spec

\* A key's slot counts exactly the requests of its queue and its open turn
\* that are undecided, and the jobs that have not run, whatever the order of
\* arrivals, departures, timeouts and late answers (consentTurns.ts: take,
\* turn, run, end, requestAborted, clear).
THEOREM SlotsCount == Spec => []SlotAccounts
<1>1. TurnsOK => SlotAccounts
  BY DEF TurnsOK, KeyOK, Held, SlotAccounts
<1> QED BY <1>1, TurnsInvariant, PTL

-----------------------------------------------------------------------------
(* The dialogs: one that is on screen is that of the turn its key runs.    *)

Screened ==
  /\ screen \in [Requests -> Screens] /\ disposed \in BOOLEAN
  /\ disposed \/ \A r \in Requests : screen[r] # "none" => running[KeyOf[r]] = r

\* The turn's dialog closes with it.
Closes(r) ==
  /\ running[KeyOf[r]] = r /\ running' = [running EXCEPT ![KeyOf[r]] = None]
  /\ screen' = [screen EXCEPT ![r] = "none"] /\ disposed' = disposed

LEMMA ScreenSteps ==
  ASSUME [Next]_vars
  PROVE  \/ UNCHANGED <<screen, running, disposed>>
         \/ \E r \in Requests : ShowPrompt(r)
         \/ \E r \in Requests : Closes(r)
         \/ \E r \in Requests : screen[r] # "none" /\ screen' = [screen EXCEPT ![r] = "list"]
                                /\ UNCHANGED <<running, disposed>>
         \/ disposed' = TRUE /\ screen' = screen
<1> DEFINE Same == UNCHANGED <<screen, running, disposed>>
<1>1. ASSUME UNCHANGED vars PROVE Same
  BY <1>1 DEF vars, turnVars, reqVars, vaultVars
<1>2. ASSUME NEW k \in Keys, Serve(k) \/ Unload(k) \/ AskEveryUse(k) PROVE Same
  BY <1>2 DEF Serve, Unload, AskEveryUse, turnVars, reqVars, vaultVars
<1>3. ASSUME Lock \/ Unlock \/ IdleElapses \/ SetAutoLock \/ Expire \/ Tick \/ SetClock PROVE Same
  BY <1>3 DEF Lock, Unlock, IdleElapses, SetAutoLock, Expire, Tick, SetClock, turnVars, reqVars, vaultVars
<1>4. ASSUME NEW r \in Requests, NEW c, ArriveCovered(r, c) \/ ArriveUncovered(r, c) PROVE Same
  BY <1>4 DEF ArriveCovered, ArriveUncovered, RefuseAtArrival, Enqueue, vaultVars
<1>5. ASSUME NEW r \in Requests, Microtask(r) PROVE Same \/ ShowPrompt(r)
  BY <1>5 DEF Microtask, RefusedStale, CoveredAfterWaiting, RefusedTooLate, AnswerEarly, Reply, Replied, Deliver,
              vaultVars, reqVars
<1>6. ASSUME DrainGhosts PROVE Same
  BY <1>6 DEF DrainGhosts, DrainGhost, vaultVars, reqVars
<1>7. ASSUME NEW r \in Requests, NEW a, Settle(r, a) PROVE Closes(r)
  BY <1>7 DEF Settle, WorkSettles, Closes
<1>8. ASSUME NEW r \in Requests, NEW a, Answer(r, a) \/ Pick(r, a) PROVE Closes(r)
  BY <1>7, <1>8 DEF Answer, Pick
<1>9. ASSUME NEW r \in Requests, AnswerLonger(r)
      PROVE  \/ Closes(r)
             \/ screen[r] # "none" /\ screen' = [screen EXCEPT ![r] = "list"] /\ UNCHANGED <<running, disposed>>
  BY <1>7, <1>9 DEF AnswerLonger, turnVars, vaultVars
<1>10. ASSUME NEW r \in Requests, StaleAnswer(r) PROVE Closes(r)
  BY <1>10 DEF StaleAnswer, WorkSettles, Closes, vaultVars
<1>11. ASSUME NEW r \in Requests, TimesOut(r) \/ HangUp(r) PROVE Same
  BY <1>11 DEF TimesOut, HangUp, EndTurn, LeaveQueue, vaultVars, reqVars
<1>12. ASSUME Dispose PROVE disposed' = TRUE /\ screen' = screen
  BY <1>12 DEF Dispose, reqVars
<1> QED BY <1>1, <1>2, <1>3, <1>4, <1>5, <1>6, <1>8, <1>9, <1>10, <1>11, <1>12 DEF Next

LEMMA ScreenedNext == ASSUME TurnsOK, Screened, [Next]_vars PROVE Screened'
<1>0. /\ screen \in [Requests -> Screens] /\ disposed \in BOOLEAN
      /\ \A r \in Requests : KeyOf[r] \in AskedKeys /\ r # None
      /\ DOMAIN running = AskedKeys
  BY Constants DEF Screened, TurnsOK, TurnShape
<1>1. CASE UNCHANGED <<screen, running, disposed>>
  BY <1>1 DEF Screened
<1>2. ASSUME NEW r \in Requests, ShowPrompt(r) PROVE Screened'
  <2>1. /\ running' = [running EXCEPT ![KeyOf[r]] = r] /\ running[KeyOf[r]] = None /\ disposed' = disposed
        /\ \E v \in {"modal", "modal-longer"} : screen' = [screen EXCEPT ![r] = v]
    BY <1>2 DEF ShowPrompt, OpenTurn, Startable, vaultVars
  <2>2. screen' \in [Requests -> Screens] /\ \A q \in Requests : q # r => screen'[q] = screen[q]
    BY <1>0, <2>1 DEF Screens
  <2>3. running'[KeyOf[r]] = r /\ \A k \in AskedKeys : k # KeyOf[r] => running'[k] = running[k]
    BY <1>0, <2>1
  <2>4. ASSUME ~disposed, NEW q \in Requests, screen'[q] # "none" PROVE running'[KeyOf[q]] = q
    BY <1>0, <2>1, <2>2, <2>3, <2>4 DEF Screened
  <2> QED BY <1>0, <2>1, <2>2, <2>4 DEF Screened
<1>3. ASSUME NEW r \in Requests, Closes(r) PROVE Screened'
  <2>1. screen' \in [Requests -> Screens] /\ screen'[r] = "none" /\ \A q \in Requests : q # r => screen'[q] = screen[q]
    BY <1>0, <1>3 DEF Screens, Closes
  <2>2. \A k \in AskedKeys : k # KeyOf[r] => running'[k] = running[k]
    BY <1>0, <1>3 DEF Closes
  <2>3. ASSUME ~disposed, NEW q \in Requests, screen'[q] # "none" PROVE running'[KeyOf[q]] = q
    <3>1. q # r /\ running[KeyOf[q]] = q
      BY <2>1, <2>3 DEF Screened
    <3> QED BY <1>0, <1>3, <2>2, <3>1 DEF Closes
  <2> QED BY <1>0, <1>3, <2>1, <2>3 DEF Screened, Closes
<1>4. ASSUME NEW r \in Requests, screen[r] # "none", screen' = [screen EXCEPT ![r] = "list"],
             UNCHANGED <<running, disposed>>
      PROVE  Screened'
  BY <1>0, <1>4 DEF Screened, Screens
<1>5. CASE disposed' = TRUE /\ screen' = screen
  BY <1>0, <1>5 DEF Screened
<1> QED BY <1>1, <1>2, <1>3, <1>4, <1>5, ScreenSteps

LEMMA ScreenedInit == ASSUME Init PROVE Screened
BY DEF Init, Screened, Screens

\* A person never faces two prompts for one key, whatever turns ended before
\* their modals (the slot of consentTurns.ts, shown by sshAgentManager.ts).
THEOREM OnePrompt == Spec => []OnePromptPerKey
<1>1. Init => Screened
  BY ScreenedInit
<1>2. TurnsOK /\ Screened /\ [Next]_vars => Screened'
  BY ScreenedNext
<1>3. Screened => OnePromptPerKey
  BY DEF Screened, OnePromptPerKey
<1> QED BY <1>1, <1>2, <1>3, TurnsInvariant, PTL DEF Spec

-----------------------------------------------------------------------------
(* A turn that was told it is over has refused its caller, a running turn  *)
(* that is decided was told so, and nothing is allowed but by a click or a *)
(* window.                                                                 *)

AbortAt(r) ==
  /\ r \in aborted => outcome[r] \in Refusals \cup {"refused"}
  /\ running[KeyOf[r]] = r /\ outcome[r] # None => r \in aborted
  /\ outcome[r] = "yes" => how[r] # None

AbortOK == how \in [Requests -> {"click", "window", None}] /\ aborted \subseteq Requests
           /\ \A r \in Requests : AbortAt(r)

\* Nothing said of a request has changed.
Untouched(q) ==
  /\ outcome'[q] = outcome[q] /\ how'[q] = how[q] /\ (q \in aborted' <=> q \in aborted)
  /\ running'[KeyOf[q]] = q => running[KeyOf[q]] = q

LEMMA AbortKept == ASSUME NEW q, AbortAt(q), Untouched(q) PROVE AbortAt(q)'
BY DEF AbortAt, Untouched

\* A step that touches one request only.
LEMMA AbortFrom ==
  ASSUME AbortOK, NEW r \in Requests, how' \in [Requests -> {"click", "window", None}], aborted' \subseteq Requests,
         \A q \in Requests : q # r => Untouched(q), AbortAt(r)'
  PROVE  AbortOK'
<1>1. ASSUME NEW q \in Requests PROVE AbortAt(q)'
  <2>1. AbortAt(q)
    BY DEF AbortOK
  <2> QED BY <2>1, AbortKept
<1> QED BY <1>1 DEF AbortOK

LEMMA AbortStill ==
  ASSUME AbortOK, UNCHANGED <<outcome, how, aborted, running>>
  PROVE  AbortOK'
<1>1. ASSUME NEW q \in Requests PROVE AbortAt(q)'
  BY AbortKept DEF AbortOK, Untouched
<1> QED BY <1>1 DEF AbortOK

LEMMA AbortInit == ASSUME Init PROVE AbortOK
<1>1. /\ how = [r \in Requests |-> None] /\ aborted = {} /\ outcome = [r \in Requests |-> None]
  BY DEF Init, TurnInit
<1>2. None # "yes"
  BY Constants DEF Outcomes
<1> QED BY <1>1, <1>2 DEF AbortOK, AbortAt

\* What is told to a caller, or decided as it comes or as it starts.
LEMMA Words ==
  /\ None \notin Refusals \cup {"refused", "yes", "no"} /\ Refusals \subseteq Outcomes
  /\ "yes" \notin Refusals \cup {"refused"} /\ "signed" \notin Refusals \cup Outcomes /\ "refused" \notin Outcomes
<1>1. /\ Refusals \subseteq Outcomes /\ "yes" \notin Refusals \cup {"refused"}
      /\ "signed" \notin Refusals \cup Outcomes /\ "refused" \notin Outcomes
  BY DEF Refusals, Outcomes
<1>2. {"yes", "no"} \subseteq Outcomes /\ "refused" \in Replies
  BY DEF Outcomes, Replies
<1> QED BY <1>1, <1>2, Constants

LEMMA AbortDecided ==
  ASSUME TurnsOK, AbortOK, NEW r \in Requests, NEW o \in Outcomes, outcome[r] = None,
         outcome' = [outcome EXCEPT ![r] = o],
         running[KeyOf[r]] # r, UNCHANGED <<running, aborted>>,
         NEW w \in {"click", "window", None}, how' = [how EXCEPT ![r] = w] \/ (how' = how /\ w = how[r]),
         o = "yes" => w # None
  PROVE  AbortOK'
<1>1. outcome \in [Requests -> Outcomes \cup Replies \cup {None}] /\ how \in [Requests -> {"click", "window", None}]
  BY DEF TurnsOK, TurnShape, AbortOK
<1>2. outcome'[r] = o /\ how'[r] = w /\ how' \in [Requests -> {"click", "window", None}]
  BY <1>1
<1>3. \A q \in Requests : q # r => Untouched(q)
  BY <1>1 DEF Untouched
<1>4. r \notin aborted
  BY Words DEF AbortOK, AbortAt
<1>5. AbortAt(r)'
  BY <1>2, <1>4 DEF AbortAt
<1>6. aborted' \subseteq Requests
  BY DEF AbortOK
<1> QED BY <1>2, <1>3, <1>5, <1>6, AbortFrom

LEMMA AbortOpened ==
  ASSUME TurnsOK, AbortOK, NEW r \in Requests, outcome[r] = None, UNCHANGED <<outcome, how, aborted>>,
         running' = [running EXCEPT ![KeyOf[r]] = r]
  PROVE  AbortOK'
<1>1. /\ \A q \in Requests : KeyOf[q] \in AskedKeys
      /\ DOMAIN running = AskedKeys
  BY Constants DEF TurnsOK, TurnShape
<1>2. \A q \in Requests : q # r => Untouched(q)
  BY <1>1 DEF Untouched
<1>3. AbortAt(r)'
  BY Words DEF AbortOK, AbortAt
<1>4. aborted' \subseteq Requests /\ how' \in [Requests -> {"click", "window", None}]
  BY DEF AbortOK
<1> QED BY <1>2, <1>3, <1>4, AbortFrom

LEMMA AbortSettled ==
  ASSUME TurnsOK, AbortOK, NEW r \in Requests, NEW answer \in {"yes", "no"}, WorkSettles(r, answer),
         NEW w \in {"click", "window", None}, how' = [how EXCEPT ![r] = w] \/ (how' = how /\ w = how[r]),
         answer = "yes" => w # None, how[r] # None => w # None
  PROVE  AbortOK'
<1>0. /\ outcome' = [outcome EXCEPT ![r] = IF outcome[r] = None THEN answer ELSE outcome[r]]
      /\ running' = [running EXCEPT ![KeyOf[r]] = None] /\ aborted' = aborted \ {r}
  BY DEF WorkSettles
<1>1. /\ outcome \in [Requests -> Outcomes \cup Replies \cup {None}] /\ how \in [Requests -> {"click", "window", None}]
      /\ DOMAIN running = AskedKeys /\ \A q \in Requests : KeyOf[q] \in AskedKeys /\ q # None
  BY Constants DEF TurnsOK, TurnShape, AbortOK
<1>2. how'[r] = w /\ how' \in [Requests -> {"click", "window", None}]
      /\ outcome'[r] = (IF outcome[r] = None THEN answer ELSE outcome[r])
      /\ running'[KeyOf[r]] = None
  BY <1>0, <1>1
<1>3. \A k \in AskedKeys : running'[k] = running[k] \/ running'[k] = None
  BY <1>0, <1>1
<1>4. \A q \in Requests : q # r => Untouched(q)
  BY <1>0, <1>1, <1>3 DEF Untouched
<1>5. AbortAt(r)'
  <2>1. r \notin aborted' /\ running'[KeyOf[r]] # r
    BY <1>0, <1>1, <1>2
  <2>2. outcome'[r] = "yes" => how'[r] # None
    BY <1>2 DEF AbortOK, AbortAt
  <2> QED BY <2>1, <2>2 DEF AbortAt
<1>6. aborted' \subseteq Requests
  BY <1>0 DEF AbortOK
<1> QED BY <1>2, <1>4, <1>5, <1>6, AbortFrom

LEMMA AbortReplied ==
  ASSUME TurnsOK, AbortOK, NEW r \in Requests, Reply(r)
  PROVE  AbortOK'
<1>0. PICK a \in {"signed", "refused"} :
        /\ outcome' = [outcome EXCEPT ![r] = a] /\ (a = "signed" => outcome[r] = "yes")
  BY DEF Reply, Deliver
<1>1. UNCHANGED <<running, aborted>> /\ how' = [how EXCEPT ![r] = None] /\ outcome[r] \in Outcomes
  BY DEF Reply, Deliver, Replied
<1>2. outcome \in [Requests -> Outcomes \cup Replies \cup {None}] /\ how \in [Requests -> {"click", "window", None}]
  BY DEF TurnsOK, TurnShape, AbortOK
<1>3. outcome'[r] = a /\ how' \in [Requests -> {"click", "window", None}] /\ aborted' \subseteq Requests
  BY <1>0, <1>1, <1>2 DEF AbortOK
<1>4. \A q \in Requests : q # r => Untouched(q)
  BY <1>0, <1>1, <1>2 DEF Untouched
<1>5. AbortAt(r)'
  BY <1>0, <1>1, <1>3, Words, Constants DEF AbortOK, AbortAt
<1> QED BY <1>3, <1>4, <1>5, AbortFrom

LEMMA AbortEnded ==
  ASSUME TurnsOK, AbortOK, NEW r \in Requests, NEW kind \in Refusals, EndTurn(r, kind), how' = how
  PROVE  AbortOK'
<1> DEFINE ws == slot[KeyOf[r]].waiters
<1>0. /\ running[KeyOf[r]] = r /\ aborted' = aborted \cup {r} /\ running' = running
  BY DEF EndTurn
<1>1. outcome' = [q \in Requests |-> CASE q = r -> kind
                                       [] q \in ws -> "orphaned"
                                       [] OTHER -> outcome[q]]
  BY DEF EndTurn
<1>2. /\ \A q \in ws : q \in Requests /\ q \in Members(queue[KeyOf[r]]) /\ q # r
  <2>1. slot[KeyOf[r]] = SlotOf(KeyOf[r]) /\ r \notin ws /\ KeyOf[r] \in AskedKeys
    BY <1>0, AtTurn, Constants
  <2> QED BY <2>1, AtKey
<1> HIDE DEF ws
<1>3. /\ outcome'[r] = kind
      /\ \A q \in ws : outcome'[q] = "orphaned"
      /\ \A q \in Requests : q # r /\ q \notin ws => outcome'[q] = outcome[q]
  <2>1. outcome'[r] = kind
    BY <1>1, <1>2
  <2>2. \A q \in ws : outcome'[q] = "orphaned"
    BY <1>1, <1>2
  <2>3. \A q \in Requests : q # r /\ q \notin ws => outcome'[q] = outcome[q]
    BY <1>1
  <2> QED BY <2>1, <2>2, <2>3
<1>4. AbortAt(r)'
  BY <1>0, <1>3, Words DEF AbortAt
<1>5. ASSUME NEW q \in ws PROVE AbortAt(q)'
  <2>1. q \in Requests /\ running[KeyOf[q]] # q
    <3>1. KeyOf[r] \in AskedKeys /\ q \in Members(queue[KeyOf[r]]) /\ q \in Requests
      BY <1>2, <1>5, Constants
    <3> QED BY <3>1, AtKey
  <2>2. outcome'[q] \in Refusals /\ outcome'[q] # "yes"
    BY <1>3 DEF Refusals
  <2> QED BY <1>0, <2>1, <2>2 DEF AbortAt
<1>6. ASSUME NEW q \in Requests, q # r, q \notin ws PROVE AbortAt(q)'
  <2>1. Untouched(q) /\ AbortAt(q)
    BY <1>0, <1>3, <1>6 DEF Untouched, AbortOK
  <2> QED BY <2>1, AbortKept
<1>7. aborted' \subseteq Requests /\ how' \in [Requests -> {"click", "window", None}]
  BY <1>0 DEF AbortOK
<1> QED BY <1>4, <1>5, <1>6, <1>7 DEF AbortOK

LEMMA AbortCleared ==
  ASSUME TurnsOK, AbortOK, ClearTurns, how' = how
  PROVE  AbortOK'
<1>0. /\ aborted' = aborted \cup {r \in Requests : running[KeyOf[r]] = r}
      /\ running' = [k \in AskedKeys |-> None]
      /\ outcome' = [r \in Requests |->
                       IF due[r] # None /\ outcome[r] = None THEN "gone" ELSE outcome[r]]
  BY DEF ClearTurns
<1>1. ASSUME NEW q \in Requests PROVE AbortAt(q)'
  <2>1. AbortAt(q) /\ KeyOf[q] \in AskedKeys /\ q # None
    BY Constants DEF AbortOK
  <2>2. outcome'[q] = (IF due[q] # None /\ outcome[q] = None THEN "gone" ELSE outcome[q])
        /\ running'[KeyOf[q]] # q /\ "gone" \in Refusals
    BY <1>0, <2>1 DEF Refusals
  <2>3. running[KeyOf[q]] = q => ~New(q)
    BY <2>1, AtTurn
  <2>4. q \in aborted' => outcome'[q] \in Refusals \cup {"refused"}
    BY <1>0, <2>1, <2>2, <2>3 DEF AbortAt, New
  <2>5. outcome'[q] = "yes" => how'[q] # None
    BY <2>1, <2>2 DEF AbortAt
  <2> QED BY <2>2, <2>4, <2>5 DEF AbortAt
<1>2. aborted' \subseteq Requests /\ how' \in [Requests -> {"click", "window", None}]
  BY <1>0 DEF AbortOK
<1> QED BY <1>1, <1>2 DEF AbortOK

LEMMA AbortNext == ASSUME TurnsOK, AbortOK, [Next]_vars PROVE AbortOK'
<1> DEFINE Same == UNCHANGED <<outcome, how, aborted, running>>
<1>0. /\ {"yes", "no", "too-late", "timed-out", "gone", "orphaned", "full"} \subseteq Outcomes
      /\ {"timed-out", "gone"} \subseteq Refusals /\ None # "window" /\ None # "click"
      /\ how \in [Requests -> {"click", "window", None}]
  BY Constants DEF Outcomes, Refusals, AbortOK
<1>1. ASSUME UNCHANGED vars PROVE Same
  BY <1>1 DEF vars, turnVars, ghostVars
<1>2. ASSUME NEW k \in Keys, Serve(k) \/ Unload(k) \/ AskEveryUse(k) PROVE Same
  BY <1>2 DEF Serve, Unload, AskEveryUse, RevokedGhosts, turnVars
<1>3. ASSUME Lock \/ Unlock \/ IdleElapses \/ SetAutoLock \/ Expire \/ Tick \/ SetClock PROVE Same
  BY <1>3 DEF Lock, Unlock, IdleElapses, SetAutoLock, Expire, Tick, SetClock, turnVars, ghostVars
<1>4. ASSUME DrainGhosts PROVE Same
  BY <1>4 DEF DrainGhosts, DrainGhost, ghostVars
<1>5. ASSUME NEW r \in Requests, New(r) PROVE outcome[r] = None /\ running[KeyOf[r]] # r
  BY <1>5, AtTurn DEF New
<1>6. ASSUME NEW r \in Requests, NEW c, ArriveCovered(r, c) PROVE AbortOK'
  <2>1. /\ New(r) /\ outcome' = [outcome EXCEPT ![r] = "yes"] /\ how' = [how EXCEPT ![r] = "window"]
        /\ UNCHANGED <<running, aborted>>
    BY <1>6 DEF ArriveCovered, Asks
  <2> QED BY <1>0, <1>5, <2>1, AbortDecided
<1>7. ASSUME NEW r \in Requests, NEW c, ArriveUncovered(r, c) PROVE AbortOK'
  <2>1. CASE Enqueue(r, mono)
    BY <1>7, <2>1, AbortStill DEF ArriveUncovered, Enqueue, ghostVars
  <2>2. CASE RefuseAtArrival(r, mono)
    <3>1. PICK o \in {"orphaned", "full"} : outcome' = [outcome EXCEPT ![r] = o]
      BY <2>2 DEF RefuseAtArrival
    <3>2. New(r) /\ how' = how /\ UNCHANGED <<running, aborted>>
      BY <1>7, <2>2 DEF ArriveUncovered, Asks, RefuseAtArrival, ghostVars
    <3>3. o \in Outcomes /\ o # "yes" /\ how[r] \in {"click", "window", None}
      BY <1>0
    <3> QED BY <1>5, <3>1, <3>2, <3>3, AbortDecided
  <2> QED BY <1>7, <2>1, <2>2 DEF ArriveUncovered
<1>8. ASSUME NEW r \in Requests, NEW a \in Outcomes, AnswerEarly(r, a),
             \/ how' = how /\ a # "yes"
             \/ how' = [how EXCEPT ![r] = "window"]
      PROVE  AbortOK'
  <2>1. /\ outcome[r] = None /\ outcome' = [outcome EXCEPT ![r] = a] /\ UNCHANGED <<running, aborted>>
        /\ running[KeyOf[r]] # r
    BY <1>8, Constants DEF AnswerEarly, Startable
  <2>2. CASE how' = how /\ a # "yes"
    <3>1. how[r] \in {"click", "window", None}
      BY <1>0
    <3> QED BY <1>8, <2>1, <2>2, <3>1, AbortDecided
  <2>3. CASE how' = [how EXCEPT ![r] = "window"]
    BY <1>0, <1>8, <2>1, <2>3, AbortDecided
  <2> QED BY <1>8, <2>2, <2>3
<1>9. ASSUME NEW r \in Requests, Microtask(r) PROVE AbortOK'
  <2>1. CASE RefusedStale(r)
    <3>1. AnswerEarly(r, "no") /\ how' = how
      BY <2>1 DEF RefusedStale, ghostVars
    <3> QED BY <1>0, <1>8, <3>1
  <2>2. CASE CoveredAfterWaiting(r)
    <3>1. AnswerEarly(r, "yes") /\ how' = [how EXCEPT ![r] = "window"]
      BY <2>2 DEF CoveredAfterWaiting
    <3> QED BY <1>0, <1>8, <3>1
  <2>3. CASE RefusedTooLate(r)
    <3>1. AnswerEarly(r, "too-late") /\ how' = how
      BY <2>3 DEF RefusedTooLate, ghostVars
    <3> QED BY <1>0, <1>8, <3>1
  <2>4. CASE ShowPrompt(r)
    <3>1. outcome[r] = None /\ UNCHANGED <<outcome, how, aborted>> /\ running' = [running EXCEPT ![KeyOf[r]] = r]
      BY <2>4 DEF ShowPrompt, OpenTurn
    <3> QED BY <3>1, AbortOpened
  <2>5. CASE Reply(r)
    BY <2>5, AbortReplied
  <2> QED BY <1>9, <2>1, <2>2, <2>3, <2>4, <2>5 DEF Microtask
<1>10. ASSUME NEW r \in Requests, NEW a, Settle(r, a) PROVE AbortOK'
  <2>1. PICK o \in {"yes", "no"}, w \in {"click", how[r]} :
          /\ WorkSettles(r, o) /\ how' = [how EXCEPT ![r] = w] /\ (o = "yes" => w = "click")
    BY <1>10 DEF Settle
  <2>2. w \in {"click", "window", None} /\ (how[r] # None => w # None) /\ (o = "yes" => w # None)
    BY <1>0, <2>1
  <2> QED BY <2>1, <2>2, AbortSettled
<1>11. ASSUME NEW r \in Requests, NEW a, Answer(r, a) \/ Pick(r, a) PROVE AbortOK'
  BY <1>10, <1>11 DEF Answer, Pick
<1>12. ASSUME NEW r \in Requests, AnswerLonger(r) PROVE AbortOK'
  <2>1. CASE Settle(r, "once")
    BY <1>10, <2>1
  <2>2. Same \/ Settle(r, "once")
    BY <1>12 DEF AnswerLonger, turnVars, ghostVars
  <2> QED BY <2>1, <2>2, AbortStill
<1>13. ASSUME NEW r \in Requests, StaleAnswer(r) PROVE AbortOK'
  <2>1. WorkSettles(r, "no") /\ how' = how /\ how[r] \in {"click", "window", None}
    BY <1>0, <1>13 DEF StaleAnswer, ghostVars
  <2> QED BY <2>1, AbortSettled
<1>14. ASSUME NEW r \in Requests, TimesOut(r) \/ HangUp(r) PROVE AbortOK'
  <2>1. how' = how /\ ((\E o \in {"timed-out", "gone"} : EndTurn(r, o)) \/ LeaveQueue(r))
    BY <1>14 DEF TimesOut, HangUp
  <2>2. ASSUME LeaveQueue(r) PROVE AbortOK'
    <3>1. outcome' = [outcome EXCEPT ![r] = "gone"] /\ UNCHANGED <<running, aborted>> /\ r \in SlotOf(KeyOf[r]).waiters
      BY <2>2 DEF LeaveQueue
    <3>2. outcome[r] = None /\ running[KeyOf[r]] # r
      <4>1. KeyOf[r] \in AskedKeys
        BY Constants
      <4> QED BY <3>1, <4>1, AtKey
    <3>3. how[r] \in {"click", "window", None} /\ "gone" \in Outcomes /\ "gone" # "yes"
      BY <1>0
    <3> QED BY <2>1, <3>1, <3>2, <3>3, AbortDecided
  <2> QED BY <1>0, <2>1, <2>2, AbortEnded
<1>15. ASSUME Dispose PROVE AbortOK'
  BY <1>15, AbortCleared DEF Dispose
<1>16. ASSUME Same PROVE AbortOK'
  BY <1>16, AbortStill
<1> QED BY <1>1, <1>2, <1>3, <1>4, <1>6, <1>7, <1>9, <1>11, <1>12, <1>13, <1>14, <1>15, <1>16 DEF Next

\* A signature is made by the object that was asked about, allowed by a click
\* or a window, and never for a turn that was told it is over
\* (sshAgentServer.confirmAndSign).
THEOREM SignedAsked == Spec => SignedAsAsked
<1> DEFINE Asked == \A r \in Requests :
                      outcome[r] # "signed" /\ outcome'[r] = "signed" =>
                        how[r] # None /\ r \notin aborted /\ gen[KeyOf[r]] = askedGen[r]
<1>1. Init => AbortOK
  BY AbortInit
<1>2. TurnsOK /\ AbortOK /\ [Next]_vars => AbortOK'
  BY AbortNext
<1>3. ASSUME TurnsOK, AbortOK, [Next]_vars PROVE Asked
  <2> DEFINE Quiet == \A r \in Requests : outcome'[r] = "signed" => outcome[r] = "signed"
             One(r) == \E o \in Outcomes : outcome' = [outcome EXCEPT ![r] = o]
  <2>0. /\ {"yes", "no", "too-late", "timed-out", "gone", "orphaned", "full"} \subseteq Outcomes
        /\ "signed" \notin Outcomes
        /\ outcome \in [Requests -> Outcomes \cup Replies \cup {None}]
    <3>1. {"yes", "no", "too-late", "timed-out", "gone", "orphaned", "full"} \subseteq Outcomes
      BY DEF Outcomes, Refusals
    <3>2. outcome \in [Requests -> Outcomes \cup Replies \cup {None}]
      BY <1>3 DEF TurnsOK, TurnShape
    <3> QED BY <3>1, <3>2, Words
  <2>1. CASE UNCHANGED outcome
    BY <2>1
  <2>2. ASSUME NEW r \in Requests, One(r) PROVE Quiet
    BY <2>0, <2>2
  <2>3. ASSUME NEW r \in Requests, Reply(r) PROVE Asked
    <3>1. PICK a \in {"signed", "refused"} :
            /\ outcome' = [outcome EXCEPT ![r] = a]
            /\ (a = "signed" => outcome[r] = "yes" /\ gen[KeyOf[r]] = askedGen[r])
      BY <2>3 DEF Reply, Deliver
    <3>2. \A q \in Requests : q # r => outcome'[q] = outcome[q]
      BY <2>0, <3>1
    <3>3. outcome'[r] = "signed" => outcome[r] = "yes" /\ gen[KeyOf[r]] = askedGen[r]
      BY <2>0, <3>1
    <3>4. outcome[r] = "yes" => how[r] # None /\ r \notin aborted
      <4>1. AbortAt(r)
        BY <1>3 DEF AbortOK
      <4> QED BY <4>1, Words DEF AbortAt
    <3> QED BY <3>2, <3>3, <3>4
  <2>4. ASSUME NEW r \in Requests, NEW o \in Outcomes, WorkSettles(r, o) PROVE Quiet
    BY <2>0, <2>4 DEF WorkSettles
  <2>5. ASSUME NEW r \in Requests, NEW o \in Outcomes, EndTurn(r, o) PROVE Quiet
    <3>1. \A q \in Requests : outcome'[q] \in {o, "orphaned", outcome[q]}
      BY <2>5 DEF EndTurn
    <3> QED BY <2>0, <3>1
  <2>6. ASSUME NEW r \in Requests, LeaveQueue(r) PROVE Quiet
    BY <2>0, <2>2, <2>6 DEF LeaveQueue
  <2>7. ASSUME NEW r \in Requests, NEW c, ArriveCovered(r, c) \/ ArriveUncovered(r, c) PROVE Quiet
    <3>1. One(r) \/ UNCHANGED outcome
      BY <2>0, <2>7 DEF ArriveCovered, ArriveUncovered, RefuseAtArrival, Enqueue
    <3> QED BY <2>2, <3>1
  <2>8. ASSUME NEW r \in Requests, Microtask(r) PROVE Asked
    <3>1. One(r) \/ UNCHANGED outcome \/ Reply(r)
      BY <2>0, <2>8 DEF Microtask, RefusedStale, CoveredAfterWaiting, RefusedTooLate, AnswerEarly,
                        ShowPrompt, OpenTurn
    <3> HIDE DEF One
    <3> QED BY <2>2, <2>3, <3>1
  <2>9. ASSUME NEW r \in Requests, NEW a, Settle(r, a) PROVE Quiet
    <3>1. \E o \in {"yes", "no"} : WorkSettles(r, o)
      BY <2>9 DEF Settle
    <3> QED BY <2>0, <2>4, <3>1
  <2>10. ASSUME NEW r \in Requests, NEW a, Answer(r, a) \/ Pick(r, a) PROVE Quiet
    BY <2>9, <2>10 DEF Answer, Pick
  <2>11. ASSUME NEW r \in Requests, AnswerLonger(r) PROVE Quiet
    <3>1. UNCHANGED outcome \/ Settle(r, "once")
      BY <2>11 DEF AnswerLonger, turnVars
    <3> QED BY <2>9, <3>1
  <2>12. ASSUME NEW r \in Requests, StaleAnswer(r) \/ TimesOut(r) \/ HangUp(r) PROVE Quiet
    <3>1. WorkSettles(r, "no") \/ EndTurn(r, "timed-out") \/ EndTurn(r, "gone") \/ LeaveQueue(r)
      BY <2>12 DEF StaleAnswer, TimesOut, HangUp
    <3> HIDE DEF Quiet
    <3> QED BY <2>0, <2>4, <2>5, <2>6, <3>1
  <2>13. ASSUME Dispose PROVE Quiet
    BY <2>13 DEF Dispose, ClearTurns
  <2>14. ASSUME Lock \/ Unlock \/ IdleElapses \/ SetAutoLock \/ Expire \/ Tick \/ SetClock \/ DrainGhosts \/ UNCHANGED vars
         PROVE  UNCHANGED outcome
    BY <2>14 DEF Lock, Unlock, IdleElapses, SetAutoLock, Expire, Tick, SetClock, DrainGhosts, DrainGhost, vars, turnVars
  <2>15. ASSUME NEW k \in Keys, Serve(k) \/ Unload(k) \/ AskEveryUse(k) PROVE UNCHANGED outcome
    BY <2>15 DEF Serve, Unload, AskEveryUse, turnVars
  <2>16. Quiet => Asked
    OBVIOUS
  <2> HIDE DEF Quiet, Asked
  <2> QED BY <1>3, <2>1, <2>7, <2>8, <2>10, <2>11, <2>12, <2>13, <2>14, <2>15, <2>16 DEF Next
<1>4. TurnsOK /\ AbortOK /\ [Next]_vars =>
        [\A r \in Requests :
           outcome[r] # "signed" /\ outcome'[r] = "signed" =>
             /\ how[r] # None /\ r \notin aborted
             /\ gen[KeyOf[r]] = askedGen[r]]_vars
  BY <1>3
<1> QED BY <1>1, <1>2, <1>4, TurnsInvariant, PTL DEF Spec, SignedAsAsked

-----------------------------------------------------------------------------
(* The book of windows, operator by operator.                              *)

Windows == [gen : Nat, at : Int, mono : Nat, until : Int]
Opens == [Keys -> [WindowScope -> Windows \cup {NoWindow}]]
Books == [lockEpoch : Nat, fence : [Keys -> Nat], open : Opens]

\* A window of b was in a.
FewerWindows(a, b) ==
  \A k \in Keys, s \in WindowScope : b.open[k][s] = NoWindow \/ b.open[k][s] = a.open[k][s]

LEMMA NoWindowsIs ==
  /\ NoWindows \in Books /\ NoWindows.lockEpoch = 0 /\ NoWindows.open \in Opens
  /\ \A k \in Keys : NoWindows.fence[k] = 0
  /\ \A k \in Keys, s \in WindowScope : NoWindows.open[k][s] = NoWindow
<1>1. [k \in Keys |-> 0] \in [Keys -> Nat]
  OBVIOUS
<1>2. [k \in Keys |-> [s \in WindowScope |-> NoWindow]] \in Opens
  BY DEF Opens
<1> QED BY <1>1, <1>2 DEF NoWindows, Books

LEMMA BookFields ==
  ASSUME NEW b \in Books
  PROVE  /\ b.lockEpoch \in Nat /\ b.fence \in [Keys -> Nat] /\ b.open \in Opens
         /\ \A k \in Keys : b.fence[k] \in Nat
         /\ \A k \in Keys : b.open[k] \in [WindowScope -> Windows \cup {NoWindow}]
         /\ \A k \in Keys, s \in WindowScope : b.open[k][s] \in Windows \cup {NoWindow}
BY DEF Books, Opens

\* A book from its fields.
LEMMA OpenReplaced ==
  ASSUME NEW b \in Books, NEW o \in Opens, NEW c, c = [b EXCEPT !.open = o]
  PROVE  c \in Books /\ c.open = o /\ c.fence = b.fence /\ c.lockEpoch = b.lockEpoch
BY DEF Books

LEMMA EndWindowsIs ==
  ASSUME NEW b \in Books, NEW k \in Keys, NEW c, c = EndWindows(b, k)
  PROVE  /\ c \in Books /\ c.lockEpoch = b.lockEpoch /\ c.fence[k] = b.fence[k] + 1
         /\ \A j \in Keys : j # k => c.fence[j] = b.fence[j]
         /\ FewerWindows(b, c)
         /\ \A s \in WindowScope : c.open[k][s] = NoWindow
<1> DEFINE f == [b.fence EXCEPT ![k] = b.fence[k] + 1]
           one == [b EXCEPT !.fence = f]
           none == [s \in WindowScope |-> NoWindow]
           o == [b.open EXCEPT ![k] = none]
<1>1. b.fence \in [Keys -> Nat] /\ b.open \in Opens /\ b.fence[k] + 1 \in Nat
  BY BookFields
<1>2. f \in [Keys -> Nat] /\ f[k] = b.fence[k] + 1 /\ \A j \in Keys : j # k => f[j] = b.fence[j]
  BY <1>1
<1>3. none \in [WindowScope -> Windows \cup {NoWindow}] /\ \A s \in WindowScope : none[s] = NoWindow
  OBVIOUS
<1>4. c = [one EXCEPT !.open = [one.open EXCEPT ![k] = none]]
  BY DEF EndWindows
<1> HIDE DEF f, none
<1>5. one \in Books /\ one.fence = f /\ one.open = b.open /\ one.lockEpoch = b.lockEpoch
  BY <1>2 DEF Books
<1> HIDE DEF one
<1>6. o \in Opens /\ o[k] = none /\ \A j \in Keys : j # k => o[j] = b.open[j]
  BY <1>1, <1>3 DEF Opens
<1>7. c = [one EXCEPT !.open = o]
  BY <1>4, <1>5
<1> HIDE DEF o
<1>8. c \in Books /\ c.open = o /\ c.fence = one.fence /\ c.lockEpoch = one.lockEpoch
  BY <1>5, <1>6, <1>7, OpenReplaced
<1>9. FewerWindows(b, c)
  BY <1>3, <1>6, <1>8 DEF FewerWindows
<1>10. c.fence[k] = b.fence[k] + 1 /\ \A j \in Keys : j # k => c.fence[j] = b.fence[j]
  BY <1>2, <1>5, <1>8
<1>11. \A s \in WindowScope : c.open[k][s] = NoWindow
  BY <1>3, <1>6, <1>8
<1> QED BY <1>5, <1>8, <1>9, <1>10, <1>11

LEMMA EndAllIs ==
  ASSUME NEW b \in Books, NEW c, c = EndAllWindows(b)
  PROVE  /\ c \in Books /\ c.lockEpoch = b.lockEpoch + 1 /\ c.fence = b.fence
         /\ \A k \in Keys, s \in WindowScope : c.open[k][s] = NoWindow
<1> DEFINE one == [b EXCEPT !.lockEpoch = b.lockEpoch + 1]
<1>1. one \in Books /\ one.lockEpoch = b.lockEpoch + 1 /\ one.fence = b.fence
  BY DEF Books
<1>2. c = [one EXCEPT !.open = NoWindows.open]
  BY DEF EndAllWindows
<1> HIDE DEF one
<1>3. c \in Books /\ c.open = NoWindows.open /\ c.fence = one.fence /\ c.lockEpoch = one.lockEpoch
  BY <1>1, <1>2, NoWindowsIs, OpenReplaced
<1> QED BY <1>1, <1>3, NoWindowsIs

LEMMA EndLoginIs ==
  ASSUME NEW b \in Books, NEW c, c = EndLoginWindows(b)
  PROVE  /\ c \in Books /\ c.lockEpoch = b.lockEpoch /\ c.fence = b.fence /\ FewerWindows(b, c)
         /\ \A k \in Keys : c.open[k]["login"] = NoWindow /\ c.open[k]["all"] = b.open[k]["all"]
<1> DEFINE o == [k \in Keys |-> [b.open[k] EXCEPT !["login"] = NoWindow]]
<1>1. \A k \in Keys : b.open[k] \in [WindowScope -> Windows \cup {NoWindow}]
  BY BookFields
<1>2. "login" \in WindowScope /\ "all" \in WindowScope /\ \A s \in WindowScope : s = "login" \/ s = "all"
  BY DEF WindowScope
<1>3. ASSUME NEW k \in Keys
      PROVE  /\ o[k] \in [WindowScope -> Windows \cup {NoWindow}]
             /\ o[k]["login"] = NoWindow /\ o[k]["all"] = b.open[k]["all"]
  BY <1>1, <1>2
<1>4. o \in Opens
  BY <1>3 DEF Opens
<1>5. c = [b EXCEPT !.open = o]
  BY DEF EndLoginWindows
<1> HIDE DEF o
<1>6. c \in Books /\ c.open = o /\ c.fence = b.fence /\ c.lockEpoch = b.lockEpoch
  BY <1>4, <1>5, OpenReplaced
<1>7. FewerWindows(b, c)
  BY <1>2, <1>3, <1>6 DEF FewerWindows
<1> QED BY <1>3, <1>6, <1>7

LEMMA WithoutExpiredIs ==
  ASSUME NEW b \in Books, NEW now, NEW clock, NEW c, c = WithoutExpired(b, now, clock)
  PROVE  c \in Books /\ c.lockEpoch = b.lockEpoch /\ c.fence = b.fence /\ FewerWindows(b, c)
<1> DEFINE v(k, s) == IF b.open[k][s] # NoWindow /\ ClocksPermit(b.open[k][s], now, clock)
                      THEN b.open[k][s] ELSE NoWindow
           o == [k \in Keys |-> [s \in WindowScope |-> v(k, s)]]
<1>1. ASSUME NEW k \in Keys, NEW s \in WindowScope
      PROVE  v(k, s) \in Windows \cup {NoWindow} /\ v(k, s) \in {NoWindow, b.open[k][s]}
  BY BookFields
<1>2. c = [b EXCEPT !.open = o]
  BY DEF WithoutExpired
<1> HIDE DEF v
<1>3. o \in Opens
  BY <1>1 DEF Opens
<1>4. \A k \in Keys, s \in WindowScope : o[k][s] \in {NoWindow, b.open[k][s]}
  BY <1>1
<1> HIDE DEF o
<1>5. c \in Books /\ c.open = o /\ c.fence = b.fence /\ c.lockEpoch = b.lockEpoch
  BY <1>2, <1>3, OpenReplaced
<1> QED BY <1>4, <1>5 DEF FewerWindows

\* A granted window starts on both clocks now, reaches no further than its
\* scope may, and only opens if the answer crossed nothing; every other
\* window stays.
Granted(b, c, t, scope, clock) ==
  /\ c \in Books /\ c.lockEpoch = b.lockEpoch /\ c.fence = b.fence
  /\ \/ c = b
     \/ /\ b.fence[t.key] = t.fence /\ b.lockEpoch = t.epoch
        /\ \A k \in Keys, s \in WindowScope :
             k # t.key \/ s # scope => c.open[k][s] = b.open[k][s]
        /\ c.open[t.key][scope] \in Windows /\ c.open[t.key][scope].mono = clock
        /\ c.open[t.key][scope].until - c.open[t.key][scope].at <= MaxWindow(scope)

LEMMA GrantIs ==
  ASSUME NEW b \in Books, NEW t, t.key \in Keys, NEW scope \in WindowScope, NEW g \in Nat,
         NEW now \in Int, NEW clock \in Nat, NEW length \in Nat,
         NEW c, c = GrantWindow(b, t, scope, g, now, clock, length)
  PROVE  Granted(b, c, t, scope, clock)
<1> DEFINE reach == IF length < MaxWindow(scope) THEN length ELSE MaxWindow(scope)
           until == now + reach
           w == [gen |-> t.gen, at |-> now, mono |-> clock, until |-> until]
           row == [b.open[t.key] EXCEPT ![scope] = w]
           o == [b.open EXCEPT ![t.key] = row]
<1>1. CASE c = b
  BY <1>1 DEF Granted
<1>2. CASE c # b
  <2>1. Crossing(b, t, g) = "none" /\ c = Placed(b, t, scope, now, clock, length)
    BY <1>2 DEF GrantWindow
  <2>2. g = t.gen /\ b.fence[t.key] = t.fence /\ b.lockEpoch = t.epoch
    BY <2>1 DEF Crossing
  <2>3. c = [b EXCEPT !.open = o]
    BY <1>2, <2>1 DEF Placed
  <2>4. MaxWindow(scope) \in Nat
    BY WindowLengths DEF MaxWindow
  <2>5. reach \in Nat /\ reach <= MaxWindow(scope)
    BY <2>4
  <2> HIDE DEF reach
  <2>6. until \in Int /\ until - now <= MaxWindow(scope)
    BY <2>4, <2>5
  <2> HIDE DEF until
  <2>7. w \in Windows /\ w.mono = clock /\ w.until - w.at <= MaxWindow(scope)
    BY <2>2, <2>6 DEF Windows
  <2> HIDE DEF w
  <2>8. b.open \in Opens /\ b.open[t.key] \in [WindowScope -> Windows \cup {NoWindow}]
    BY BookFields
  <2>9. row \in [WindowScope -> Windows \cup {NoWindow}] /\ row[scope] = w
        /\ \A s \in WindowScope : s # scope => row[s] = b.open[t.key][s]
    BY <2>7, <2>8
  <2> HIDE DEF row
  <2>10. o \in Opens /\ o[t.key] = row /\ \A k \in Keys : k # t.key => o[k] = b.open[k]
    BY <2>8, <2>9 DEF Opens
  <2> HIDE DEF o
  <2>11. c \in Books /\ c.open = o /\ c.fence = b.fence /\ c.lockEpoch = b.lockEpoch
    BY <2>3, <2>10, OpenReplaced
  <2> QED BY <2>2, <2>7, <2>9, <2>10, <2>11 DEF Granted
<1> QED BY <1>1, <1>2

-----------------------------------------------------------------------------
(* The counters and the shape of the book.                                 *)

CountsOK ==
  /\ book \in Books /\ gen \in [Keys -> Nat] /\ loads \in Nat /\ events \in Nat
  /\ \A k \in Keys : gen[k] <= loads
  /\ loads <= events /\ book.lockEpoch <= events /\ events <= MaxEvents

\* A load, a removal or the row button.
Revokes(k) ==
  /\ Disturb /\ book' = EndWindows(book, k) /\ RevokedGhosts(k) /\ mono' = mono
  /\ \/ loads' = loads + 1 /\ gen' = [gen EXCEPT ![k] = loads + 1]
     \/ loads' = loads /\ gen' = [gen EXCEPT ![k] = 0]
     \/ UNCHANGED <<loads, gen>>

\* The person's answer to the dialog of a turn that is still on.
Answered(r, a) ==
  /\ Event /\ screen[r] # "none" /\ r \notin aborted
  /\ a \in ModalAnswers \cup ListAnswers /\ Settle(r, a)

LEMMA BookSteps ==
  ASSUME [Next]_vars
  PROVE  \/ /\ UNCHANGED <<book, gen, loads, grants>> /\ (events' = events \/ Disturb)
            /\ (mono' = mono \/ mono' = mono + 1)
         \/ \E k \in Keys : Revokes(k)
         \/ Lock \/ SetAutoLock \/ Expire \/ Dispose
         \/ \E r \in Requests : \E a : Answered(r, a)
<1> DEFINE Same == /\ UNCHANGED <<book, gen, loads, grants>> /\ (events' = events \/ Disturb)
                   /\ (mono' = mono \/ mono' = mono + 1)
<1>1. ASSUME UNCHANGED vars PROVE Same
  BY <1>1 DEF vars, bookVars, ghostVars, clockVars
<1>2. ASSUME NEW k \in Keys, Serve(k) \/ Unload(k) \/ AskEveryUse(k) PROVE Revokes(k)
  BY <1>2 DEF Serve, Unload, AskEveryUse, Revokes, clockVars
<1>3. ASSUME Unlock \/ IdleElapses \/ Tick \/ SetClock PROVE Same
  BY <1>3 DEF Unlock, IdleElapses, Tick, SetClock, bookVars, ghostVars, clockVars
<1>4. ASSUME NEW r \in Requests, NEW c, ArriveCovered(r, c) \/ ArriveUncovered(r, c) PROVE Same
  BY <1>4 DEF ArriveCovered, ArriveUncovered, bookVars, ghostVars, clockVars
<1>5. ASSUME NEW r \in Requests, Microtask(r) PROVE Same
  BY <1>5 DEF Microtask, RefusedStale, CoveredAfterWaiting, RefusedTooLate, ShowPrompt, Reply, Replied,
              bookVars, ghostVars, clockVars
<1>6. ASSUME DrainGhosts PROVE Same
  BY <1>6 DEF DrainGhosts, bookVars, ghostVars, clockVars
<1>7. ASSUME NEW r \in Requests, NEW a \in ModalAnswers, Answer(r, a) PROVE Answered(r, a)
  BY <1>7 DEF Answer, Answered
<1>8. ASSUME NEW r \in Requests, NEW a \in ListAnswers, Pick(r, a) PROVE \E b : Answered(r, b)
  <2>1. PICK b \in {"once", a} : Settle(r, b)
    BY <1>8 DEF Pick
  <2>2. b \in ModalAnswers \cup ListAnswers
    BY <2>1 DEF ModalAnswers
  <2>3. Event /\ screen[r] # "none" /\ r \notin aborted
    BY <1>8 DEF Pick
  <2> QED BY <2>1, <2>2, <2>3 DEF Answered
<1>9. ASSUME NEW r \in Requests, AnswerLonger(r) PROVE Same \/ Answered(r, "once")
  BY <1>9 DEF AnswerLonger, Answered, ModalAnswers, bookVars, ghostVars, clockVars
<1>10. ASSUME NEW r \in Requests, StaleAnswer(r) \/ TimesOut(r) \/ HangUp(r) PROVE Same
  BY <1>10 DEF StaleAnswer, TimesOut, HangUp, bookVars, ghostVars, clockVars
<1> HIDE DEF Same
<1> QED BY <1>1, <1>2, <1>3, <1>4, <1>5, <1>6, <1>7, <1>8, <1>9, <1>10 DEF Next, Same

LEMMA DecisionIs ==
  ASSUME NEW a \in ModalAnswers \cup ListAnswers
  PROVE  DecideSigning(a).scope \in WindowScope \cup {"none"}
BY DEF DecideSigning, ModalAnswers, ListAnswers, WindowScope

\* What an answer does to the book and to the grants.
LEMMA AnsweredBook ==
  ASSUME NEW r \in Requests, NEW a, Answered(r, a)
  PROVE  /\ UNCHANGED <<gen, loads, events, mono>>
         /\ \/ UNCHANGED <<book, grants>>
            \/ \E scope \in WindowScope, length \in Nat :
                 /\ book' = GrantWindow(book, ticket[r], scope, gen[KeyOf[r]], wall, mono, length)
                 /\ grants' = IF r \in clean THEN [grants EXCEPT ![KeyOf[r]][scope] = mono] ELSE grants
<1>1. Settle(r, a) /\ DecideSigning(a).scope \in WindowScope \cup {"none"}
  BY DecisionIs DEF Answered
<1>2. PICK d \in {DecideSigning(a)}, length \in (IF a = "pick" THEN AllLen..LoginLen ELSE {AllLen}) :
        /\ book' = IF d.scope = "none" THEN book
                   ELSE GrantWindow(book, ticket[r], d.scope, gen[KeyOf[r]], wall, mono, length)
        /\ grants' = IF d.scope # "none" /\ r \in clean
                     THEN [grants EXCEPT ![KeyOf[r]][d.scope] = mono] ELSE grants
        /\ UNCHANGED <<gen, loads, clockVars, events>>
  BY <1>1 DEF Settle
<1>3. length \in Nat
  BY <1>2, WindowLengths
<1>4. d.scope = "none" \/ d.scope \in WindowScope
  BY <1>1, <1>2
<1> QED BY <1>2, <1>3, <1>4 DEF clockVars

LEMMA CountsInit == ASSUME Init PROVE CountsOK
BY NoWindowsIs, AgentAssumption DEF Init, CountsOK

LEMMA Disturbed ==
  ASSUME CountsOK, Disturb
  PROVE  events' = events + 1 /\ events' \in Nat /\ events' <= MaxEvents
BY AgentAssumption DEF CountsOK, Disturb

-----------------------------------------------------------------------------
(* What a prompt knew when it was shown never runs ahead of the book, and a *)
(* prompt shown before a revocation of its key shows it: the turn is over,  *)
(* or a fence or the lock epoch has moved since.                            *)

TicketAt(r) ==
  /\ ticket[r].key = KeyOf[r] /\ ticket[r].fence \in Nat /\ ticket[r].epoch \in Nat
  /\ ticket[r].fence <= book.fence[KeyOf[r]] /\ ticket[r].epoch <= book.lockEpoch
  /\ \/ r \in clean \/ r \in aborted
     \/ ticket[r].fence < book.fence[KeyOf[r]] \/ ticket[r].epoch < book.lockEpoch

TicketOK ==
  /\ DOMAIN ticket = Requests /\ clean \subseteq Requests
  /\ disposed \/ \A r \in Requests : screen[r] # "none" => TicketAt(r)

\* A step that lets no prompt forget.
Passes(q) ==
  /\ screen'[q] # "none" => screen[q] # "none" /\ ticket'[q] = ticket[q] /\ (q \in aborted => q \in aborted')
  /\ book.fence[KeyOf[q]] <= book'.fence[KeyOf[q]] /\ book.lockEpoch <= book'.lockEpoch
  /\ q \in clean => \/ screen'[q] = "none" \/ q \in clean' \/ q \in aborted'
                    \/ book.fence[KeyOf[q]] < book'.fence[KeyOf[q]] \/ book.lockEpoch < book'.lockEpoch

LEMMA TicketKept ==
  ASSUME book \in Books, book' \in Books, NEW q \in Requests, Passes(q), screen'[q] # "none",
         screen[q] # "none" => TicketAt(q)
  PROVE  TicketAt(q)'
<1>1. KeyOf[q] \in Keys
  BY Constants
<1>2. /\ book.fence[KeyOf[q]] \in Nat /\ book'.fence[KeyOf[q]] \in Nat
      /\ book.lockEpoch \in Nat /\ book'.lockEpoch \in Nat
  BY <1>1, BookFields
<1>3. TicketAt(q) /\ ticket'[q] = ticket[q]
  BY DEF Passes
<1> QED BY <1>2, <1>3 DEF TicketAt, Passes

LEMMA TicketsFrom ==
  ASSUME TicketOK, book \in Books, book' \in Books, DOMAIN ticket' = Requests, clean' \subseteq Requests,
         disposed' = disposed, \A q \in Requests : Passes(q)
  PROVE  TicketOK'
<1>1. ASSUME ~disposed, NEW q \in Requests, screen'[q] # "none" PROVE TicketAt(q)'
  BY <1>1, TicketKept DEF TicketOK
<1> QED BY <1>1 DEF TicketOK

\* The book as the answer of a turn that is on, or anything else, leaves it.
LEMMA AnsweredIs ==
  ASSUME CountsOK, ClocksOK, TicketOK, NEW r \in Requests, NEW a, Answered(r, a)
  PROVE  /\ book' \in Books /\ book'.lockEpoch = book.lockEpoch /\ book'.fence = book.fence
         /\ ticket[r].key = KeyOf[r]
         /\ \/ UNCHANGED <<book, grants>>
            \/ \E scope \in WindowScope :
                 /\ grants' = IF r \in clean THEN [grants EXCEPT ![KeyOf[r]][scope] = mono] ELSE grants
                 /\ Granted(book, book', ticket[r], scope, mono)
<1>1. book \in Books /\ KeyOf[r] \in Keys /\ gen[KeyOf[r]] \in Nat /\ wall \in Int /\ mono \in Nat
  BY Constants DEF CountsOK, ClocksOK
<1>2. ticket[r].key = KeyOf[r]
  BY DEF Answered, Event, TicketOK, TicketAt
<1>3. CASE UNCHANGED <<book, grants>>
  BY <1>1, <1>2, <1>3
<1>4. ASSUME NEW scope \in WindowScope, NEW length \in Nat,
             book' = GrantWindow(book, ticket[r], scope, gen[KeyOf[r]], wall, mono, length),
             grants' = IF r \in clean THEN [grants EXCEPT ![KeyOf[r]][scope] = mono] ELSE grants
      PROVE  /\ Granted(book, book', ticket[r], scope, mono)
             /\ book' \in Books /\ book'.lockEpoch = book.lockEpoch /\ book'.fence = book.fence
  <2> DEFINE t == ticket[r]
             g == gen[KeyOf[r]]
  <2>1. t.key \in Keys /\ g \in Nat /\ book' = GrantWindow(book, t, scope, g, wall, mono, length)
    BY <1>1, <1>2, <1>4
  <2> HIDE DEF t, g
  <2>2. Granted(book, book', t, scope, mono)
    BY <1>1, <2>1, GrantIs
  <2>3. book' \in Books /\ book'.lockEpoch = book.lockEpoch /\ book'.fence = book.fence
    BY <2>2 DEF Granted
  <2> QED BY <2>2, <2>3 DEF t
<1> QED BY <1>2, <1>3, <1>4, AnsweredBook

LEMMA BookShapeNext ==
  ASSUME CountsOK, ClocksOK, TicketOK, [Next]_vars
  PROVE  /\ book' \in Books
         /\ book'.lockEpoch = book.lockEpoch \/ (Disturb /\ book'.lockEpoch = book.lockEpoch + 1) \/ book'.lockEpoch = 0
<1>0. book \in Books
  BY DEF CountsOK
<1>1. CASE book' = book
  BY <1>0, <1>1
<1>2. ASSUME NEW k \in Keys, Revokes(k)
      PROVE  book' \in Books /\ book'.lockEpoch = book.lockEpoch
  BY <1>0, <1>2, EndWindowsIs DEF Revokes
<1>3. ASSUME Lock PROVE book' \in Books /\ Disturb /\ book'.lockEpoch = book.lockEpoch + 1
  BY <1>0, <1>3, EndAllIs DEF Lock
<1>4. ASSUME SetAutoLock PROVE book' \in Books /\ book'.lockEpoch = book.lockEpoch
  <2>1. book' = book \/ book' = EndLoginWindows(book)
    BY <1>4 DEF SetAutoLock
  <2> QED BY <1>0, <2>1, EndLoginIs
<1>5. ASSUME Expire PROVE book' \in Books /\ book'.lockEpoch = book.lockEpoch
  BY <1>0, <1>5, WithoutExpiredIs DEF Expire
<1>6. ASSUME Dispose PROVE book' \in Books /\ book'.lockEpoch = 0
  BY <1>6, NoWindowsIs DEF Dispose
<1>7. ASSUME NEW r \in Requests, NEW a, Answered(r, a) PROVE book' \in Books /\ book'.lockEpoch = book.lockEpoch
  BY <1>7, AnsweredIs
<1> QED BY <1>1, <1>2, <1>3, <1>4, <1>5, <1>6, <1>7, BookSteps

LEMMA CountsNext ==
  ASSUME CountsOK, ClocksOK, TicketOK, [Next]_vars
  PROVE  CountsOK'
<1>0. /\ book' \in Books /\ gen \in [Keys -> Nat] /\ loads \in Nat /\ events \in Nat /\ book.lockEpoch \in Nat
      /\ \A k \in Keys : gen[k] <= loads
      /\ loads <= events /\ book.lockEpoch <= events /\ events <= MaxEvents /\ MaxEvents \in Nat
      /\ \A k \in Keys : gen[k] \in Nat
  <2>1. book' \in Books
    BY BookShapeNext
  <2>2. book.lockEpoch \in Nat
    BY BookFields DEF CountsOK
  <2> QED BY <2>1, <2>2, AgentAssumption DEF CountsOK
<1>1. /\ events' \in Nat /\ events' <= MaxEvents /\ events' >= events
      /\ \/ UNCHANGED <<gen, loads>>
         \/ gen' = [k \in Keys |-> 0] /\ loads' = loads
         \/ \E k \in Keys : loads' = loads /\ gen' = [gen EXCEPT ![k] = 0]
         \/ \E k \in Keys : loads' = loads + 1 /\ gen' = [gen EXCEPT ![k] = loads + 1] /\ events' = events + 1
  <2>1. CASE UNCHANGED <<gen, loads>> /\ (events' = events \/ Disturb)
    BY <1>0, <2>1, Disturbed
  <2>2. ASSUME NEW k \in Keys, Revokes(k)
        PROVE  /\ events' = events + 1 /\ events' \in Nat /\ events' <= MaxEvents
               /\ \/ UNCHANGED <<gen, loads>>
                  \/ loads' = loads /\ gen' = [gen EXCEPT ![k] = 0]
                  \/ loads' = loads + 1 /\ gen' = [gen EXCEPT ![k] = loads + 1] /\ events' = events + 1
    BY <2>2, Disturbed DEF Revokes
  <2>3. ASSUME Lock \/ SetAutoLock \/ Expire PROVE UNCHANGED <<gen, loads>> /\ (events' = events \/ Disturb)
    BY <2>3 DEF Lock, SetAutoLock, Expire
  <2>4. ASSUME NEW r \in Requests, NEW a, Answered(r, a) PROVE UNCHANGED <<gen, loads, events>>
    BY <2>4, AnsweredBook
  <2>5. ASSUME Dispose PROVE gen' = [k \in Keys |-> 0] /\ loads' = loads /\ events' = events
    BY <2>5 DEF Dispose
  <2>6. CASE \E k \in Keys : Revokes(k)
    BY <1>0, <2>2, <2>6
  <2>7. CASE Dispose
    BY <1>0, <2>5, <2>7
  <2> QED BY <2>1, <2>3, <2>4, <2>6, <2>7, BookSteps
<1>2. gen' \in [Keys -> Nat] /\ loads' \in Nat /\ loads' <= events' /\ \A k \in Keys : gen'[k] <= loads'
  <2>1. CASE UNCHANGED <<gen, loads>>
    BY <1>0, <1>1, <2>1
  <2>2. CASE gen' = [k \in Keys |-> 0] /\ loads' = loads
    BY <1>0, <1>1, <2>2
  <2>3. ASSUME NEW k \in Keys, loads' = loads, gen' = [gen EXCEPT ![k] = 0]
        PROVE  gen' \in [Keys -> Nat] /\ loads' \in Nat /\ loads' <= events' /\ \A j \in Keys : gen'[j] <= loads'
    BY <1>0, <1>1, <2>3
  <2>4. ASSUME NEW k \in Keys, loads' = loads + 1, gen' = [gen EXCEPT ![k] = loads + 1], events' = events + 1
        PROVE  gen' \in [Keys -> Nat] /\ loads' \in Nat /\ loads' <= events' /\ \A j \in Keys : gen'[j] <= loads'
    <3>1. \A j \in Keys : gen'[j] = loads + 1 \/ gen'[j] = gen[j]
      BY <1>0, <2>4
    <3>2. gen' \in [Keys -> Nat]
      BY <1>0, <2>4
    <3> QED BY <1>0, <2>4, <3>1, <3>2
  <2> QED BY <1>1, <2>1, <2>2, <2>3, <2>4
<1>3. book'.lockEpoch <= events'
  <2>1. CASE book'.lockEpoch = book.lockEpoch \/ book'.lockEpoch = 0
    BY <1>0, <1>1, <2>1
  <2>2. CASE Disturb /\ book'.lockEpoch = book.lockEpoch + 1
    BY <1>0, <2>2, Disturbed
  <2> QED BY <2>1, <2>2, BookShapeNext
<1> QED BY <1>0, <1>1, <1>2, <1>3 DEF CountsOK

LEMMA TicketInit == ASSUME Init PROVE TicketOK
BY DEF Init, TicketOK

LEMMA TicketNext ==
  ASSUME TurnsOK, Screened, CountsOK, ClocksOK, TicketOK, [Next]_vars
  PROVE  TicketOK'
<1> DEFINE Same == UNCHANGED <<screen, ticket, clean, aborted, book, disposed>>
<1>0. /\ book \in Books /\ book' \in Books /\ book.lockEpoch \in Nat
      /\ \A q \in Requests : KeyOf[q] \in Keys /\ book.fence[KeyOf[q]] \in Nat
      /\ DOMAIN ticket = Requests /\ clean \subseteq Requests
      /\ screen \in [Requests -> Screens]
  <2>1. book \in Books /\ book' \in Books
    BY BookShapeNext DEF CountsOK
  <2>2. book.lockEpoch \in Nat /\ \A k \in Keys : book.fence[k] \in Nat
    BY <2>1, BookFields
  <2> QED BY <2>1, <2>2, Constants DEF TicketOK, Screened
<1>1. ASSUME UNCHANGED vars PROVE Same
  BY <1>1 DEF vars, turnVars, bookVars, vaultVars, reqVars, ghostVars
<1>2. ASSUME Unlock \/ IdleElapses \/ Tick \/ SetClock PROVE Same
  BY <1>2 DEF Unlock, IdleElapses, Tick, SetClock, turnVars, bookVars, vaultVars, reqVars, ghostVars
<1>3. ASSUME NEW r \in Requests, NEW c, ArriveCovered(r, c) \/ ArriveUncovered(r, c) PROVE Same
  BY <1>3 DEF ArriveCovered, ArriveUncovered, RefuseAtArrival, Enqueue, bookVars, vaultVars, ghostVars
<1>4. ASSUME NEW r \in Requests, Microtask(r) PROVE Same \/ ShowPrompt(r)
  BY <1>4 DEF Microtask, RefusedStale, CoveredAfterWaiting, RefusedTooLate, AnswerEarly, Reply, Replied, Deliver,
              bookVars, vaultVars, reqVars, ghostVars
<1>5. ASSUME DrainGhosts PROVE Same
  BY <1>5 DEF DrainGhosts, DrainGhost, bookVars, vaultVars, reqVars, ghostVars
<1>6. ASSUME Same PROVE TicketOK'
  BY <1>0, <1>6, TicketsFrom DEF Passes
<1>7. ASSUME NEW k \in Keys, Serve(k) \/ Unload(k) \/ AskEveryUse(k) PROVE TicketOK'
  <2>1. /\ UNCHANGED <<screen, ticket, aborted, disposed>> /\ clean' = {r \in clean : KeyOf[r] # k}
        /\ book' = EndWindows(book, k)
    BY <1>7 DEF Serve, Unload, AskEveryUse, RevokedGhosts, turnVars, vaultVars, reqVars
  <2>2. /\ book'.lockEpoch = book.lockEpoch /\ book'.fence[k] = book.fence[k] + 1
        /\ \A j \in Keys : j # k => book'.fence[j] = book.fence[j]
    BY <1>0, <2>1, EndWindowsIs
  <2>3. ASSUME NEW q \in Requests PROVE Passes(q)
    BY <1>0, <2>1, <2>2 DEF Passes
  <2> QED BY <1>0, <2>1, <2>3, TicketsFrom
<1>8. ASSUME Lock PROVE TicketOK'
  <2>1. UNCHANGED <<screen, ticket, aborted, disposed>> /\ clean' = {} /\ book' = EndAllWindows(book)
    BY <1>8 DEF Lock, turnVars, reqVars
  <2>2. book'.lockEpoch = book.lockEpoch + 1 /\ book'.fence = book.fence
    BY <1>0, <2>1, EndAllIs
  <2>3. ASSUME NEW q \in Requests PROVE Passes(q)
    BY <1>0, <2>1, <2>2 DEF Passes
  <2> QED BY <1>0, <2>1, <2>3, TicketsFrom
<1>9. ASSUME SetAutoLock \/ Expire PROVE TicketOK'
  <2>1. UNCHANGED <<screen, ticket, aborted, disposed, clean>>
    BY <1>9 DEF SetAutoLock, Expire, turnVars, vaultVars, reqVars, ghostVars
  <2>2. book' = book \/ book' = EndLoginWindows(book) \/ book' = WithoutExpired(book, wall, mono)
    BY <1>9 DEF SetAutoLock, Expire
  <2>3. book'.lockEpoch = book.lockEpoch /\ book'.fence = book.fence
    BY <1>0, <2>2, EndLoginIs, WithoutExpiredIs
  <2>4. ASSUME NEW q \in Requests PROVE Passes(q)
    BY <1>0, <2>1, <2>3 DEF Passes
  <2> QED BY <1>0, <2>1, <2>4, TicketsFrom
<1>10. ASSUME NEW r \in Requests, ShowPrompt(r) PROVE TicketOK'
  <2>1. /\ ticket' = [ticket EXCEPT ![r] = AskTicket(book, KeyOf[r], askedGen[r])]
        /\ clean' = clean \cup {r} /\ UNCHANGED <<book, aborted, disposed>>
        /\ \E v \in {"modal", "modal-longer"} : screen' = [screen EXCEPT ![r] = v]
    BY <1>10 DEF ShowPrompt, OpenTurn, bookVars, vaultVars
  <2>2. \A q \in Requests : q # r => screen'[q] = screen[q] /\ ticket'[q] = ticket[q]
    BY <1>0, <2>1
  <2>3. TicketAt(r)'
    <3>1. ticket'[r] = AskTicket(book, KeyOf[r], askedGen[r])
      BY <1>0, <2>1
    <3>2. ticket'[r].key = KeyOf[r] /\ ticket'[r].fence = book.fence[KeyOf[r]] /\ ticket'[r].epoch = book.lockEpoch
      BY <3>1 DEF AskTicket
    <3> QED BY <1>0, <2>1, <3>2 DEF TicketAt
  <2>4. ASSUME ~disposed, NEW q \in Requests, q # r, screen'[q] # "none" PROVE TicketAt(q)'
    <3>1. Passes(q) /\ (screen[q] # "none" => TicketAt(q))
      BY <1>0, <2>1, <2>2, <2>4 DEF Passes, TicketOK
    <3> QED BY <1>0, <2>4, <3>1, TicketKept
  <2>5. DOMAIN ticket' = Requests /\ clean' \subseteq Requests
    BY <1>0, <2>1
  <2> QED BY <2>1, <2>3, <2>4, <2>5 DEF TicketOK
<1>11. ASSUME NEW r \in Requests, screen' = [screen EXCEPT ![r] = "none"], ticket' = [ticket EXCEPT ![r] = None],
              aborted' = aborted \ {r}, UNCHANGED <<clean, disposed>>,
              book'.lockEpoch = book.lockEpoch, book'.fence = book.fence
       PROVE  TicketOK'
  <2>1. screen'[r] = "none" /\ \A q \in Requests : q # r => screen'[q] = screen[q] /\ ticket'[q] = ticket[q]
    BY <1>0, <1>11
  <2>2. ASSUME NEW q \in Requests PROVE Passes(q)
    BY <1>0, <1>11, <2>1 DEF Passes
  <2>3. DOMAIN ticket' = Requests
    BY <1>0, <1>11
  <2> QED BY <1>0, <1>11, <2>2, <2>3, TicketsFrom
<1>12. ASSUME NEW r \in Requests, NEW a, Answered(r, a) PROVE TicketOK'
  <2>1. book'.lockEpoch = book.lockEpoch /\ book'.fence = book.fence
    BY <1>12, AnsweredIs
  <2>2. /\ screen' = [screen EXCEPT ![r] = "none"] /\ ticket' = [ticket EXCEPT ![r] = None]
        /\ aborted' = aborted \ {r} /\ UNCHANGED <<clean, disposed>>
    BY <1>12 DEF Answered, Settle, WorkSettles
  <2> QED BY <1>11, <2>1, <2>2
<1>13. ASSUME NEW r \in Requests, StaleAnswer(r) PROVE TicketOK'
  <2>1. /\ screen' = [screen EXCEPT ![r] = "none"] /\ ticket' = [ticket EXCEPT ![r] = None]
        /\ aborted' = aborted \ {r} /\ UNCHANGED <<clean, disposed, book>>
    BY <1>13 DEF StaleAnswer, WorkSettles, bookVars, vaultVars, ghostVars
  <2> QED BY <1>11, <2>1
<1>14. ASSUME NEW r \in Requests, AnswerLonger(r) PROVE TicketOK'
  <2>1. \/ Answered(r, "once")
        \/ screen[r] # "none" /\ screen' = [screen EXCEPT ![r] = "list"]
           /\ UNCHANGED <<ticket, clean, aborted, book, disposed>>
    BY <1>14 DEF AnswerLonger, Answered, ModalAnswers, turnVars, bookVars, vaultVars, ghostVars
  <2>2. ASSUME screen[r] # "none", screen' = [screen EXCEPT ![r] = "list"],
               UNCHANGED <<ticket, clean, aborted, book, disposed>>
        PROVE  TicketOK'
    <3>1. ASSUME NEW q \in Requests PROVE Passes(q)
      BY <1>0, <2>2 DEF Passes
    <3> QED BY <1>0, <2>2, <3>1, TicketsFrom
  <2> QED BY <1>12, <2>1, <2>2
<1>15. ASSUME NEW r \in Requests, TimesOut(r) \/ HangUp(r) PROVE TicketOK'
  <2>1. /\ UNCHANGED <<screen, ticket, book, disposed>> /\ clean' = clean \ {r} /\ ~disposed
        /\ \/ aborted' = aborted \cup {r}
           \/ aborted' = aborted /\ r \in SlotOf(KeyOf[r]).waiters
    BY <1>15 DEF TimesOut, HangUp, Event, EndTurn, LeaveQueue, bookVars, vaultVars, reqVars
  <2>2. r \in SlotOf(KeyOf[r]).waiters => screen[r] = "none"
    <3>1. KeyOf[r] \in AskedKeys
      BY Constants
    <3>2. r \in SlotOf(KeyOf[r]).waiters => running[KeyOf[r]] # r
      BY <3>1, AtKey
    <3> QED BY <2>1, <3>2 DEF Screened
  <2>3. ASSUME NEW q \in Requests PROVE Passes(q)
    BY <1>0, <2>1, <2>2 DEF Passes
  <2> QED BY <1>0, <2>1, <2>3, TicketsFrom
<1>16. ASSUME Dispose PROVE TicketOK'
  BY <1>0, <1>16 DEF Dispose, TicketOK, reqVars
<1>17. ASSUME NEW r \in Requests, NEW a \in ModalAnswers, Answer(r, a) PROVE TicketOK'
  BY <1>12, <1>17 DEF Answer, Answered
<1>18. ASSUME NEW r \in Requests, NEW a \in ListAnswers, Pick(r, a) PROVE TicketOK'
  <2>1. PICK b \in {"once", a} : Settle(r, b)
    BY <1>18 DEF Pick
  <2>2. b \in ModalAnswers \cup ListAnswers
    BY <2>1 DEF ModalAnswers
  <2>3. Answered(r, b)
    BY <1>18, <2>1, <2>2 DEF Pick, Answered
  <2> QED BY <1>12, <2>3
<1> HIDE DEF Same
<1> QED BY <1>1, <1>2, <1>3, <1>4, <1>5, <1>6, <1>7, <1>8, <1>9, <1>10, <1>13, <1>14, <1>15, <1>16, <1>17, <1>18 DEF Next

-----------------------------------------------------------------------------
(* Every open window was given by a person since the last revocation, no   *)
(* later than the book says, and reaches no further than its scope may.    *)

WindowAt(k, s) ==
  book.open[k][s] # NoWindow =>
    /\ grants[k][s] # None
    /\ book.open[k][s].mono <= grants[k][s] /\ book.open[k][s].mono <= mono
    /\ book.open[k][s].until - book.open[k][s].at <= MaxWindow(s)

Grants == [Keys -> [WindowScope -> Nat \cup {None}]]

WindowsOK == grants \in Grants /\ \A k \in Keys, s \in WindowScope : WindowAt(k, s)

LEMMA NoGrantsIs == NoGrants \in Grants /\ \A k \in Keys : NoGrants[k] \in [WindowScope -> Nat \cup {None}]
BY DEF NoGrants, Grants

LEMMA WindowsFewer ==
  ASSUME WindowsOK, CountsOK, ClocksOK, FewerWindows(book, book'), mono' = mono \/ mono' = mono + 1,
         grants' \in Grants,
         \A k \in Keys, s \in WindowScope : book'.open[k][s] # NoWindow => grants'[k][s] = grants[k][s]
  PROVE  WindowsOK'
<1>1. ASSUME NEW k \in Keys, NEW s \in WindowScope, book'.open[k][s] # NoWindow
      PROVE  /\ grants'[k][s] # None
             /\ book'.open[k][s].mono <= grants'[k][s] /\ book'.open[k][s].mono <= mono'
             /\ book'.open[k][s].until - book'.open[k][s].at <= MaxWindow(s)
  <2>1. book'.open[k][s] = book.open[k][s] /\ grants'[k][s] = grants[k][s] /\ WindowAt(k, s)
    BY <1>1 DEF FewerWindows, WindowsOK
  <2>2. book.open[k][s] \in Windows
    BY <1>1, <2>1, BookFields DEF CountsOK
  <2>3. book.open[k][s].mono \in Nat /\ mono \in Nat
    BY <2>2 DEF Windows, ClocksOK
  <2> QED BY <1>1, <2>1, <2>3 DEF WindowAt
<1> QED BY <1>1 DEF WindowsOK, WindowAt

LEMMA WindowsInit == ASSUME Init PROVE WindowsOK
BY NoWindowsIs, NoGrantsIs DEF Init, WindowsOK, WindowAt

LEMMA WindowsNext ==
  ASSUME WindowsOK, CountsOK, ClocksOK, TicketOK, [Next]_vars
  PROVE  WindowsOK'
<1>0. /\ book \in Books /\ grants \in Grants /\ mono \in Nat
      /\ \A k \in Keys : grants[k] \in [WindowScope -> Nat \cup {None}]
  BY DEF WindowsOK, CountsOK, ClocksOK, Grants
<1>1. ASSUME UNCHANGED <<book, grants>>, mono' = mono \/ mono' = mono + 1 PROVE WindowsOK'
  BY <1>0, <1>1, WindowsFewer DEF FewerWindows
<1>2. ASSUME NEW k \in Keys, Revokes(k) PROVE WindowsOK'
  <2>1. book' = EndWindows(book, k) /\ grants' = [grants EXCEPT ![k] = NoGrants[k]] /\ mono' = mono
    BY <1>2 DEF Revokes, RevokedGhosts
  <2>2. FewerWindows(book, book') /\ \A s \in WindowScope : book'.open[k][s] = NoWindow
    BY <1>0, <2>1, EndWindowsIs
  <2>3. grants' \in Grants /\ \A j \in Keys : j # k => grants'[j] = grants[j]
    BY <1>0, <2>1, NoGrantsIs DEF Grants
  <2>4. \A j \in Keys, s \in WindowScope : book'.open[j][s] # NoWindow => grants'[j][s] = grants[j][s]
    BY <2>2, <2>3
  <2> QED BY <2>1, <2>2, <2>3, <2>4, WindowsFewer
<1>3. ASSUME Lock PROVE WindowsOK'
  <2>1. \A k \in Keys, s \in WindowScope : book'.open[k][s] = NoWindow
    BY <1>0, <1>3, EndAllIs DEF Lock
  <2> QED BY <1>3, <2>1, NoGrantsIs DEF Lock, WindowsOK, WindowAt
<1>4. ASSUME SetAutoLock PROVE WindowsOK'
  <2>1. mono' = mono
    BY <1>4 DEF SetAutoLock, clockVars
  <2>2. CASE autoLock'
    BY <1>1, <1>4, <2>1, <2>2 DEF SetAutoLock
  <2>3. CASE ~autoLock'
    <3>1. book' = EndLoginWindows(book) /\ grants' = [k \in Keys |-> [grants[k] EXCEPT !["login"] = None]]
      BY <1>4, <2>3 DEF SetAutoLock
    <3>2. /\ FewerWindows(book, book')
          /\ \A k \in Keys : book'.open[k]["login"] = NoWindow
      BY <1>0, <3>1, EndLoginIs
    <3>3. ASSUME NEW k \in Keys
          PROVE  /\ grants'[k] \in [WindowScope -> Nat \cup {None}]
                 /\ \A s \in WindowScope : s # "login" => grants'[k][s] = grants[k][s]
      BY <1>0, <3>1
    <3>4. grants' \in Grants
      BY <3>1, <3>3 DEF Grants
    <3>5. \A k \in Keys, s \in WindowScope : book'.open[k][s] # NoWindow => grants'[k][s] = grants[k][s]
      BY <3>2, <3>3
    <3> QED BY <2>1, <3>2, <3>4, <3>5, WindowsFewer
  <2> QED BY <2>2, <2>3
<1>5. ASSUME Expire PROVE WindowsOK'
  <2>1. book' = WithoutExpired(book, wall, mono) /\ grants' = grants /\ mono' = mono
    BY <1>5 DEF Expire, clockVars, ghostVars
  <2>2. FewerWindows(book, book')
    BY <1>0, <2>1, WithoutExpiredIs
  <2> QED BY <1>0, <2>1, <2>2, WindowsFewer
<1>6. ASSUME Dispose PROVE WindowsOK'
  BY <1>6, NoWindowsIs, NoGrantsIs DEF Dispose, WindowsOK, WindowAt
<1>7. ASSUME NEW r \in Requests, NEW a, Answered(r, a) PROVE WindowsOK'
  <2> DEFINE k == KeyOf[r]
  <2>0. k \in Keys
    BY Constants
  <2>1. ticket[r].key = k /\ mono' = mono
    BY <1>7, AnsweredIs, AnsweredBook
  <2>2. ASSUME NEW scope \in WindowScope, Granted(book, book', ticket[r], scope, mono),
               grants' = IF r \in clean THEN [grants EXCEPT ![k][scope] = mono] ELSE grants
        PROVE  WindowsOK'
    <3>1. ASSUME grants' = grants, book' # book PROVE r \in clean
      <4>1. ticket[r].fence = book.fence[KeyOf[r]] /\ ticket[r].epoch = book.lockEpoch
        BY <2>1, <2>2, <3>1 DEF Granted
      <4>2. TicketAt(r) /\ r \notin aborted
        BY <1>7 DEF Answered, Event, TicketOK
      <4>3. book.fence[KeyOf[r]] \in Nat /\ book.lockEpoch \in Nat
        BY <1>0, <2>0, BookFields
      <4> QED BY <4>1, <4>2, <4>3 DEF TicketAt
    <3>2. CASE r \notin clean
      <4>1. grants' = grants /\ book' = book
        BY <2>2, <3>1, <3>2
      <4> QED BY <1>1, <2>1, <4>1
    <3>3. CASE r \in clean
      <4>1. grants' = [grants EXCEPT ![k] = [grants[k] EXCEPT ![scope] = mono]]
        BY <2>2, <3>3
      <4> DEFINE row == [grants[k] EXCEPT ![scope] = mono]
      <4>2. /\ row \in [WindowScope -> Nat \cup {None}] /\ row[scope] = mono
            /\ \A s \in WindowScope : s # scope => row[s] = grants[k][s]
        BY <1>0, <2>0
      <4> HIDE DEF row, k
      <4>3. grants' \in Grants /\ grants'[k] = row /\ \A j \in Keys : j # k => grants'[j] = grants[j]
        BY <1>0, <2>0, <4>1, <4>2 DEF Grants, row
      <4>4. /\ grants'[k][scope] = mono
            /\ \A j \in Keys, s \in WindowScope : j # k \/ s # scope => grants'[j][s] = grants[j][s]
        BY <4>2, <4>3
      <4>5. \A j \in Keys, s \in WindowScope : j # k \/ s # scope => book'.open[j][s] = book.open[j][s]
        BY <2>1, <2>2 DEF Granted
      <4>6. ASSUME NEW j \in Keys, NEW s \in WindowScope, j # k \/ s # scope PROVE WindowAt(j, s)'
        BY <2>1, <4>4, <4>5, <4>6 DEF WindowsOK, WindowAt
      <4>7. WindowAt(k, scope)'
        <5>1. mono # None /\ mono <= mono
          BY <1>0, Constants
        <5>2. CASE book' = book
          <6>1. WindowAt(k, scope)
            BY <2>0 DEF WindowsOK
          <6> QED BY <2>1, <4>4, <5>1, <5>2, <6>1 DEF WindowAt
        <5>3. CASE book' # book
          <6>1. /\ book'.open[k][scope].mono = mono
                /\ book'.open[k][scope].until - book'.open[k][scope].at <= MaxWindow(scope)
            BY <2>1, <2>2, <5>3 DEF Granted
          <6> QED BY <2>1, <4>4, <5>1, <6>1 DEF WindowAt
        <5> QED BY <5>2, <5>3
      <4> QED BY <4>3, <4>6, <4>7 DEF WindowsOK
    <3> QED BY <3>2, <3>3
  <2>3. CASE UNCHANGED <<book, grants>>
    BY <1>1, <2>1, <2>3
  <2> QED BY <1>7, <2>2, <2>3, AnsweredIs
<1> QED BY <1>1, <1>2, <1>3, <1>4, <1>5, <1>6, <1>7, BookSteps

-----------------------------------------------------------------------------
(* Together.                                                               *)

ClaimsOK == DOMAIN claim = Requests

LEMMA ClaimsNext == ASSUME ClaimsOK, [Next]_vars PROVE ClaimsOK'
<1> DEFINE Good == claim' = claim \/ \E r \in Requests : \E c : claim' = [claim EXCEPT ![r] = c]
<1>1. ASSUME NEW k \in Keys, Serve(k) \/ Unload(k) \/ AskEveryUse(k) PROVE Good
  BY <1>1 DEF Serve, Unload, AskEveryUse, reqVars
<1>2. ASSUME \/ UNCHANGED vars \/ Lock \/ Unlock \/ IdleElapses \/ SetAutoLock \/ Expire \/ Tick \/ SetClock
             \/ DrainGhosts \/ Dispose
      PROVE  Good
  BY <1>2 DEF vars, Lock, Unlock, IdleElapses, SetAutoLock, Expire, Tick, SetClock, DrainGhosts, Dispose, reqVars
<1>3. ASSUME NEW r \in Requests, NEW c, ArriveCovered(r, c) \/ ArriveUncovered(r, c) PROVE Good
  BY <1>3 DEF ArriveCovered, ArriveUncovered
<1>4. ASSUME NEW r \in Requests, Microtask(r) PROVE Good
  BY <1>4 DEF Microtask, RefusedStale, CoveredAfterWaiting, RefusedTooLate, ShowPrompt, Reply, Replied, reqVars
<1>5. ASSUME NEW r \in Requests, NEW a, Settle(r, a) PROVE claim' = claim
  BY <1>5 DEF Settle
<1>6. ASSUME NEW r \in Requests, NEW a, Answer(r, a) \/ Pick(r, a) PROVE claim' = claim
  BY <1>5, <1>6 DEF Answer, Pick
<1>7. ASSUME NEW r \in Requests, AnswerLonger(r) PROVE claim' = claim
  BY <1>5, <1>7 DEF AnswerLonger
<1>8. ASSUME NEW r \in Requests, StaleAnswer(r) \/ TimesOut(r) \/ HangUp(r) PROVE claim' = claim
  BY <1>8 DEF StaleAnswer, TimesOut, HangUp, reqVars
<1>9. Good
  <2> HIDE DEF Good
  <2>1. claim' = claim => Good
    BY DEF Good
  <2> QED BY <1>1, <1>2, <1>3, <1>4, <1>6, <1>7, <1>8, <2>1 DEF Next
<1> QED BY <1>9 DEF ClaimsOK

AgentOK ==
  TurnsOK /\ ClocksOK /\ Screened /\ AbortOK /\ CountsOK /\ TicketOK /\ WindowsOK /\ ClaimsOK

LEMMA AgentInvariant == Spec => []AgentOK
<1>0. Init => ClaimsOK
  BY DEF Init, ClaimsOK
<1>1. Init => AgentOK
  BY <1>0, TurnsInit, ScreenedInit, AbortInit, CountsInit, TicketInit, WindowsInit DEF AgentOK
<1>2. AgentOK /\ [Next]_vars => AgentOK'
  BY TurnsNext, ClocksNext, ScreenedNext, AbortNext, CountsNext, TicketNext, WindowsNext, ClaimsNext DEF AgentOK
<1> QED BY <1>1, <1>2, PTL DEF Spec

\* Every piece of the agent's state keeps its type: no key holds more callers
\* than the cap of consentTurns.ts and the one whose turn it is.
THEOREM TypeCorrect == Spec => []TypeOK
<1>1. ASSUME AgentOK PROVE TypeOK
  <2>1. outcome \in [Requests -> Outcomes \cup Replies \cup {None}]
    BY <1>1 DEF AgentOK, TurnsOK, TurnShape
  <2>2. ASSUME NEW k \in AskedKeys PROVE slot[k] = None \/ slot[k].live <= MaxWaiting + 1
    BY <1>1 DEF AgentOK, TurnsOK, KeyOK, Held, SlotOf
  <2>3. gen \in [Keys -> 0..loads] /\ loads <= MaxEvents
    BY <1>1, AgentAssumption DEF AgentOK, CountsOK
  <2>4. book.lockEpoch \in 0..MaxEvents
    <3>1. book.lockEpoch \in Nat
      BY <1>1, BookFields DEF AgentOK, CountsOK
    <3> QED BY <1>1, <3>1, AgentAssumption DEF AgentOK, CountsOK
  <2>5. screen \in [Requests -> Screens] /\ aborted \subseteq Requests
    BY <1>1 DEF AgentOK, Screened, AbortOK
  <2> QED BY <2>1, <2>2, <2>3, <2>4, <2>5 DEF TypeOK
<1> QED BY <1>1, AgentInvariant, PTL

\* A request is signed without a click only inside a window a person gave for
\* its key since the last lock, removal, re-load or row button, within that
\* window's length on the monotonic clock; a login window only for a login, in
\* an unlocked vault with auto-lock on (allowWindows.ts, sshAgentManager.ts).
THEOREM SilentInsideAGrant == Spec => SilentOnlyInsideAGrant
<1>1. ASSUME AgentOK, NEW r \in Requests, NEW g, NEW c, CoveringAt(KeyOf[r], g, c) # {}
      PROVE  \E s \in WindowScope :
               /\ grants[KeyOf[r]][s] # None
               /\ mono - grants[KeyOf[r]][s] < MaxWindow(s)
               /\ s = "login" => c = "login" /\ ~locked /\ autoLock
  <2> DEFINE k == KeyOf[r]
  <2>0. k \in Keys
    BY Constants
  <2>1. PICK s \in ScopesFor(c = "login" /\ LoginLive, autoLock) : Covers(book.open[k][s], g, wall, mono)
    BY <1>1 DEF CoveringAt, CoveringScopes
  <2>2. s \in WindowScope /\ (s = "login" => c = "login" /\ LoginLive /\ autoLock)
    BY <2>1 DEF ScopesFor, WindowScope
  <2>3. /\ book.open[k][s] # NoWindow
        /\ mono - book.open[k][s].mono < book.open[k][s].until - book.open[k][s].at
    BY <2>1 DEF Covers, ClocksPermit
  <2>4. WindowAt(k, s) /\ grants[k][s] \in Nat \cup {None} /\ mono \in Nat
    BY <1>1, <2>0, <2>2 DEF AgentOK, WindowsOK, Grants, ClocksOK
  <2>5. book.open[k][s] \in Windows
    BY <1>1, <2>0, <2>2, <2>3, BookFields DEF AgentOK, CountsOK
  <2>6. /\ book.open[k][s].mono \in Nat /\ book.open[k][s].until \in Int /\ book.open[k][s].at \in Int
        /\ MaxWindow(s) \in Nat
    BY <2>5, WindowLengths DEF Windows, MaxWindow
  <2>7. grants[k][s] # None /\ grants[k][s] \in Nat /\ mono - grants[k][s] < MaxWindow(s)
    <3>1. grants[k][s] # None /\ grants[k][s] \in Nat
      BY <2>3, <2>4 DEF WindowAt
    <3>2. /\ book.open[k][s].mono <= grants[k][s]
          /\ book.open[k][s].until - book.open[k][s].at <= MaxWindow(s)
      BY <2>3, <2>4 DEF WindowAt
    <3> HIDE DEF k
    <3> QED BY <2>3, <2>4, <2>6, <3>1, <3>2
  <2> QED BY <2>2, <2>7 DEF LoginLive
<1>2. ASSUME AgentOK, [Next]_vars, NEW r \in Requests, how[r] # "window", how'[r] = "window"
      PROVE  \E s \in WindowScope :
               /\ grants[KeyOf[r]][s] # None
               /\ mono - grants[KeyOf[r]][s] < MaxWindow(s)
               /\ s = "login" => claim'[r] = "login" /\ ~locked /\ autoLock
  <2>0. how \in [Requests -> {"click", "window", None}] /\ None # "window"
    BY <1>2, Constants DEF AgentOK, AbortOK
  <2> DEFINE Kept == UNCHANGED how
             Other(q) == \E w \in {"click", None, how[q]} : how' = [how EXCEPT ![q] = w]
             Silent(q) == /\ how' = [how EXCEPT ![q] = "window"]
                          /\ \E g : CoveringAt(KeyOf[q], g, claim'[q]) # {}
  <2>1. ASSUME NEW q \in Requests, Other(q) PROVE FALSE
    BY <1>2, <2>0, <2>1
  <2>2. ASSUME Kept PROVE FALSE
    BY <1>2, <2>2
  <2>3. ASSUME NEW q \in Requests, Silent(q) PROVE q = r
    BY <1>2, <2>0, <2>3
  <2>4. ASSUME NEW k \in Keys, Serve(k) \/ Unload(k) \/ AskEveryUse(k) PROVE Kept
    BY <2>4 DEF Serve, Unload, AskEveryUse, RevokedGhosts
  <2>5. ASSUME UNCHANGED vars \/ Lock \/ Unlock \/ IdleElapses \/ SetAutoLock \/ Expire \/ Tick \/ SetClock
               \/ DrainGhosts \/ Dispose
        PROVE  Kept
    BY <2>5 DEF vars, Lock, Unlock, IdleElapses, SetAutoLock, Expire, Tick, SetClock, DrainGhosts, Dispose, ghostVars
  <2>6. ASSUME NEW q \in Requests, NEW c, ArriveUncovered(q, c) PROVE Kept
    BY <2>6 DEF ArriveUncovered, ghostVars
  <2>7. ASSUME NEW q \in Requests, NEW c, ArriveCovered(q, c) PROVE Silent(q)
    <3>1. /\ how' = [how EXCEPT ![q] = "window"] /\ claim' = [claim EXCEPT ![q] = c]
          /\ CoveringAt(KeyOf[q], gen[KeyOf[q]], c) # {}
      BY <2>7 DEF ArriveCovered
    <3>2. claim'[q] = c
      BY <1>2, <3>1 DEF AgentOK, ClaimsOK
    <3> QED BY <3>1, <3>2
  <2>8. ASSUME NEW q \in Requests, Microtask(q) PROVE Kept \/ Other(q) \/ Silent(q)
    BY <2>8 DEF Microtask, RefusedStale, CoveredAfterWaiting, RefusedTooLate, ShowPrompt, Reply, Replied,
                ghostVars, reqVars
  <2>9. ASSUME NEW q \in Requests, NEW a, Settle(q, a) PROVE Other(q)
    BY <2>9 DEF Settle
  <2>10. ASSUME NEW q \in Requests, NEW a, Answer(q, a) \/ Pick(q, a) PROVE Other(q)
    BY <2>9, <2>10 DEF Answer, Pick
  <2>11. ASSUME NEW q \in Requests, AnswerLonger(q) PROVE Kept \/ Other(q)
    BY <2>9, <2>11 DEF AnswerLonger, ghostVars
  <2>12. ASSUME NEW q \in Requests, StaleAnswer(q) \/ TimesOut(q) \/ HangUp(q) PROVE Kept
    BY <2>12 DEF StaleAnswer, TimesOut, HangUp, ghostVars
  <2> HIDE DEF Kept, Other, Silent
  <2>13. \E q \in Requests : Silent(q)
    BY <1>2, <2>1, <2>2, <2>4, <2>5, <2>6, <2>7, <2>8, <2>10, <2>11, <2>12 DEF Next
  <2>14. Silent(r)
    BY <2>3, <2>13
  <2> QED BY <1>1, <1>2, <2>14 DEF Silent
<1>3. AgentOK /\ [Next]_vars =>
        [\A r \in Requests :
           how[r] # "window" /\ how'[r] = "window" =>
             \E s \in WindowScope :
               /\ grants[KeyOf[r]][s] # None
               /\ mono - grants[KeyOf[r]][s] < MaxWindow(s)
               /\ s = "login" => claim'[r] = "login" /\ ~locked /\ autoLock]_vars
  BY <1>2
<1> QED BY <1>3, AgentInvariant, PTL DEF Spec, SilentOnlyInsideAGrant
=============================================================================
