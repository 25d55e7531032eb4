---------------------------- MODULE ConsentTurns ----------------------------
(***************************************************************************)
(* The turn each signing request takes at the prompt, one key at a time    *)
(* (src_vs_code/src/consentTurns.ts on keyedQueue.ts).                     *)
(*                                                                         *)
(* A key's first request opens a modal; up to MaxWaiting more wait behind  *)
(* it; the next is refused.  A turn that ends first (its bound ran out,    *)
(* its client left) leaves its modal on screen as an orphan: whoever waits *)
(* is refused, and so is whoever comes, until that modal settles.          *)
(*                                                                         *)
(* The actions here are the queue's half of a step: they leave the clock   *)
(* and what a turn does to the module that composes them.                  *)
(***************************************************************************)
EXTENDS Integers, Sequences, FiniteSets

CONSTANTS Requests,      \* signing requests, numbered in the order they arrive
          KeyOf,         \* the key each request asks for
          MaxWaiting,    \* how many may wait behind the open turn
          MaxRetained,   \* how many jobs a key may hold that have not run
          Bound,         \* ticks a request may take from its arrival
          Floor,         \* ticks a request that waited must still have left
          None           \* no request, no outcome, no slot, no deadline

ASSUME TurnAssumption == /\ DOMAIN KeyOf = Requests
                         /\ None \notin Requests
                         /\ Requests \subseteq Nat /\ IsFiniteSet(Requests)
                         /\ MaxWaiting \in Nat /\ MaxRetained \in Nat \ {0}
                         /\ Bound \in Nat \ {0} /\ Floor \in Nat

VARIABLES slot,      \* per key, what is held for it, or None
          queue,     \* per key, the jobs that have not run yet
          running,   \* per key, the job the queue is running, or None
          outcome,   \* per request, how it was decided, or None
          waited,    \* per request, whether somebody was ahead of it
          due,       \* per request, when its bound runs out, or None before it
                     \* arrived and once it was answered
          aborted    \* turns told that they are over

\* The keys somebody asks for.
AskedKeys == {KeyOf[r] : r \in Requests}

turnVars == <<slot, queue, running, outcome, waited, due, aborted>>

Refusals == {"timed-out", "gone", "full", "orphaned", "too-late"}
Outcomes == {"yes", "no"} \cup Refusals      \* decided
Replies == {"signed", "refused"}               \* and told to the caller

TurnInit ==
  /\ slot = [k \in AskedKeys |-> None]
  /\ queue = [k \in AskedKeys |-> <<>>]
  /\ running = [k \in AskedKeys |-> None]
  /\ outcome = [r \in Requests |-> None]
  /\ waited = [r \in Requests |-> FALSE]
  /\ due = [r \in Requests |-> None]
  /\ aborted = {}

-----------------------------------------------------------------------------
(* One key's slot.                                                         *)

Slots == [live : Nat, retained : Nat, working : BOOLEAN, orphan : BOOLEAN,
          waiters : SUBSET Requests]

ASSUME NoneAssumption == None \notin Outcomes \cup Replies /\ None \notin Int /\ None \notin Slots

EmptySlot == [live |-> 0, retained |-> 0, working |-> FALSE,
              orphan |-> FALSE, waiters |-> {}]

SlotOf(k) == IF slot[k] = None THEN EmptySlot ELSE slot[k]

Idle(s) == s.live = 0 /\ ~s.working /\ s.retained = 0

\* A slot that holds nothing is forgotten.
Released(s) == IF Idle(s) THEN None ELSE s

\* A slip Full must not make: count the jobs that have not run, not the callers.
FullByRetained(s) == s.retained > MaxWaiting

\* The waiting cap counts callers still there, the retention cap their ghosts too.
Full(s) == s.live > MaxWaiting \/ s.retained >= MaxRetained

\* Decided: the request gives its place back.
Left(s, r) == [s EXCEPT !.live = @ - 1, !.waiters = @ \ {r}]

\* The turn's work settled: the slot is free for the next.
Freed(s) == [s EXCEPT !.working = FALSE, !.orphan = FALSE]

-----------------------------------------------------------------------------
(* The operations.                                                         *)

\* take: refused at arrival.
RefuseAtArrival(r, now) ==
  /\ \/ SlotOf(KeyOf[r]).orphan /\ outcome' = [outcome EXCEPT ![r] = "orphaned"]
     \/ /\ ~SlotOf(KeyOf[r]).orphan /\ Full(SlotOf(KeyOf[r]))
        /\ outcome' = [outcome EXCEPT ![r] = "full"]
  /\ due' = [due EXCEPT ![r] = now + Bound]
  /\ UNCHANGED <<slot, queue, running, waited, aborted>>

\* take: admitted to the key's queue.
Enqueue(r, now) ==
  /\ ~SlotOf(KeyOf[r]).orphan
  /\ ~Full(SlotOf(KeyOf[r]))
  /\ slot' = [slot EXCEPT ![KeyOf[r]] =
                [SlotOf(KeyOf[r]) EXCEPT !.live = @ + 1,
                                         !.retained = @ + 1,
                                         !.waiters = @ \cup {r}]]
  /\ queue' = [queue EXCEPT ![KeyOf[r]] = Append(@, r)]
  /\ waited' = [waited EXCEPT ![r] = SlotOf(KeyOf[r]).live > 0]
  /\ due' = [due EXCEPT ![r] = now + Bound]
  /\ UNCHANGED <<running, outcome, aborted>>

\* The next job of a key may run: the one before it has settled.
Startable(k) == running[k] = None /\ queue[k] # <<>>

\* The job leaves the backlog.
Started(s) == [s EXCEPT !.retained = @ - 1]

\* turn: its request was decided while it waited.
DrainGhost(k) ==
  /\ Startable(k)
  /\ outcome[Head(queue[k])] # None
  /\ slot' = [slot EXCEPT ![k] = Released(Started(@))]
  /\ queue' = [queue EXCEPT ![k] = Tail(@)]
  /\ UNCHANGED <<running, outcome, waited, due, aborted>>

\* What is left of the bound, the wait included, is too little for a prompt.
TooLate(r, now) == waited[r] /\ due[r] - now < Floor

\* turn: decided without a prompt, by what `before` answered or for want of time.
AnswerEarly(r, answer) ==
  /\ Startable(KeyOf[r]) /\ Head(queue[KeyOf[r]]) = r
  /\ outcome[r] = None
  /\ outcome' = [outcome EXCEPT ![r] = answer]
  /\ slot' = [slot EXCEPT ![KeyOf[r]] = Released(Left(Started(@), r))]
  /\ queue' = [queue EXCEPT ![KeyOf[r]] = Tail(@)]
  /\ UNCHANGED <<running, waited, due, aborted>>

\* run: the turn holds the slot until its work settles.
OpenTurn(r, now) ==
  /\ Startable(KeyOf[r]) /\ Head(queue[KeyOf[r]]) = r
  /\ outcome[r] = None
  /\ ~TooLate(r, now)
  /\ slot' = [slot EXCEPT ![KeyOf[r]] = [Started(slot[KeyOf[r]]) EXCEPT !.working = TRUE,
                                                                        !.waiters = @ \ {r}]]
  /\ queue' = [queue EXCEPT ![KeyOf[r]] = Tail(@)]
  /\ running' = [running EXCEPT ![KeyOf[r]] = r]
  /\ UNCHANGED <<outcome, waited, due, aborted>>

\* A slip EndTurn must not make: let the key's next job start beside the
\* modal nobody can close.
EndTurnAndAdvance(r, kind) ==
  /\ running[KeyOf[r]] = r /\ outcome[r] = None
  /\ outcome' = [outcome EXCEPT ![r] = kind]
  /\ slot' = [slot EXCEPT ![KeyOf[r]] = Released(Freed(Left(@, r)))]
  /\ running' = [running EXCEPT ![KeyOf[r]] = None]
  /\ aborted' = aborted \cup {r}
  /\ UNCHANGED <<queue, waited, due>>

\* A slip EndTurn must not make: leave whoever waits behind a modal that may
\* never settle.
EndTurnAlone(r, kind) ==
  /\ running[KeyOf[r]] = r /\ outcome[r] = None
  /\ outcome' = [outcome EXCEPT ![r] = kind]
  /\ slot' = [slot EXCEPT ![KeyOf[r]] = [Left(@, r) EXCEPT !.orphan = TRUE]]
  /\ aborted' = aborted \cup {r}
  /\ UNCHANGED <<queue, running, waited, due>>

\* end: the turn is over and its modal is not.  Whoever waits is refused now.
EndTurn(r, kind) ==
  /\ running[KeyOf[r]] = r /\ outcome[r] = None
  /\ \E ws \in {slot[KeyOf[r]].waiters} :
       /\ outcome' = [q \in Requests |-> CASE q = r -> kind
                                           [] q \in ws -> "orphaned"
                                           [] OTHER -> outcome[q]]
       /\ slot' = [slot EXCEPT ![KeyOf[r]] =
                     [slot[KeyOf[r]] EXCEPT !.live = @ - 1 - Cardinality(ws),
                                            !.waiters = {}, !.orphan = TRUE]]
  /\ aborted' = aborted \cup {r}
  /\ UNCHANGED <<queue, running, waited, due>>

\* requestAborted, before its turn: leave, and let the job drain as a ghost.
LeaveQueue(r) ==
  /\ r \in SlotOf(KeyOf[r]).waiters
  /\ outcome' = [outcome EXCEPT ![r] = "gone"]
  /\ slot' = [slot EXCEPT ![KeyOf[r]] = Released(Left(@, r))]
  /\ UNCHANGED <<queue, running, waited, due, aborted>>

\* A slip WorkSettles must not make: give the place back a second time.
WorkSettlesTwice(r, answer) ==
  /\ running[KeyOf[r]] = r
  /\ outcome' = [outcome EXCEPT ![r] = IF @ = None THEN answer ELSE @]
  /\ slot' = [slot EXCEPT ![KeyOf[r]] = Released(Freed(Left(@, r)))]
  /\ running' = [running EXCEPT ![KeyOf[r]] = None]
  /\ aborted' = aborted \ {r}
  /\ UNCHANGED <<queue, waited, due>>

\* The turn's work settled: answered if still undecided, the slot freed.
WorkSettles(r, answer) ==
  /\ running[KeyOf[r]] = r
  /\ outcome' = [outcome EXCEPT ![r] = IF @ = None THEN answer ELSE @]
  /\ slot' = [slot EXCEPT ![KeyOf[r]] =
                Released(Freed(IF outcome[r] = None THEN Left(@, r) ELSE @))]
  /\ running' = [running EXCEPT ![KeyOf[r]] = None]
  /\ aborted' = aborted \ {r}
  /\ UNCHANGED <<queue, waited, due>>

\* clear: everything undecided is refused, fresh slots and a fresh queue.
ClearTurns ==
  /\ outcome' = [r \in Requests |->
                   IF due[r] # None /\ outcome[r] = None THEN "gone" ELSE outcome[r]]
  /\ aborted' = aborted \cup {r \in Requests : running[KeyOf[r]] = r}
  /\ slot' = [k \in AskedKeys |-> None]
  /\ queue' = [k \in AskedKeys |-> <<>>]
  /\ running' = [k \in AskedKeys |-> None]
  /\ UNCHANGED <<waited, due>>

\* The answer has reached its caller; nothing about the request is kept but
\* that it was decided.
Deliver(r, answer) ==
  /\ outcome' = [outcome EXCEPT ![r] = answer]
  /\ waited' = [waited EXCEPT ![r] = FALSE]
  /\ due' = [due EXCEPT ![r] = None]
  /\ UNCHANGED <<slot, queue, running, aborted>>

-----------------------------------------------------------------------------
(* What the slots must say.                                                *)

\* Requests of k that were admitted and are still undecided.
Undecided(k) == {r \in Requests : KeyOf[r] = k /\ due[r] # None /\ outcome[r] = None}

\* A key's slot counts exactly the requests still undecided and the jobs not
\* yet run, through every order of refusals, departures, timeouts and late
\* answers; so the cap of consentTurns.ts never drifts, and a key that holds
\* nothing has no slot left behind.
SlotAccounts ==
  \A k \in AskedKeys :
    /\ SlotOf(k).live = Cardinality(Undecided(k))
    /\ SlotOf(k).retained = Len(queue[k])
    /\ SlotOf(k).working <=> running[k] # None
    /\ slot[k] # None => ~Idle(slot[k])
=============================================================================
