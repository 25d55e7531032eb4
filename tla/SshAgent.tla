------------------------------ MODULE SshAgent ------------------------------
(***************************************************************************)
(* The SSH agent (src_vs_code/src/sshAgentManager.ts, sshAgentServer.ts):  *)
(* keys loaded and removed, requests that ask to sign, the modal and the   *)
(* list a person answers, the windows that sign without asking, and the    *)
(* locks and settings that end them.  It composes the turns (ConsentTurns) *)
(* and the window book (AllowWindows).                                     *)
(*                                                                         *)
(* The extension host runs one event at a time and drains its microtasks   *)
(* before the next: an event needs Drained.  Only a load's own             *)
(* continuation (Serve) may come between the microtasks of a request.      *)
(***************************************************************************)
EXTENDS ConsentTurns, AllowWindows

CONSTANTS Claims,          \* what requests claim: "login", "sha1-login", "not-login"
          AutoLockAtStart, \* whether idle auto-lock is on at the start
          MaxTime,         \* bound: ticks of the monotonic clock
          MaxEvents        \* bound: loads, removals, locks, row buttons, settings
                           \*        changed, idle windows and clocks set

ASSUME AgentAssumption == /\ \A r \in Requests : KeyOf[r] \in Keys
                          /\ None \notin {"click", "window"} /\ AutoLockAtStart \in BOOLEAN
                          /\ MaxTime \in Nat /\ MaxEvents \in Nat

VARIABLES gen,       \* per key, the generation served, or 0 when not loaded
          loads,     \* the last generation handed out
          book,      \* the open windows
          locked,    \* the vault is locked
          overdue,   \* idle auto-lock is due and its timer has not fired
          autoLock,  \* idle auto-lock is on
          wall, mono,   \* the two clocks
          askedGen,  \* per request, the generation it arrived for
          claim,     \* per request, its claim on a long window
          screen,    \* per request, the dialog on screen for it
          ticket,    \* per request, what its prompt knew when it was shown
          disposed,  \* the manager was disposed
          events,    \* counter for the bound MaxEvents
          how,       \* ghost: per request, what allowed it: a click or a window
          clean,     \* ghost: prompts shown since the last revocation of their key
          grants     \* ghost: per key and scope, when a person last gave a
                     \* window since the last revocation, or None

bookVars == <<gen, loads, book>>
vaultVars == <<locked, overdue, autoLock, disposed>>
clockVars == <<wall, mono>>
reqVars == <<askedGen, claim, screen, ticket>>
ghostVars == <<how, clean, grants>>
vars == <<turnVars, bookVars, vaultVars, clockVars, reqVars, events, ghostVars>>

NoGrants == [k \in Keys |-> [s \in WindowScope |-> None]]

Init ==
  /\ TurnInit
  /\ gen = [k \in Keys |-> 0]
  /\ loads = 0
  /\ book = NoWindows
  /\ locked = FALSE /\ overdue = FALSE /\ autoLock = AutoLockAtStart
  /\ wall = MaxTime /\ mono = 0 /\ events = 0
  /\ askedGen = [r \in Requests |-> 0]
  /\ claim = [r \in Requests |-> None]
  /\ screen = [r \in Requests |-> "none"]
  /\ ticket = [r \in Requests |-> None]
  /\ disposed = FALSE
  /\ how = [r \in Requests |-> None]
  /\ clean = {}
  /\ grants = NoGrants

\* The microtasks have run: no job is due to start, no answer is on its way.
Drained ==
  /\ \A k \in AskedKeys : ~Startable(k)
  /\ \A r \in Requests : outcome[r] \notin Outcomes

Event == Drained /\ ~disposed

Disturb == events < MaxEvents /\ events' = events + 1

-----------------------------------------------------------------------------
(* Keys and revocations.                                                   *)

\* Ghost: what a revocation of k takes away.
RevokedGhosts(k) ==
  /\ clean' = {r \in clean : KeyOf[r] # k}
  /\ grants' = [grants EXCEPT ![k] = NoGrants[k]]
  /\ UNCHANGED how

\* serve: a new generation, which revokes the old object and inherits no window.
Serve(k) ==
  /\ ~disposed
  /\ Disturb
  /\ loads' = loads + 1
  /\ gen' = [gen EXCEPT ![k] = loads']
  /\ book' = EndWindows(book, k)
  /\ RevokedGhosts(k)
  /\ UNCHANGED <<turnVars, vaultVars, clockVars, reqVars>>

\* unload: the key and its windows go.  With the last key the server stops, and
\* the requests still open hang up (HangUp).
Unload(k) ==
  /\ Event
  /\ gen[k] # 0
  /\ Disturb
  /\ gen' = [gen EXCEPT ![k] = 0]
  /\ book' = EndWindows(book, k)
  /\ RevokedGhosts(k)
  /\ UNCHANGED <<turnVars, loads, vaultVars, clockVars, reqVars>>

\* The row button "Ask for Every Use Again".
AskEveryUse(k) ==
  /\ Event
  /\ gen[k] # 0
  /\ Disturb
  /\ book' = EndWindows(book, k)
  /\ RevokedGhosts(k)
  /\ UNCHANGED <<turnVars, gen, loads, vaultVars, clockVars, reqVars>>

\* lock, by command, by the idle timer or by a deactivation: every window ends.
Lock ==
  /\ Event
  /\ ~locked
  /\ Disturb
  /\ locked' = TRUE /\ overdue' = FALSE
  /\ book' = EndAllWindows(book)
  /\ clean' = {} /\ grants' = NoGrants
  /\ UNCHANGED <<turnVars, gen, loads, autoLock, disposed, clockVars, reqVars, how>>

Unlock ==
  /\ Event
  /\ locked
  /\ locked' = FALSE
  /\ UNCHANGED <<turnVars, bookVars, overdue, autoLock, disposed, clockVars, reqVars,
                 events, ghostVars>>

\* The idle window elapsed; the timer that locks has not ticked yet.
IdleElapses ==
  /\ Event
  /\ autoLock /\ ~locked /\ ~overdue
  /\ Disturb
  /\ overdue' = TRUE
  /\ UNCHANGED <<turnVars, bookVars, locked, autoLock, disposed, clockVars, reqVars,
                 ghostVars>>

\* The setting: off ends every login window, and nothing else.
SetAutoLock ==
  /\ Event
  /\ Disturb
  /\ autoLock' = ~autoLock
  /\ overdue' = (overdue /\ autoLock')
  /\ book' = IF autoLock' THEN book ELSE EndLoginWindows(book)
  /\ grants' = IF autoLock' THEN grants ELSE [k \in Keys |-> [grants[k] EXCEPT !["login"] = None]]
  /\ UNCHANGED <<turnVars, gen, loads, locked, disposed, clockVars, reqVars, how, clean>>

\* The timer of the book drops what has ended.
Expire ==
  /\ Event
  /\ book # WithoutExpired(book, wall, mono)
  /\ book' = WithoutExpired(book, wall, mono)
  /\ UNCHANGED <<turnVars, gen, loads, vaultVars, clockVars, reqVars, events, ghostVars>>

-----------------------------------------------------------------------------
(* A request, from its arrival to the reply.                               *)

\* Whether a login window may be honoured now, read at every check.
LoginLive == ~locked /\ ~overdue

\* The scopes whose window covers a request for this generation, now.
CoveringAt(k, generation, aClaim) ==
  CoveringScopes(book, k, generation,
                 ScopesFor(aClaim = "login" /\ LoginLive, autoLock), wall, mono)

New(r) == due[r] = None /\ outcome[r] = None

\* The next request comes, for a key that is served; the bounds leave it time
\* to be decided.
Asks(r) ==
  /\ New(r) /\ \A q \in Requests : q < r => ~New(q)
  /\ gen[KeyOf[r]] # 0
  /\ mono + Bound <= MaxTime

\* A request for a key that is served, allowed by a window at its arrival.
ArriveCovered(r, c) ==
  /\ Event
  /\ Asks(r)
  /\ CoveringAt(KeyOf[r], gen[KeyOf[r]], c) # {}
  /\ outcome' = [outcome EXCEPT ![r] = "yes"]
  /\ due' = [due EXCEPT ![r] = mono + Bound]
  /\ askedGen' = [askedGen EXCEPT ![r] = gen[KeyOf[r]]]
  /\ claim' = [claim EXCEPT ![r] = c]
  /\ how' = [how EXCEPT ![r] = "window"]
  /\ UNCHANGED <<slot, queue, running, waited, aborted, bookVars, vaultVars, clockVars,
                 screen, ticket, events, clean, grants>>

\* No window covers it: it takes its turn, or is refused at once.
ArriveUncovered(r, c) ==
  /\ Event
  /\ Asks(r)
  /\ CoveringAt(KeyOf[r], gen[KeyOf[r]], c) = {}
  /\ RefuseAtArrival(r, mono) \/ Enqueue(r, mono)
  /\ askedGen' = [askedGen EXCEPT ![r] = gen[KeyOf[r]]]
  /\ claim' = [claim EXCEPT ![r] = c]
  /\ UNCHANGED <<bookVars, vaultVars, clockVars, screen, ticket,
                 events, ghostVars>>

\* beforePrompt: the key was removed or loaded again while the request waited.
RefusedStale(r) ==
  /\ gen[KeyOf[r]] # askedGen[r]
  /\ AnswerEarly(r, "no")
  /\ UNCHANGED <<bookVars, vaultVars, clockVars, reqVars, events, ghostVars>>

\* beforePrompt: a window an earlier turn opened covers a request that waited.
CoveredAfterWaiting(r) ==
  /\ gen[KeyOf[r]] = askedGen[r]
  /\ waited[r] /\ CoveringAt(KeyOf[r], askedGen[r], claim[r]) # {}
  /\ AnswerEarly(r, "yes")
  /\ how' = [how EXCEPT ![r] = "window"]
  /\ UNCHANGED <<bookVars, vaultVars, clockVars, reqVars, events, clean, grants>>

\* Nothing answers it without a prompt.
NeedsPrompt(r) ==
  /\ gen[KeyOf[r]] = askedGen[r]
  /\ waited[r] => CoveringAt(KeyOf[r], askedGen[r], claim[r]) = {}

RefusedTooLate(r) ==
  /\ NeedsPrompt(r)
  /\ TooLate(r, mono)
  /\ AnswerEarly(r, "too-late")
  /\ UNCHANGED <<bookVars, vaultVars, clockVars, reqVars, events, ghostVars>>

\* turnStarted: the ticket is taken as the modal is shown.
ShowPrompt(r) ==
  /\ NeedsPrompt(r)
  /\ OpenTurn(r, mono)
  /\ ticket' = [ticket EXCEPT ![r] = AskTicket(book, KeyOf[r], askedGen[r])]
  /\ screen' = [screen EXCEPT ![r] = IF LongerOffer(claim[r], locked, autoLock, overdue)
                                     THEN "modal-longer" ELSE "modal"]
  /\ clean' = clean \cup {r}
  /\ UNCHANGED <<bookVars, vaultVars, clockVars, askedGen, claim, events,
                 how, grants>>

DrainGhosts ==
  /\ \E k \in AskedKeys : DrainGhost(k)
  /\ UNCHANGED <<bookVars, vaultVars, clockVars, reqVars, events, ghostVars>>

\* settle: the answer is applied inside the turn, and the turn's work is done.
Settle(r, answer) ==
  \E d \in {DecideSigning(answer)}, length \in (IF answer = "pick" THEN AllLen..LoginLen
                                                                   ELSE {AllLen}) :
    /\ overdue' = (overdue /\ ~d.present)
    /\ book' = IF d.scope = "none" THEN book
               ELSE GrantWindow(book, ticket[r], d.scope, gen[KeyOf[r]], wall, mono, length)
    /\ WorkSettles(r, IF d.allow /\ (d.scope = "none" \/ gen[KeyOf[r]] = ticket[r].gen)
                      THEN "yes" ELSE "no")
    /\ how' = [how EXCEPT ![r] = IF d.allow THEN "click" ELSE @]
    /\ grants' = IF d.scope # "none" /\ r \in clean
                 THEN [grants EXCEPT ![KeyOf[r]][d.scope] = mono] ELSE grants
    /\ screen' = [screen EXCEPT ![r] = "none"]
    /\ ticket' = [ticket EXCEPT ![r] = None]
    /\ UNCHANGED <<gen, loads, locked, autoLock, disposed, clockVars, askedGen, claim, events, clean>>

\* The person answers the modal of a turn that is still on.
Answer(r, answer) ==
  /\ Event
  /\ screen[r] \in {"modal", "modal-longer"}
  /\ r \notin aborted
  /\ answer \in ModalAnswers \ {"longer"}
  /\ Settle(r, answer)

\* "Allow longer": the offer is asked again, then the list opens in the same
\* turn, or this one signature goes ahead.
AnswerLonger(r) ==
  /\ Event
  /\ screen[r] = "modal-longer"
  /\ r \notin aborted
  /\ \/ /\ LongerOffer(claim[r], locked, autoLock, overdue)
        /\ screen' = [screen EXCEPT ![r] = "list"]
        /\ UNCHANGED <<turnVars, bookVars, vaultVars, clockVars, askedGen, claim, ticket, events, ghostVars>>
     \/ /\ ~LongerOffer(claim[r], locked, autoLock, overdue)
        /\ Settle(r, "once")

\* afterPick: the turn is still on; a length is honoured only if it may still be.
Pick(r, answer) ==
  /\ Event
  /\ screen[r] = "list"
  /\ r \notin aborted
  /\ Settle(r, IF answer = "pick" /\ ~LongerOffer(claim[r], locked, autoLock, overdue)
               THEN "once" ELSE answer)

\* stale: whatever is clicked after the turn ended signs nothing and opens
\* nothing; a list is closed with its turn.
StaleAnswer(r) ==
  /\ Event
  /\ screen[r] # "none" /\ r \in aborted
  /\ WorkSettles(r, "no")
  /\ screen' = [screen EXCEPT ![r] = "none"]
  /\ ticket' = [ticket EXCEPT ![r] = None]
  /\ UNCHANGED <<bookVars, vaultVars, clockVars, askedGen, claim,
                 events, ghostVars>>

\* The turn's bound runs out.
TimesOut(r) ==
  /\ Event
  /\ due[r] # None /\ mono >= due[r]
  /\ EndTurn(r, "timed-out")
  /\ clean' = clean \ {r}
  /\ UNCHANGED <<bookVars, vaultVars, clockVars, reqVars, events, how, grants>>

\* The program that asked goes away: its turn ends, or it leaves the queue.
HangUp(r) ==
  /\ Event
  /\ EndTurn(r, "gone") \/ LeaveQueue(r)
  /\ clean' = clean \ {r}
  /\ UNCHANGED <<bookVars, vaultVars, clockVars, reqVars, events, how, grants>>

\* What the server keeps of a request it has replied to.
Replied(r) ==
  /\ askedGen' = [askedGen EXCEPT ![r] = 0]
  /\ claim' = [claim EXCEPT ![r] = None]
  /\ how' = [how EXCEPT ![r] = None]
  /\ UNCHANGED <<bookVars, vaultVars, clockVars, screen, ticket, events, clean, grants>>

\* A slip Reply must not make: sign with whatever is loaded under the entry.
ReplyAnyObject(r) ==
  /\ outcome[r] \in Outcomes
  /\ Deliver(r, IF outcome[r] = "yes" /\ gen[KeyOf[r]] # 0 THEN "signed" ELSE "refused")
  /\ Replied(r)

\* confirmAndSign: only the very object that was asked about signs.
Reply(r) ==
  /\ outcome[r] \in Outcomes
  /\ Deliver(r, IF outcome[r] = "yes" /\ gen[KeyOf[r]] = askedGen[r] THEN "signed"
                                                                     ELSE "refused")
  /\ Replied(r)

-----------------------------------------------------------------------------
(* The clocks and the end.                                                 *)

Tick ==
  /\ Event
  /\ mono < MaxTime
  /\ mono' = mono + 1 /\ wall' = wall + 1
  /\ UNCHANGED <<turnVars, bookVars, vaultVars, reqVars, events, ghostVars>>

\* The wall clock is set, back or forth.
SetClock ==
  /\ Event
  /\ Disturb
  /\ wall' \in {0, MaxTime} \ {wall}
  /\ UNCHANGED <<turnVars, bookVars, vaultVars, mono, reqVars, ghostVars>>

\* dispose: the window closes; the host ends with it.
Dispose ==
  /\ Event
  /\ disposed' = TRUE
  /\ ClearTurns
  /\ gen' = [k \in Keys |-> 0]
  /\ book' = NoWindows
  /\ clean' = {} /\ grants' = NoGrants
  /\ UNCHANGED <<loads, locked, overdue, autoLock, clockVars, reqVars, events, how>>

Microtask(r) ==
  \/ RefusedStale(r)
  \/ CoveredAfterWaiting(r)
  \/ RefusedTooLate(r)
  \/ ShowPrompt(r)
  \/ Reply(r)

Next ==
  \/ \E k \in Keys : Serve(k) \/ Unload(k) \/ AskEveryUse(k)
  \/ Lock \/ Unlock \/ IdleElapses \/ SetAutoLock \/ Expire
  \/ \E r \in Requests, c \in Claims : ArriveCovered(r, c) \/ ArriveUncovered(r, c)
  \/ \E r \in Requests : Microtask(r)
  \/ DrainGhosts
  \/ \E r \in Requests, a \in ModalAnswers : Answer(r, a)
  \/ \E r \in Requests : AnswerLonger(r)
  \/ \E r \in Requests, a \in ListAnswers : Pick(r, a)
  \/ \E r \in Requests : StaleAnswer(r) \/ TimesOut(r) \/ HangUp(r)
  \/ Tick \/ SetClock \/ Dispose

Spec == Init /\ [][Next]_vars

\* The host runs its microtasks and its timers, and time passes.  Nothing is
\* assumed of the person, of the clients or of the keys.
Fairness ==
  /\ \A r \in Requests : WF_vars(Microtask(r)) /\ WF_vars(TimesOut(r))
  /\ WF_vars(DrainGhosts)
  /\ WF_vars(Tick)

FairSpec == Spec /\ Fairness

-----------------------------------------------------------------------------
(* Properties.                                                             *)

Screens == {"none", "modal", "modal-longer", "list"}

\* Every piece of the agent's state keeps its type.
TypeOK ==
  /\ outcome \in [Requests -> Outcomes \cup Replies \cup {None}]
  /\ \A k \in AskedKeys : slot[k] = None \/ slot[k].live <= MaxWaiting + 1
  /\ gen \in [Keys -> 0..loads] /\ loads <= MaxEvents
  /\ screen \in [Requests -> Screens]
  /\ book.lockEpoch \in 0..MaxEvents
  /\ aborted \subseteq Requests

\* VS Code cannot close a modal, so a person never faces two prompts for one
\* key: not after a timeout, not after the client left, not for a queued request
\* (the slot of consentTurns.ts).
OnePromptPerKey ==
  disposed \/ \A r, q \in Requests :
    r # q /\ KeyOf[r] = KeyOf[q] => screen[r] = "none" \/ screen[q] = "none"

\* A request is signed without a click only inside a window a person gave for
\* this key on a prompt shown after the last lock, removal, re-load or row
\* button, within the window's length on the monotonic clock whatever the wall
\* clock was set to; a login window only signs logins (allowWindows.ts).
SilentOnlyInsideAGrant ==
  [][\A r \in Requests :
       how[r] # "window" /\ how'[r] = "window" =>
         \E s \in WindowScope :
           /\ grants[KeyOf[r]][s] # None
           /\ mono - grants[KeyOf[r]][s] < MaxWindow(s)
           /\ s = "login" => claim'[r] = "login" /\ ~locked /\ autoLock]_vars

\* A signature is made by the very object the request asked about, allowed by
\* a click on its own prompt while the turn was on or by a window, and never
\* after the client, the bound or the window's end decided it
\* (sshAgentServer.confirmAndSign, sshAgentManager.openWindow).
SignedAsAsked ==
  [][\A r \in Requests :
       outcome[r] # "signed" /\ outcome'[r] = "signed" =>
         /\ how[r] # None /\ r \notin aborted
         /\ gen[KeyOf[r]] = askedGen[r]]_vars

\* Every request is answered, though nobody touches the prompt: the bound ends
\* the open turn and the orphan refuses whoever waits behind it.
EveryRequestIsAnswered ==
  \A r \in Requests : ~New(r) ~> outcome[r] \in Replies
=============================================================================
