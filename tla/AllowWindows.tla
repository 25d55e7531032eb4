---------------------------- MODULE AllowWindows ----------------------------
(***************************************************************************)
(* The SSH agent's book of "allow without asking" windows                  *)
(* (src_vs_code/src/allowWindows.ts) and the meaning of an answer to the   *)
(* signing prompt (agentConsent.ts): pure operators on the book.           *)
(*                                                                         *)
(* A book is a record: lockEpoch, a fence per key, and per key and scope   *)
(* the open window or NoWindow.  Times are ticks of two clocks, the wall   *)
(* clock, which may be set, and the monotonic clock, which may not.        *)
(***************************************************************************)
EXTENDS Integers

CONSTANTS Keys,       \* vault entries that hold an SSH key
          NoWindow,   \* no window of this scope is in the book
          AllLen,     \* ticks "Allow for 10 minutes" covers
          LoginLen    \* ticks the longest choice of "Allow longer" covers

ASSUME WindowLengths == /\ AllLen \in Nat \ {0}
                        /\ LoginLen \in Nat
                        /\ AllLen <= LoginLen

\* `all` covers every purpose, `login` SSH logins only.
WindowScope == {"all", "login"}

\* The furthest a grant of each scope may reach.
MaxWindow(scope) == IF scope = "all" THEN AllLen ELSE LoginLen

NoWindows == [lockEpoch |-> 0,
              fence |-> [k \in Keys |-> 0],
              open |-> [k \in Keys |-> [s \in WindowScope |-> NoWindow]]]

\* What a prompt knew when it was shown.
AskTicket(book, k, generation) ==
  [key |-> k, gen |-> generation, fence |-> book.fence[k], epoch |-> book.lockEpoch]

\* What an answer crossed, the unloaded or re-loaded key first.
Crossing(book, ticket, generation) ==
  CASE generation # ticket.gen                -> "stale-key"
    [] book.fence[ticket.key] # ticket.fence  -> "fenced-key"
    [] book.lockEpoch # ticket.epoch          -> "fenced-lock"
    [] OTHER                                  -> "none"

\* Both clocks must permit: a wall clock set back cannot stretch a window.
ClocksPermit(w, wall, mono) ==
  /\ w.at <= wall /\ wall < w.until
  /\ w.mono <= mono /\ mono - w.mono < w.until - w.at

\* The one rule for "covers": this generation, and both clocks.
Covers(w, generation, wall, mono) ==
  w # NoWindow /\ w.gen = generation /\ ClocksPermit(w, wall, mono)

\* Clamp to the ceiling; keep a live window of this generation that ends later.
Placed(book, ticket, scope, wall, mono, length) ==
  LET until == wall + (IF length < MaxWindow(scope) THEN length ELSE MaxWindow(scope))
      standing == book.open[ticket.key][scope]
  IN  IF Covers(standing, ticket.gen, wall, mono) /\ standing.until >= until
      THEN book
      ELSE [book EXCEPT !.open[ticket.key][scope] =
              [gen |-> ticket.gen, at |-> wall, mono |-> mono, until |-> until]]

\* Record a timed answer, unless it crossed a fence.
GrantWindow(book, ticket, scope, generation, wall, mono, length) ==
  IF Crossing(book, ticket, generation) = "none"
  THEN Placed(book, ticket, scope, wall, mono, length)
  ELSE book

\* Which windows may cover a request.
ScopesFor(login, autoLockOn) ==
  IF login /\ autoLockOn THEN {"all", "login"} ELSE {"all"}

CoveringScopes(book, k, generation, scopes, wall, mono) ==
  {s \in scopes : Covers(book.open[k][s], generation, wall, mono)}

\* A slip EndWindows must not make: end the windows and leave the fence.
EndWindowsUnfenced(book, k) ==
  [book EXCEPT !.open[k] = [s \in WindowScope |-> NoWindow]]

\* The row button, an unload and a re-load: move the fence, drop the windows.
EndWindows(book, k) ==
  [book EXCEPT !.fence[k] = @ + 1,
               !.open[k] = [s \in WindowScope |-> NoWindow]]

\* Any lock: every window ends, and no answer given across it opens one.
EndAllWindows(book) ==
  [book EXCEPT !.lockEpoch = @ + 1, !.open = NoWindows.open]

\* Idle auto-lock switched off: the login windows end, no fence moves.
EndLoginWindows(book) ==
  [book EXCEPT !.open = [k \in Keys |-> [book.open[k] EXCEPT !["login"] = NoWindow]]]

\* The timer's look: drop what is over on either clock.
WithoutExpired(book, wall, mono) ==
  [book EXCEPT !.open =
     [k \in Keys |-> [s \in WindowScope |->
        IF book.open[k][s] # NoWindow /\ ClocksPermit(book.open[k][s], wall, mono)
        THEN book.open[k][s] ELSE NoWindow]]]

-----------------------------------------------------------------------------
(* What an answer means (agentConsent.ts).                                 *)

\* What the person may do with the modal, and with the list behind
\* "Allow longer".
ModalAnswers == {"once", "window", "longer", "deny", "dismiss"}
ListAnswers == {"pick", "escape", "failed"}

\* Whether the signature goes ahead, whether a person was there, and the
\* scope of the window the answer asks for.
DecideSigning(answer) ==
  CASE answer = "once"   -> [allow |-> TRUE,  present |-> TRUE,  scope |-> "none"]
    [] answer = "window" -> [allow |-> TRUE,  present |-> TRUE,  scope |-> "all"]
    [] answer = "pick"   -> [allow |-> TRUE,  present |-> TRUE,  scope |-> "login"]
    [] answer \in {"deny", "escape"}
                         -> [allow |-> FALSE, present |-> TRUE,  scope |-> "none"]
    [] OTHER             -> [allow |-> FALSE, present |-> FALSE, scope |-> "none"]

\* May "Allow longer" be honoured?  Asked for the button, before the list and
\* again at the pick.
LongerOffer(claim, locked, autoLockOn, overdue) ==
  claim = "login" /\ ~locked /\ autoLockOn /\ ~overdue
=============================================================================
