---------------------------- MODULE CasRegister ----------------------------
(***************************************************************************)
(* What the vault server promises about the vaults: one register for each  *)
(* person, which a write compares and swaps in one step, and a removal     *)
(* clears in one step.  An operation takes effect at most once, at one     *)
(* instant between its call and its answer; one that is lost took none.    *)
(***************************************************************************)
CONSTANTS Absent,       \* the register's value when there is no vault
          Cell(_),      \* whose register an operation is about
          Fits(_, _),   \* Fits(c, v): write c's precondition holds of value v
          IsWrite(_),   \* whether an operation writes or removes
          Content(_)    \* what a write stores

VARIABLES value,    \* person -> the register
          status    \* operation -> "open", "done", "refused" or "lost"

vars == <<value, status>>

TypeOK ==
  status \in [DOMAIN status -> {"open", "done", "refused", "lost"}]

Init == \A c \in DOMAIN status : status[c] = "open"

Ends(c, s) ==
  /\ status[c] = "open"
  /\ status' = [status EXCEPT ![c] = s]

Write(c) ==
  /\ IsWrite(c) /\ Fits(c, value[Cell(c)])
  /\ Ends(c, "done")
  /\ value' = [value EXCEPT ![Cell(c)] = Content(c)]

Refuse(c) ==
  /\ IsWrite(c) => ~Fits(c, value[Cell(c)])
  /\ Ends(c, "refused")
  /\ UNCHANGED value

Remove(c) ==
  /\ ~IsWrite(c)
  /\ Ends(c, "done")
  /\ value' = [value EXCEPT ![Cell(c)] = Absent]

\* A crash, a cancelled request or a failing disk: the operations of C that
\* are still open end with no effect.
Lose(C) ==
  /\ \E c \in C : status[c] = "open"
  /\ status' = [c \in DOMAIN status |->
                  IF c \in C /\ status[c] = "open" THEN "lost" ELSE status[c]]
  /\ UNCHANGED value

Next ==
  \/ \E c \in DOMAIN status : Write(c) \/ Refuse(c) \/ Remove(c)
  \/ \E C \in SUBSET DOMAIN status : Lose(C)

Spec == Init /\ [][Next]_vars
=============================================================================
