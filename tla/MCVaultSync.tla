---------------------------- MODULE MCVaultSync ----------------------------
(* Small instances of VaultSync for TLC.                                   *)
EXTENDS VaultSync

CONSTANTS x, y  \* two ids

MCDevices == {1, 2}

Plain == [transport |-> "server", interleave |-> FALSE, clocks |-> FALSE, ids |-> {x, y}, writes |-> 3,
          time |-> 1, faults |-> 1, restores |-> 0]

\* The person writes inside a cycle.
Interleaved == [Plain EXCEPT !.interleave = TRUE]
\* A git repository.
Git == [Plain EXCEPT !.transport = "git"]
\* A backup is restored, and tombstones run out.
Restored == [Plain EXCEPT !.ids = {x}, !.time = 2, !.faults = 0, !.restores = 1]
\* Nobody writes inside a cycle, and the clock ticks.
Held == [Plain EXCEPT !.ids = {x}, !.time = 2]

Situations == {Interleaved, Git, Restored, Held}
Unfailing == {[Interleaved EXCEPT !.writes = 2, !.faults = 0]}
\* Clocks that never tie.
Untied == {[Plain EXCEPT !.ids = {x}, !.clocks = TRUE, !.writes = 2]}
=============================================================================
