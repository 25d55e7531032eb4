------------------------- MODULE MCEntryProtection -------------------------
(* Small instances of EntryProtection for TLC.                             *)
EXTENDS EntryProtection

MCDevices == {1, 2}
\* At most one edit types a value.
MCPlains == (0..1) \X {0}
MCSeals == (0..1) \X MCDevices

\* Two new builds, runs without a break: four writes, or three with an edit that types a value.
Whole ==
  {[legacy |-> {}, interleave |-> FALSE, edits |-> 0, writes |-> 4, time |-> 2],
   [legacy |-> {}, interleave |-> FALSE, edits |-> 1, writes |-> 3, time |-> 2]}
\* Steps between the slot writes of a run, or a machine with an old build.
BrokenOrOld ==
  {[legacy |-> {}, interleave |-> TRUE, edits |-> 0, writes |-> 3, time |-> 1],
   [legacy |-> {2}, interleave |-> FALSE, edits |-> 1, writes |-> 3, time |-> 2]}

\* Both.
All == Whole \cup BrokenOrOld
=============================================================================
