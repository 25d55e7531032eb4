----------------------- MODULE MCRotationQuarantine ------------------------
(* Small instances of RotationQuarantine for TLC.                          *)
EXTENDS RotationQuarantine

Scene(c, s, f) == [calls |-> c, overlap |-> FALSE, cut |-> FALSE, starts |-> s, faults |-> f]

\* A rotation and a value by hand with a failed write or a killed window; two rotations.
Turns == {Scene({"r1", "h1"}, 1, 1), Scene({"r1", "r2"}, 1, 0)}
\* Outside the promise, see the README: two rotations, the far side changed while another is still to
\* be stored.
Overlapping == {[Scene({"r1", "r2"}, 1, 0) EXCEPT !.overlap = TRUE]}
\* Outside the promise too: a door or an edit between the slots of a Remove PIN.
Overtaken == {[Scene({"r1", "h1"}, 1, 0) EXCEPT !.cut = TRUE]}
=============================================================================
