---------------------------- MODULE MCWindowLock ----------------------------
(* The window lock for TLC. The module's assumptions are evaluated here.   *)
EXTENDS WindowLock
=============================================================================
