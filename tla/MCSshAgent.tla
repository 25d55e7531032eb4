----------------------------- MODULE MCSshAgent -----------------------------
(* A small instance of SshAgent for TLC: one key, three requests.          *)
EXTENDS SshAgent

CONSTANT k1

MCRequests == 1..3
MCKeyOf == [r \in MCRequests |-> k1]
=============================================================================
