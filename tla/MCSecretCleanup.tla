-------------------------- MODULE MCSecretCleanup --------------------------
(* Small instances of SecretCleanup and OneUseLane for TLC.                *)
EXTENDS OneUseLane

\* A person, the burn of another one-use entry, and the burn of Used.
MCDeleters == {"person", "other", "burn"}
MCSlots == {1, 2}
=============================================================================
