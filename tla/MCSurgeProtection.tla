-------------------------- MODULE MCSurgeProtection --------------------------
(* An instance of SurgeProtection for TLC. *)
EXTENDS SurgeProtection, TLC
=============================================================================
