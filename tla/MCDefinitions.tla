---------------------------- MODULE MCDefinitions ----------------------------
(* Small instances of the versioned definitions for TLC. *)
EXTENDS Definitions
CONSTANTS a1, a2, d1, d2, s1, s2, r1
=============================================================================
