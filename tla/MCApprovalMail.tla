--------------------------- MODULE MCApprovalMail ---------------------------
(* Small instances of the mail pipeline for TLC. *)
EXTENDS ApprovalMail, TLC
CONSTANTS e1, ann, bob, r1, r2, c1, c2
ToAll == [e \in Event |-> User]
Symmetry == Permutations(Relay) \cup Permutations(Consumer)
=============================================================================
