------------------------------ MODULE MCApprovals ------------------------------
(* Three approvers, of which two make the quorum, and four requests in any *)
(* order around the end of the approval's time.                            *)
EXTENDS Approvals, TLC

Twins == Permutations(Approvers) \cup Permutations(Handlers)

(* A disk that works under a process that goes on: what is left to fail is *)
(* the signer.                                                             *)
SignerSpec == Init /\ ~diskFails /\ [][Serve \/ SaveApprovals \/ Tick]_vars

=============================================================================
