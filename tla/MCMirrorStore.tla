---------------------------- MODULE MCMirrorStore ----------------------------
(* Two gateways on one database, a request that revokes or suspends a      *)
(* passport, and others that use it.                                       *)
EXTENDS MirrorStore, TLC

CONSTANTS g1, g2, revoker, suspender, user, user2

MCGateways == {g1, g2}
MCKind(requests) ==
  [r \in requests |->
     IF r \in {user, user2} THEN "use" ELSE IF r = suspender THEN "suspend" ELSE "revoke"]

(* A gateway that reads the database twice, the other one between.         *)
MCRevoked == {revoker, user, user2}
MCRevokedKind == MCKind(MCRevoked)
MCRevokedRefreshes == [g \in MCGateways |-> IF g = g1 THEN 2 ELSE 1]

MCSuspended == {suspender, user}
MCSuspendedKind == MCKind(MCSuspended)
MCSuspendedRefreshes == [g \in MCGateways |-> 2]

(* Sound for an invariant: the gateways are not told apart.                *)
MCSymmetry == Permutations(MCGateways)

=============================================================================
