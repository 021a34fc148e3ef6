---------------------------- MODULE MCRevocation ----------------------------
(* A sub-agent whose parent belongs to a blueprint, a token delegated by   *)
(* the parent to the sub-agent, and three requests in any order.           *)
EXTENDS Revocation, TLC

CONSTANTS p1, p2, b1, t1, t2

MCUp == [p \in Passports |-> IF p = p1 THEN {p1} ELSE Passports]
MCTokenUp == [t \in Tokens |-> IF t = t1 THEN {t1} ELSE Tokens]
MCHolder == [t \in Tokens |-> IF t = t1 THEN p1 ELSE p2]
MCBlueprintOf == [p \in Passports |-> IF p = p1 THEN b1 ELSE NoBlueprint]

(* A single passport without parent or blueprint.                          *)
AloneUp == [p \in Passports |-> {p}]
AloneBlueprintOf == [p \in Passports |-> NoBlueprint]

Requests == Permutations(Handlers)

=============================================================================
