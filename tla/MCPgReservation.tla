--------------------------- MODULE MCPgReservation ---------------------------
(* A small database: three reservations that share nonces, jtis and one    *)
(* capped token in every combination, through the pools of two gateways.   *)
EXTENDS PgReservation

CONSTANTS c1, c2, c3, s1, s2, t1, n1, n2, n3, j1, j2, j3

MCRequests ==
  { [nonce |-> n1, jti |-> j1, token |-> t1,      amount |-> 1],
    [nonce |-> n2, jti |-> j2, token |-> t1,      amount |-> 1],
    [nonce |-> n3, jti |-> j3, token |-> t1,      amount |-> 2],
    [nonce |-> n1, jti |-> j2, token |-> NoToken, amount |-> 0],
    [nonce |-> n2, jti |-> j2, token |-> t1,      amount |-> -1] }

MCLimit == [t \in Tokens |-> 3]

(* c2 and c3 share the one connection of their gateway.                    *)
MCStoreOf == [c \in Calls |-> IF c = c1 THEN s1 ELSE s2]

=============================================================================
