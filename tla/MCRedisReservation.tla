-------------------------- MODULE MCRedisReservation --------------------------
(* Three calls that share nonces, jtis and a capped token, a clock that    *)
(* passes a key's expiry, and one lost connection per call.                *)
EXTENDS RedisReservation, TLC

CONSTANTS c1, c2, c3, t1, n1, n2, j1, j2

MCRequests ==
  { [nonce |-> n1, jti |-> j1, token |-> t1,      amount |-> 1],
    [nonce |-> n1, jti |-> j2, token |-> t1,      amount |-> 2],
    [nonce |-> n2, jti |-> j1, token |-> NoToken, amount |-> 0],
    [nonce |-> n2, jti |-> j2, token |-> t1,      amount |-> 2] }

MCLimit == [t \in Tokens |-> 4]

Twins == Permutations(Calls)

=============================================================================
