-------------------------- MODULE MCFileReservation --------------------------
(* Three intents, two of them with one nonce, and credentials enough to    *)
(* authorize one of them twice; the clock runs past every expiry.          *)
EXTENDS FileReservation, TLC

CONSTANTS i1, i2, i3, n1, n2, j1, j2, j3

MCNonce == [i \in Intents |-> IF i = i3 THEN n2 ELSE n1]
MCIat == [i \in Intents |-> IF i = i1 THEN 1 ELSE IF i = i2 THEN 3 ELSE 2]
MCExp == [i \in Intents |-> MCIat[i] + 2]
MCAmount == [i \in Intents |-> IF i = i3 THEN 2 ELSE 1]

(* Credentials are interchangeable.                                        *)
Twins == Permutations(Jtis)

=============================================================================
