----------------------- MODULE RedisReservation_proofs -----------------------
(***************************************************************************)
(* Proofs about the Redis reservation, for any number of calls, requests,  *)
(* tokens and resends and any lifetime of the keys: the inductive          *)
(* invariant, and what holds once the lifetime is positive.                *)
(***************************************************************************)
EXTENDS RedisReservation, FiniteSetTheorems, TLAPS

(* A request is a record of the four fields the script reads.              *)
LEMMA RequestFields ==
  ASSUME NEW r \in Requests
  PROVE  /\ r.nonce \in Nonces
         /\ r.jti \in Jtis
         /\ r.token \in Tokens \cup {NoToken}
         /\ r.amount \in Nat
  BY RedisAssumption DEF Nonces, Jtis

(* What a reservation names: a call and the request it was made with.      *)
LEMMA GrantFields ==
  ASSUME IInv, NEW g \in grants
  PROVE  /\ g.call \in Calls /\ req[g.call] \in Requests
         /\ req[g.call].nonce \in Nonces /\ req[g.call].jti \in Jtis
         /\ req[g.call].token \in Tokens \cup {NoToken} /\ req[g.call].amount \in Nat
         /\ g.at \in Nat /\ g.at <= now
         /\ g.at + Ttl <= nonceExp[req[g.call].nonce]
         /\ g.at + Ttl <= jtiExp[req[g.call].jti]
  <1>1. g.call \in Calls /\ g.at \in Nat
    BY RedisAssumption DEF IInv, TypeOK
  <1>2. req[g.call] \in Requests
    BY <1>1 DEF IInv, CallFits, KeysOutliveGrant
  <1> QED
    BY <1>1, <1>2, RequestFields DEF IInv, KeysOutliveGrant

LEMMA InitIInv == Init => IInv
  <1> SUFFICES ASSUME Init PROVE IInv
    OBVIOUS
  <1>1. TypeOK
    BY RedisAssumption DEF Init, TypeOK, Results
  <1>2. WithinCap /\ SingleWinner /\ JtisBelongToGrants
    BY RedisAssumption DEF Init, WithinCap, SingleWinner, JtisBelongToGrants
  <1>3. ASSUME NEW c \in Calls PROVE CallFits(c)
    <2>1. pc[c] = "idle" /\ lost[c] = 0
      BY DEF Init
    <2> QED
      BY <2>1, RedisAssumption DEF CallFits
  <1>4. \A g \in grants : KeysOutliveGrant(g)
    BY DEF Init
  <1> QED
    BY <1>1, <1>2, <1>3, <1>4 DEF IInv

(* A step that touches neither the clock, the keys nor the grants, and     *)
(* leaves every call that was granted its request, keeps what is said of   *)
(* them.                                                                   *)
LEMMA KeysUntouched ==
  ASSUME IInv, TypeOK', \A c \in Calls : CallFits(c)',
         UNCHANGED <<now, keys, grants>>,
         \A c \in Calls : pc[c] # "idle" => req'[c] = req[c] /\ pc'[c] # "idle"
  PROVE  IInv'
  <1>1. \A g \in grants : g.call \in Calls /\ pc[g.call] # "idle" /\ pc'[g.call] # "idle"
                           /\ req'[g.call] = req[g.call]
    BY DEF IInv, TypeOK, KeysOutliveGrant
  <1>2. WithinCap'
    BY DEF IInv, WithinCap, keys
  <1>3. \A g \in grants : KeysOutliveGrant(g)'
    BY <1>1 DEF IInv, KeysOutliveGrant, keys
  <1>4. SingleWinner'
    BY <1>1 DEF IInv, SingleWinner
  <1>5. JtisBelongToGrants'
    <2> SUFFICES ASSUME NEW j \in Jtis, jtiExp[j] > now
                 PROVE  \E g \in grants : req'[g.call].jti = j /\ g.at + Ttl = jtiExp[j]
      BY DEF JtisBelongToGrants, keys
    <2>1. PICK g \in grants : req[g.call].jti = j /\ g.at + Ttl = jtiExp[j]
      BY DEF IInv, JtisBelongToGrants
    <2> QED
      BY <1>1, <2>1
  <1> QED
    BY <1>2, <1>3, <1>4, <1>5 DEF IInv

LEMMA SendIInv ==
  ASSUME IInv, NEW c \in Calls, NEW r \in Requests, Send(c, r)
  PROVE  IInv'
  <1>1. TypeOK'
    BY DEF IInv, TypeOK, Send, keys
  <1>2. \A d \in Calls : CallFits(d)'
    BY DEF IInv, TypeOK, CallFits, Send
  <1>3. \A d \in Calls : pc[d] # "idle" => req'[d] = req[d] /\ pc'[d] # "idle"
    BY DEF IInv, TypeOK, Send
  <1> QED
    BY <1>1, <1>2, <1>3, KeysUntouched DEF Send

LEMMA AnswerIInv ==
  ASSUME IInv, NEW c \in Calls, Answer(c)
  PROVE  IInv'
  <1>1. TypeOK'
    BY DEF IInv, TypeOK, Answer, keys
  <1>2. \A d \in Calls : CallFits(d)'
    BY DEF IInv, TypeOK, CallFits, Answer
  <1>3. \A d \in Calls : pc[d] # "idle" => req'[d] = req[d] /\ pc'[d] # "idle"
    BY DEF IInv, TypeOK, Answer
  <1> QED
    BY <1>1, <1>2, <1>3, KeysUntouched DEF Answer

LEMMA LoseConnectionIInv ==
  ASSUME IInv, NEW c \in Calls, LoseConnection(c)
  PROVE  IInv'
  <1>1. CallFits(c) /\ lost[c] \in 0..MaxRetries
    BY RedisAssumption DEF IInv, TypeOK, CallFits, LoseConnection
  <1>2. lost[c] + 1 \in 0..MaxRetries + 1
    BY <1>1, RedisAssumption
  <1>3. TypeOK'
    BY <1>2 DEF IInv, TypeOK, Results, LoseConnection, keys
  <1>4. \A d \in Calls : CallFits(d)'
    BY <1>1, RedisAssumption DEF IInv, TypeOK, CallFits, LoseConnection
  <1>5. \A d \in Calls : pc[d] # "idle" => req'[d] = req[d] /\ pc'[d] # "idle"
    BY DEF IInv, TypeOK, LoseConnection
  <1> QED
    BY <1>3, <1>4, <1>5, KeysUntouched DEF LoseConnection

LEMMA TickIInv == IInv /\ Tick => IInv'
  <1> SUFFICES ASSUME IInv, Tick PROVE IInv'
    OBVIOUS
  <1>1. TypeOK'
    BY RedisAssumption DEF IInv, TypeOK, Tick, keys
  <1>2. UNCHANGED <<req, pc, grants, nonceExp, jtiExp, spend, spendExp>> /\ now' = now + 1
    BY DEF Tick, keys
  <1>3. WithinCap'
    BY <1>2 DEF IInv, WithinCap
  <1>4. \A c \in Calls : CallFits(c)'
    BY DEF IInv, TypeOK, CallFits, Tick
  <1>5. \A g \in grants : KeysOutliveGrant(g)'
    <2> SUFFICES ASSUME NEW g \in grants PROVE KeysOutliveGrant(g)'
      OBVIOUS
    <2>1. g.at <= now + 1
      BY GrantFields, RedisAssumption DEF IInv, TypeOK
    <2> QED
      BY <1>2, <2>1 DEF IInv, KeysOutliveGrant
  <1>6. SingleWinner'
    BY <1>2 DEF IInv, SingleWinner
  <1>7. JtisBelongToGrants'
    <2> SUFFICES ASSUME NEW j \in Jtis, jtiExp[j] > now + 1
                 PROVE  \E g \in grants : req[g.call].jti = j /\ g.at + Ttl = jtiExp[j]
      BY <1>2 DEF JtisBelongToGrants
    <2>1. jtiExp[j] > now
      BY RedisAssumption DEF IInv, TypeOK
    <2> QED
      BY <2>1 DEF IInv, JtisBelongToGrants
  <1> QED
    BY <1>1, <1>2, <1>3, <1>4, <1>5, <1>6, <1>7 DEF IInv

-----------------------------------------------------------------------------
(* The script.                                                             *)

(* It reserves only within the cap, with both keys unset, and for a        *)
(* lifetime that is positive.                                              *)
LEMMA OkMeansFree ==
  ASSUME NEW r, Verdict(r) = "ok"
  PROVE  Ttl # 0 /\ ~Over(r) /\ Unset(nonceExp[r.nonce]) /\ Unset(jtiExp[r.jti])
  BY RedisAssumption DEF Verdict

(* It sets the nonce only if that was not set.                             *)
LEMMA NonceWasUnset ==
  ASSUME NEW r, SetsNonce(Verdict(r))
  PROVE  Unset(nonceExp[r.nonce])
  BY RedisAssumption DEF Verdict, SetsNonce

(* It always returns one of the results.                                   *)
LEMMA VerdictIsResult == ASSUME NEW r PROVE Verdict(r) \in Results
  BY RedisAssumption DEF Verdict, Results

(* A script that refuses grants nothing and sets at most the nonce, which  *)
(* was not set: no key ends sooner than before.                            *)
LEMMA RefusalIInv ==
  ASSUME IInv, NEW c \in Calls, Run(c), Verdict(req[c]) # "ok"
  PROVE  IInv' /\ UNCHANGED <<now, grants, req, spend, spendExp>>
  <1> DEFINE r == req[c]
             v == Verdict(r)
  <1>1. r \in Requests /\ r.nonce \in Nonces
    BY RequestFields DEF IInv, CallFits, Run
  <1>2. UNCHANGED <<now, jtiExp, spend, spendExp, req, lost, grants>>
    BY DEF Run, Script, SetsJti
  <1>3. \/ nonceExp' = nonceExp
        \/ /\ Unset(nonceExp[r.nonce])
           /\ nonceExp' = [nonceExp EXCEPT ![r.nonce] = now + Ttl]
    BY NonceWasUnset DEF Run, Script
  <1>4. /\ pc' = [pc EXCEPT ![c] = "ran"]
        /\ result' = [result EXCEPT ![c] = v]
        /\ pc[c] = "sent"
    BY DEF Run, Script
  <1>5. TypeOK'
    BY <1>1, <1>2, <1>3, <1>4, VerdictIsResult, RedisAssumption DEF IInv, TypeOK
  <1>6. \A n \in Nonces : nonceExp'[n] >= nonceExp[n]
    BY <1>1, <1>3, RedisAssumption DEF IInv, TypeOK, Unset
  <1>7. ASSUME NEW d \in Calls PROVE CallFits(d)'
    BY <1>2, <1>4 DEF IInv, TypeOK, CallFits
  <1>8. ASSUME NEW g \in grants PROVE KeysOutliveGrant(g)'
    <2>1. /\ g.call \in Calls /\ req[g.call].nonce \in Nonces /\ g.at \in Nat
          /\ g.at + Ttl <= nonceExp[req[g.call].nonce]
      BY GrantFields
    <2>2. g.at + Ttl <= nonceExp'[req[g.call].nonce]
      BY <1>5, <1>6, <2>1, RedisAssumption DEF IInv, TypeOK
    <2>3. pc'[g.call] # "idle"
      BY <1>4, <2>1 DEF IInv, TypeOK, KeysOutliveGrant
    <2> QED
      BY <1>2, <2>2, <2>3 DEF IInv, KeysOutliveGrant
  <1>9. WithinCap' /\ SingleWinner' /\ JtisBelongToGrants'
    BY <1>2 DEF IInv, WithinCap, SingleWinner, JtisBelongToGrants
  <1> QED
    BY <1>2, <1>5, <1>7, <1>8, <1>9 DEF IInv

(* What a script that reserves does: both keys and the spend were checked, *)
(* and one reservation is added, at the present time.                      *)
LEMMA GrantAdds ==
  ASSUME IInv, NEW c \in Calls, Run(c), Verdict(req[c]) = "ok"
  PROVE  /\ req[c] \in Requests
         /\ req[c].nonce \in Nonces /\ req[c].jti \in Jtis
         /\ req[c].token \in Tokens \cup {NoToken} /\ req[c].amount \in Nat
         /\ Ttl \in Nat \ {0} /\ ~Over(req[c])
         /\ nonceExp[req[c].nonce] <= now /\ jtiExp[req[c].jti] <= now
         /\ pc[c] = "sent"
         /\ pc' = [pc EXCEPT ![c] = "ran"]
         /\ result' = [result EXCEPT ![c] = "ok"]
         /\ nonceExp' = [nonceExp EXCEPT ![req[c].nonce] = now + Ttl]
         /\ jtiExp' = [jtiExp EXCEPT ![req[c].jti] = now + Ttl]
         /\ grants' = grants \cup {[call |-> c, at |-> now]}
         /\ UNCHANGED <<now, req, lost>>
         /\ req[c].token # NoToken =>
              /\ spend' = [spend EXCEPT ![req[c].token] = Current(req[c].token) + req[c].amount]
              /\ spendExp' = [spendExp EXCEPT ![req[c].token] = now + Ttl]
         /\ req[c].token = NoToken => UNCHANGED <<spend, spendExp>>
  <1>1. req[c] \in Requests
    BY DEF IInv, CallFits, Run
  <1>2. Ttl \in Nat \ {0} /\ ~Over(req[c])
        /\ nonceExp[req[c].nonce] <= now /\ jtiExp[req[c].jti] <= now
    BY OkMeansFree, RedisAssumption DEF Unset
  <1> QED
    BY <1>1, <1>2, RequestFields DEF Run, Script, SetsNonce, SetsJti

(* A script that reserves: what was granted with the same keys has         *)
(* expired, and this call's keys now live for Ttl.                         *)
LEMMA GrantIInv ==
  ASSUME IInv, NEW c \in Calls, Run(c), Verdict(req[c]) = "ok"
  PROVE  IInv'
  <1> DEFINE r == req[c]
             new == [call |-> c, at |-> now]
  <1>1. /\ r \in Requests /\ r.nonce \in Nonces /\ r.jti \in Jtis
        /\ r.token \in Tokens \cup {NoToken} /\ r.amount \in Nat
    BY GrantAdds
  <1>2. Ttl \in Nat \ {0} /\ ~Over(r) /\ nonceExp[r.nonce] <= now /\ jtiExp[r.jti] <= now
    BY GrantAdds
  <1>3. /\ pc[c] = "sent"
        /\ pc' = [pc EXCEPT ![c] = "ran"]
        /\ result' = [result EXCEPT ![c] = "ok"]
        /\ nonceExp' = [nonceExp EXCEPT ![r.nonce] = now + Ttl]
        /\ jtiExp' = [jtiExp EXCEPT ![r.jti] = now + Ttl]
        /\ grants' = grants \cup {new}
        /\ UNCHANGED <<now, req, lost>>
    BY GrantAdds
  <1>4. /\ r.token # NoToken => /\ spend' = [spend EXCEPT ![r.token] = Current(r.token) + r.amount]
                                /\ spendExp' = [spendExp EXCEPT ![r.token] = now + Ttl]
        /\ r.token = NoToken => UNCHANGED <<spend, spendExp>>
    BY GrantAdds
  <1>5. now \in Nat /\ now \in 1..Horizon
    BY RedisAssumption DEF IInv, TypeOK
  <1>6. TypeOK'
    <2>1. now' \in 1..Horizon /\ grants' \subseteq [call : Calls, at : 1..Horizon] /\ now + Ttl \in Nat
      BY <1>2, <1>3, <1>5 DEF IInv, TypeOK
    <2>2. nonceExp' \in [Nonces -> Nat] /\ jtiExp' \in [Jtis -> Nat]
      BY <1>3, <2>1 DEF IInv, TypeOK
    <2>3. spend' \in [Tokens -> Nat] /\ spendExp' \in [Tokens -> Nat]
      BY <1>1, <1>4, <2>1 DEF IInv, TypeOK, Current
    <2>4. /\ req' \in [Calls -> Requests \cup {NoRequest}]
          /\ pc' \in [Calls -> {"idle", "sent", "ran", "answered"}]
          /\ result' \in [Calls -> Results]
          /\ lost' \in [Calls -> 0..MaxRetries + 1]
      BY <1>3 DEF IInv, TypeOK, Results
    <2> QED
      BY <2>1, <2>2, <2>3, <2>4 DEF TypeOK
  <1>7. WithinCap'
    BY <1>1, <1>2, <1>4, RedisAssumption DEF IInv, TypeOK, WithinCap, Over, Current
  <1>8. ASSUME NEW d \in Calls PROVE CallFits(d)'
    BY <1>3, RedisAssumption DEF IInv, TypeOK, CallFits
  <1>9. ASSUME NEW g \in grants
        PROVE  /\ g.call \in Calls /\ g.at \in Nat /\ g.at <= now
               /\ req[g.call].nonce \in Nonces /\ req[g.call].jti \in Jtis
               /\ req[g.call].token \in Tokens \cup {NoToken}
               /\ g.at + Ttl <= nonceExp[req[g.call].nonce]
               /\ g.at + Ttl <= jtiExp[req[g.call].jti]
    BY GrantFields
  <1>10. ASSUME NEW g \in grants \cup {new} PROVE KeysOutliveGrant(g)'
    <2>1. CASE g = new
      BY <2>1, <1>1, <1>2, <1>3, <1>4, <1>5 DEF IInv, TypeOK, KeysOutliveGrant
    <2>2. CASE g \in grants
      <3>1. pc'[g.call] # "idle" /\ g.at <= now'
        BY <2>2, <1>3, <1>9 DEF IInv, TypeOK, KeysOutliveGrant
      <3>2. /\ g.at + Ttl <= nonceExp'[req[g.call].nonce]
            /\ g.at + Ttl <= jtiExp'[req[g.call].jti]
        BY <2>2, <1>2, <1>3, <1>5, <1>9 DEF IInv, TypeOK
      <3>3. req[g.call].token # NoToken => g.at + Ttl <= spendExp'[req[g.call].token]
        <4>1. CASE req[g.call].token # NoToken /\ req[g.call].token = r.token
          BY <2>2, <4>1, <1>1, <1>2, <1>4, <1>5, <1>9 DEF IInv, TypeOK
        <4>2. CASE req[g.call].token # NoToken /\ req[g.call].token # r.token
          BY <2>2, <4>2, <1>1, <1>4, <1>9 DEF IInv, TypeOK, KeysOutliveGrant
        <4> QED
          BY <4>1, <4>2
      <3> QED
        BY <3>1, <3>2, <3>3, <1>3 DEF KeysOutliveGrant
    <2> QED
      BY <2>1, <2>2
  <1>11. SingleWinner'
    <2> SUFFICES ASSUME NEW g \in grants \cup {new}, NEW h \in grants \cup {new}, g # h,
                        g.at <= h.at,
                        \/ req[g.call].nonce = req[h.call].nonce
                        \/ req[g.call].jti = req[h.call].jti
                 PROVE  h.at >= g.at + Ttl
      BY <1>3 DEF SingleWinner
    <2>1. CASE g \in grants /\ h \in grants
      BY <2>1 DEF IInv, SingleWinner
    <2>2. CASE g \in grants /\ h = new
      BY <2>2, <1>1, <1>2, <1>5, <1>9 DEF IInv, TypeOK
    <2>3. CASE g = new /\ h \in grants
      <3>1. h.at + Ttl <= now
        BY <2>3, <1>1, <1>2, <1>5, <1>9 DEF IInv, TypeOK
      <3> QED
        BY <2>3, <3>1, <1>2, <1>5, <1>9
    <2> QED
      BY <2>1, <2>2, <2>3
  <1>12. JtisBelongToGrants'
    <2> SUFFICES ASSUME NEW j \in Jtis, jtiExp'[j] > now
                 PROVE  \E g \in grants \cup {new} :
                          req[g.call].jti = j /\ g.at + Ttl = jtiExp'[j]
      BY <1>3 DEF JtisBelongToGrants
    <2>1. CASE j = r.jti
      <3>1. new.call = c /\ new.at = now
        OBVIOUS
      <3>2. jtiExp'[j] = now + Ttl
        BY <2>1, <1>1, <1>3 DEF IInv, TypeOK
      <3> HIDE DEF new
      <3> QED
        BY <2>1, <3>1, <3>2
    <2>2. CASE j # r.jti
      <3>1. jtiExp'[j] = jtiExp[j]
        BY <2>2, <1>1, <1>3 DEF IInv, TypeOK
      <3>2. PICK g \in grants : req[g.call].jti = j /\ g.at + Ttl = jtiExp[j]
        BY <3>1 DEF IInv, JtisBelongToGrants
      <3> QED
        BY <3>1, <3>2
    <2> QED
      BY <2>1, <2>2
  <1> QED
    BY <1>3, <1>6, <1>7, <1>8, <1>10, <1>11, <1>12 DEF IInv

LEMMA NextIInv == IInv /\ [Next]_vars => IInv'
  <1> SUFFICES ASSUME IInv, [Next]_vars PROVE IInv'
    OBVIOUS
  <1>1. ASSUME NEW c \in Calls, NEW r \in Requests, Send(c, r) PROVE IInv'
    BY <1>1, SendIInv
  <1>2. ASSUME NEW c \in Calls, Run(c) PROVE IInv'
    BY <1>2, RefusalIInv, GrantIInv
  <1>3. ASSUME NEW c \in Calls, Answer(c) PROVE IInv'
    BY <1>3, AnswerIInv
  <1>4. ASSUME NEW c \in Calls, LoseConnection(c) PROVE IInv'
    BY <1>4, LoseConnectionIInv
  <1>5. CASE Tick
    BY <1>5, TickIInv
  <1>6. CASE UNCHANGED vars
    BY <1>6 DEF vars, keys, IInv, TypeOK, WithinCap, CallFits, KeysOutliveGrant,
                SingleWinner, JtisBelongToGrants
  <1> QED
    BY <1>1, <1>2, <1>3, <1>4, <1>5, <1>6 DEF Next

(* What the script keeps true of the keys, the spend and the calls, in     *)
(* every reachable state.                                                  *)
THEOREM Inductive == Spec => []IInv
  BY InitIInv, NextIInv, PTL DEF Spec

(* Two reservations of one nonce, or of one jti, are at least a lifetime   *)
(* apart, whatever connections are lost and commands resent.               *)
THEOREM ReservationsApart == Spec => []SingleWinner
  BY Inductive, PTL DEF IInv

(* The jti key of a credential exists only because a call was granted with *)
(* it: a refused call never burns the credential it presented.             *)
THEOREM RefusalsKeepCredential == Spec => []JtisBelongToGrants
  BY Inductive, PTL DEF IInv

(* The spend key of a token never exceeds the token's cap.                 *)
THEOREM CapHolds == Spec => []WithinCap
  BY Inductive, PTL DEF IInv

-----------------------------------------------------------------------------
(* Errors.                                                                 *)

(* An answer that is an error was given to a call that lost a connection,  *)
(* and so was one that is on its way.                                      *)
ErrorFits(c) ==
  pc[c] \in {"ran", "answered"} /\ result[c] = "error" => lost[c] > 0

(* With a positive lifetime the script itself never fails: only the        *)
(* connection does.  A ttl of 0 breaks this, and so the route.             *)
THEOREM PositiveTtlAnswers ==
  ASSUME Ttl # 0
  PROVE  Spec => []ErrorsAreFaults
  <1> DEFINE Inv == IInv /\ \A c \in Calls : ErrorFits(c)
  <1>1. Init => Inv
    BY InitIInv DEF Init, ErrorFits
  <1>2. Inv /\ [Next]_vars => Inv'
    <2> SUFFICES ASSUME Inv, [Next]_vars, NEW d \in Calls PROVE ErrorFits(d)'
      BY NextIInv
    <2>1. ASSUME NEW c \in Calls, NEW r \in Requests, Send(c, r) PROVE ErrorFits(d)'
      BY <2>1 DEF Send, ErrorFits, IInv, TypeOK
    <2>2. ASSUME NEW c \in Calls, Run(c) PROVE ErrorFits(d)'
      <3>1. Verdict(req[c]) # "error"
        BY RedisAssumption DEF Verdict
      <3> QED
        BY <2>2, <3>1 DEF Run, Script, ErrorFits, IInv, TypeOK
    <2>3. ASSUME NEW c \in Calls, Answer(c) PROVE ErrorFits(d)'
      BY <2>3 DEF Answer, ErrorFits, IInv, TypeOK
    <2>4. ASSUME NEW c \in Calls, LoseConnection(c) PROVE ErrorFits(d)'
      BY <2>4, RedisAssumption DEF LoseConnection, ErrorFits, IInv, TypeOK
    <2>5. CASE Tick
      BY <2>5 DEF Tick, ErrorFits
    <2>6. CASE UNCHANGED vars
      BY <2>6 DEF vars, ErrorFits
    <2> QED
      BY <2>1, <2>2, <2>3, <2>4, <2>5, <2>6 DEF Next
  <1>3. Inv => ErrorsAreFaults
    BY DEF ErrorsAreFaults, ErrorFits
  <1> QED
    BY <1>1, <1>2, <1>3, PTL DEF Spec

-----------------------------------------------------------------------------
(* The sum.  The cents of a token's reservations are a finite set that     *)
(* only a granting script extends; while the spend key lives, no           *)
(* reservation that is alive was made before the key was started.          *)

AliveOn(t) == {g \in GrantsOn(t) : Alive(g)}

SumsFit == \A t \in Tokens :
  /\ IsFiniteSet(Cents(GrantsOn(t)))
  /\ spendExp[t] > now => /\ spend[t] <= Cardinality(Cents(GrantsOn(t)))
                          /\ spend[t] >= Cardinality(Cents(AliveOn(t)))

(* Adding k fresh cents of one reservation makes a set k larger.                  *)
LEMMA AddCents ==
  ASSUME NEW S, NEW g, NEW k \in Nat, IsFiniteSet(S), S \cap ({g} \X (1..k)) = {}
  PROVE  /\ IsFiniteSet(S \cup ({g} \X (1..k)))
         /\ Cardinality(S \cup ({g} \X (1..k))) = Cardinality(S) + k
  <1>1. IsFiniteSet({g}) /\ Cardinality({g}) = 1
    BY FS_Singleton
  <1>2. IsFiniteSet(1..k) /\ Cardinality(1..k) = k
    BY FS_Interval
  <1>3. IsFiniteSet({g} \X (1..k)) /\ Cardinality({g} \X (1..k)) = k
    <2>1. /\ IsFiniteSet({g} \X (1..k))
          /\ Cardinality({g} \X (1..k)) = Cardinality({g}) * Cardinality(1..k)
      BY <1>1, <1>2, FS_Product
    <2> QED
      BY <1>1, <1>2, <2>1
  <1>4. Cardinality(S) \in Nat
    BY FS_CardinalityType
  <1>5. /\ IsFiniteSet(S \cup ({g} \X (1..k)))
        /\ Cardinality(S \cup ({g} \X (1..k)))
           = Cardinality(S) + Cardinality({g} \X (1..k)) - Cardinality(S \cap ({g} \X (1..k)))
    BY <1>3, FS_Union
  <1>6. Cardinality(S \cap ({g} \X (1..k))) = 0
    BY FS_EmptySet
  <1> QED
    BY <1>3, <1>4, <1>5, <1>6

(* The cents of fewer reservations are no more.                            *)
LEMMA FewerCents ==
  ASSUME NEW G, NEW H, H \subseteq G, IsFiniteSet(Cents(G))
  PROVE  /\ IsFiniteSet(Cents(H))
         /\ Cardinality(Cents(H)) \in Nat /\ Cardinality(Cents(G)) \in Nat
         /\ Cardinality(Cents(H)) <= Cardinality(Cents(G))
  <1>1. Cents(H) \in SUBSET Cents(G)
    BY DEF Cents
  <1>2. IsFiniteSet(Cents(H)) /\ Cardinality(Cents(H)) <= Cardinality(Cents(G))
    BY <1>1, FS_Subset
  <1> QED
    BY <1>2, FS_CardinalityType

(* One more reservation adds its amount.                                   *)
LEMMA OneMoreGrant ==
  ASSUME NEW G, NEW g, g \notin G, IsFiniteSet(Cents(G)), req[g.call].amount \in Nat
  PROVE  /\ IsFiniteSet(Cents(G \cup {g}))
         /\ Cardinality(Cents(G \cup {g})) = Cardinality(Cents(G)) + req[g.call].amount
  <1>1. PICK k \in Nat : k = req[g.call].amount
    OBVIOUS
  <1>2. PICK S : S = Cents(G)
    OBVIOUS
  <1>3. Cents(G \cup {g}) = S \cup ({g} \X (1..k))
    BY <1>1, <1>2 DEF Cents
  <1>4. S \cap ({g} \X (1..k)) = {}
    BY <1>2 DEF Cents
  <1>5. /\ IsFiniteSet(S \cup ({g} \X (1..k)))
        /\ Cardinality(S \cup ({g} \X (1..k))) = Cardinality(S) + k
    <2>1. IsFiniteSet(S)
      BY <1>2
    <2> QED
      BY ONLY <1>4, <2>1, k \in Nat, AddCents
  <1> QED
    BY <1>1, <1>2, <1>3, <1>5

LEMMA InitSums == Init => SumsFit
  <1> SUFFICES ASSUME Init, NEW t \in Tokens
               PROVE  IsFiniteSet(Cents(GrantsOn(t))) /\ ~(spendExp[t] > now)
    BY DEF SumsFit
  <1>1. Cents(GrantsOn(t)) = {} /\ spendExp[t] = 0 /\ now = 1
    BY DEF Init, Cents, GrantsOn
  <1> QED
    BY <1>1, FS_EmptySet

(* A step that reserves nothing and changes neither the clock nor what a   *)
(* reservation names.                                                      *)
LEMMA NothingReserved ==
  ASSUME SumsFit, UNCHANGED <<now, grants, spend, spendExp>>,
         \A g \in grants : req'[g.call] = req[g.call]
  PROVE  SumsFit'
  <1>1. ASSUME NEW t \in Tokens
        PROVE  GrantsOn(t)' = GrantsOn(t) /\ AliveOn(t)' = AliveOn(t)
               /\ Cents(GrantsOn(t))' = Cents(GrantsOn(t))
               /\ Cents(AliveOn(t))' = Cents(AliveOn(t))
    BY DEF GrantsOn, AliveOn, Alive, Cents
  <1> QED
    BY <1>1 DEF SumsFit

(* Time only ends reservations and keys.                                   *)
LEMMA TickSums ==
  ASSUME IInv, SumsFit, Tick
  PROVE  SumsFit'
  <1> SUFFICES ASSUME NEW t \in Tokens
               PROVE  /\ IsFiniteSet(Cents(GrantsOn(t)))'
                      /\ spendExp'[t] > now' =>
                           /\ spend'[t] <= Cardinality(Cents(GrantsOn(t)))'
                           /\ spend'[t] >= Cardinality(Cents(AliveOn(t)))'
    BY DEF SumsFit
  <1>1. now' = now + 1 /\ UNCHANGED <<grants, req, spend, spendExp>>
    BY DEF Tick, keys
  <1>2. now \in Nat /\ spendExp[t] \in Nat /\ spend[t] \in Nat
    BY RedisAssumption DEF IInv, TypeOK
  <1>3. \A g \in grants : g.at \in Nat
    BY GrantFields
  <1>4. GrantsOn(t)' = GrantsOn(t) /\ Cents(GrantsOn(t))' = Cents(GrantsOn(t))
    BY <1>1 DEF GrantsOn, Cents
  <1>5. PICK H : H = AliveOn(t)'
    OBVIOUS
  <1>6. H \subseteq AliveOn(t) /\ AliveOn(t) \subseteq GrantsOn(t)
    BY <1>1, <1>2, <1>3, <1>5, RedisAssumption DEF AliveOn, Alive, GrantsOn
  <1>7. Cents(AliveOn(t))' = Cents(H)
    BY <1>1, <1>5 DEF Cents
  <1>8. IsFiniteSet(Cents(GrantsOn(t))) /\ IsFiniteSet(Cents(AliveOn(t)))
    BY <1>6, FewerCents DEF SumsFit
  <1>9. /\ Cardinality(Cents(H)) <= Cardinality(Cents(AliveOn(t)))
        /\ Cardinality(Cents(H)) \in Nat /\ Cardinality(Cents(AliveOn(t))) \in Nat
    BY <1>6, <1>8, FewerCents
  <1>10. spendExp'[t] > now' => spendExp[t] > now
    BY <1>1, <1>2
  <1> QED
    BY <1>1, <1>2, <1>4, <1>7, <1>8, <1>9, <1>10 DEF SumsFit

(* A script that reserves adds its amount to a live key, or starts the key *)
(* again, when no earlier reservation of the token is alive.               *)
LEMMA GrantSums ==
  ASSUME IInv, SumsFit, NEW c \in Calls, Run(c), Verdict(req[c]) = "ok"
  PROVE  SumsFit'
  <1>1. PICK g : g = [call |-> c, at |-> now]
    OBVIOUS
  <1>2. PICK a : a = req[c].amount
    OBVIOUS
  <1>3. /\ a \in Nat /\ grants' = grants \cup {g} /\ now' = now /\ req' = req
        /\ req[c].token \in Tokens \cup {NoToken}
        /\ Ttl \in Nat \ {0} /\ nonceExp[req[c].nonce] <= now
        /\ req[c].token # NoToken =>
              /\ spend' = [spend EXCEPT ![req[c].token] = Current(req[c].token) + a]
              /\ spendExp' = [spendExp EXCEPT ![req[c].token] = now + Ttl]
        /\ req[c].token = NoToken => UNCHANGED <<spend, spendExp>>
        /\ req[c].nonce \in Nonces
    BY <1>1, <1>2, GrantAdds
  <1>4. g.call = c /\ g.at = now /\ req[g.call].amount = a
    BY <1>1, <1>2
  <1>5. now \in Nat /\ \A n \in Nonces : nonceExp[n] \in Nat
    BY RedisAssumption DEF IInv, TypeOK
  <1>6. g \notin grants
    BY <1>3, <1>4, <1>5, GrantFields
  <1> SUFFICES ASSUME NEW t \in Tokens
               PROVE  /\ IsFiniteSet(Cents(GrantsOn(t)))'
                      /\ spendExp'[t] > now' =>
                           /\ spend'[t] <= Cardinality(Cents(GrantsOn(t)))'
                           /\ spend'[t] >= Cardinality(Cents(AliveOn(t)))'
    BY DEF SumsFit
  <1>7. PICK G : G = GrantsOn(t)
    OBVIOUS
  <1>8. PICK A : A = AliveOn(t)
    OBVIOUS
  <1>9. /\ spend \in [Tokens -> Nat] /\ spendExp \in [Tokens -> Nat]
        /\ g \notin G /\ A \subseteq G
    BY <1>6, <1>7, <1>8 DEF IInv, TypeOK, GrantsOn, AliveOn
  <1>10. /\ IsFiniteSet(Cents(G)) /\ IsFiniteSet(Cents(A))
         /\ Cardinality(Cents(G)) \in Nat /\ Cardinality(Cents(A)) \in Nat
         /\ spendExp[t] > now => /\ spend[t] <= Cardinality(Cents(G))
                                 /\ spend[t] >= Cardinality(Cents(A))
    BY <1>7, <1>8, <1>9, FewerCents DEF SumsFit
  <1>11. CASE req[c].token = t
    <2>1. spend'[t] = Current(t) + a /\ spendExp'[t] = now + Ttl
      BY <1>3, <1>9, <1>11, RedisAssumption
    <2>2. GrantsOn(t)' = G \cup {g} /\ AliveOn(t)' = A \cup {g}
      BY <1>3, <1>4, <1>5, <1>7, <1>8, <1>11 DEF GrantsOn, AliveOn, Alive
    <2>3. /\ Cents(GrantsOn(t))' = Cents(G \cup {g})
          /\ Cents(AliveOn(t))' = Cents(A \cup {g})
      BY <1>3, <2>2 DEF Cents
    <2>4. /\ IsFiniteSet(Cents(G \cup {g}))
          /\ Cardinality(Cents(G \cup {g})) = Cardinality(Cents(G)) + a
      BY <1>3, <1>4, <1>9, <1>10, OneMoreGrant
    <2>5. Cardinality(Cents(A \cup {g})) = Cardinality(Cents(A)) + a
      BY <1>3, <1>4, <1>9, <1>10, OneMoreGrant
    <2>6. CASE spendExp[t] > now
      BY <1>3, <1>9, <1>10, <2>1, <2>3, <2>4, <2>5, <2>6 DEF Current
    <2>7. CASE ~(spendExp[t] > now)
      <3>1. A = {}
        <4>1. ASSUME NEW h \in A PROVE FALSE
          <5>1. /\ h \in grants /\ req[h.call].token = t /\ h.at + Ttl > now
            BY <4>1, <1>8 DEF AliveOn, GrantsOn, Alive
          <5>2. h.at + Ttl <= spendExp[t] /\ h.at \in Nat
            BY <5>1, GrantFields, RedisAssumption DEF IInv, KeysOutliveGrant
          <5> QED
            BY <5>1, <5>2, <2>7, <1>3, <1>5, <1>9
        <4> QED
          BY <4>1
      <3>2. Cardinality(Cents(A)) = 0
        BY <3>1, FS_EmptySet DEF Cents
      <3> QED
        BY <1>3, <1>9, <1>10, <2>1, <2>3, <2>4, <2>5, <2>7, <3>2 DEF Current
    <2> QED
      BY <2>6, <2>7
  <1>12. CASE req[c].token # t
    <2>1. spend'[t] = spend[t] /\ spendExp'[t] = spendExp[t]
      BY <1>3, <1>9, <1>12
    <2>2. GrantsOn(t)' = G /\ AliveOn(t)' = A
      BY <1>3, <1>4, <1>7, <1>8, <1>12 DEF GrantsOn, AliveOn, Alive
    <2>3. Cents(GrantsOn(t))' = Cents(G) /\ Cents(AliveOn(t))' = Cents(A)
      BY <1>3, <2>2 DEF Cents
    <2> QED
      BY <1>3, <1>10, <2>1, <2>3
  <1> QED
    BY <1>11, <1>12

LEMMA NextSums == IInv /\ SumsFit /\ [Next]_vars => SumsFit'
  <1> SUFFICES ASSUME IInv, SumsFit, [Next]_vars PROVE SumsFit'
    OBVIOUS
  <1>1. ASSUME NEW c \in Calls, NEW r \in Requests, Send(c, r) PROVE SumsFit'
    <2>1. \A g \in grants : req'[g.call] = req[g.call]
      BY <1>1 DEF Send, IInv, TypeOK, KeysOutliveGrant
    <2> QED
      BY <1>1, <2>1, NothingReserved DEF Send, keys
  <1>2. ASSUME NEW c \in Calls, Run(c), Verdict(req[c]) # "ok" PROVE SumsFit'
    BY <1>2, RefusalIInv, NothingReserved
  <1>3. ASSUME NEW c \in Calls, Run(c), Verdict(req[c]) = "ok" PROVE SumsFit'
    BY <1>3, GrantSums
  <1>4. ASSUME NEW c \in Calls, Answer(c) \/ LoseConnection(c) PROVE SumsFit'
    BY <1>4, NothingReserved DEF Answer, LoseConnection, keys
  <1>5. CASE Tick
    BY <1>5, TickSums
  <1>6. CASE UNCHANGED vars
    BY <1>6, NothingReserved DEF vars, keys
  <1> QED
    BY <1>1, <1>2, <1>3, <1>4, <1>5, <1>6 DEF Next

(* While the spend key of a token lives it is within the cap, covers every *)
(* reservation made in the last lifetime and counts no debit that was not  *)
(* a reservation, for any number of calls, resends and lifetimes.          *)
THEOREM SpendCoversGrants == Spec => []SpendIsSumOfGrants
  <1>1. IInv /\ SumsFit => SpendIsSumOfGrants
    BY DEF IInv, WithinCap, SumsFit, SpendIsSumOfGrants, AliveOn
  <1>2. Spec => [](IInv /\ SumsFit)
    BY InitSums, NextSums, Inductive, PTL DEF Spec
  <1> QED
    BY <1>1, <1>2, PTL

=============================================================================
