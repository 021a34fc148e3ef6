--------------------------- MODULE ExecutionLedger ---------------------------
(***************************************************************************)
(* What POST /v1/execute needs from the store that reserves an execution:  *)
(* every intent nonce and every action-token jti is consumed at most once, *)
(* a delegation token never spends more than its cap, and each reservation *)
(* takes effect as one atomic step or not at all.                          *)
(*                                                                         *)
(* The contract is the one execute() relies on when it turns the store's   *)
(* answer into "executed", "replay" or "budget_exceeded".  PgReservation   *)
(* is shown to implement it; RedisReservation cannot, its keys expire.     *)
(***************************************************************************)
EXTENDS Integers

CONSTANTS
  Calls,      \* reservation attempts, over the whole life of the store
  Requests,   \* what an attempt may carry: records [nonce, jti, token, amount]
  Tokens,     \* delegation tokens
  NoToken,    \* the request has no delegation token (tokenId null)
  NoRequest,  \* the attempt has not been made yet
  Limit       \* Limit[t]: the spend cap of token t

VARIABLES
  request,    \* request[c]: what attempt c carries
  verdict,    \* verdict[c]: the answer execute() receives for attempt c
  granted,    \* the attempts that reserved an execution
  nonces,     \* intent nonces consumed
  jtis,       \* action-token jtis consumed
  spent       \* spent[t]: cents debited from token t

vars == <<request, verdict, granted, nonces, jtis, spent>>

Verdicts == {"none", "ok", "nonce_replay", "jti_replay", "budget_exceeded", "error"}

TypeOK ==
  /\ request \in [Calls -> Requests \cup {NoRequest}]
  /\ verdict \in [Calls -> Verdicts]
  /\ granted \subseteq Calls
  /\ nonces \subseteq {r.nonce : r \in Requests}
  /\ jtis \subseteq {r.jti : r \in Requests}
  /\ spent \in [Tokens -> Nat]

Init ==
  /\ request = [c \in Calls |-> NoRequest]
  /\ verdict = [c \in Calls |-> "none"]
  /\ granted = {}
  /\ nonces = {}
  /\ jtis = {}
  /\ spent = [t \in Tokens |-> 0]

Pending(c) == request[c] # NoRequest /\ verdict[c] = "none"

(* An attempt whose arguments are invalid is answered at once.             *)
Submit(c, r, v) ==
  /\ request[c] = NoRequest
  /\ v \in {"none", "error"}
  /\ request' = [request EXCEPT ![c] = r]
  /\ verdict' = [verdict EXCEPT ![c] = v]
  /\ UNCHANGED <<granted, nonces, jtis, spent>>

Affordable(r) ==
  /\ r.amount \in Nat
  /\ r.token # NoToken => spent[r.token] + r.amount <= Limit[r.token]

(***************************************************************************)
(* The whole reservation: nonce, jti and debit together.  The answer may   *)
(* still be lost on the way back ("error"): the execution is reserved, and *)
(* the caller does not know.                                               *)
(***************************************************************************)
Grant(c, v) ==
  LET r == request[c] IN
  /\ Pending(c)
  /\ v \in {"ok", "error"}
  /\ r.nonce \notin nonces
  /\ r.jti \notin jtis
  /\ Affordable(r)
  /\ granted' = granted \cup {c}
  /\ nonces' = nonces \cup {r.nonce}
  /\ jtis' = jtis \cup {r.jti}
  /\ spent' = IF r.token = NoToken THEN spent
              ELSE [spent EXCEPT ![r.token] = @ + r.amount]
  /\ verdict' = [verdict EXCEPT ![c] = v]
  /\ UNCHANGED request

Refusable(c, v) ==
  LET r == request[c] IN
  /\ v = "nonce_replay" => r.nonce \in nonces
  /\ v = "jti_replay" => r.jti \in jtis
  /\ v = "budget_exceeded" => ~Affordable(r)

(* A refusal states a fact about the ledger and leaves the budget alone;   *)
(* it may burn the attempt's own nonce, which only ever refuses more.      *)
Refuse(c, v) ==
  /\ Pending(c)
  /\ v \in {"nonce_replay", "jti_replay", "budget_exceeded", "error"}
  /\ Refusable(c, v)
  /\ \E burnt \in SUBSET {request[c].nonce} : nonces' = nonces \cup burnt
  /\ verdict' = [verdict EXCEPT ![c] = v]
  /\ UNCHANGED <<request, granted, jtis, spent>>

Next ==
  \E c \in Calls :
    \/ \E r \in Requests, v \in Verdicts : Submit(c, r, v)
    \/ \E v \in Verdicts : Grant(c, v)
    \/ \E v \in Verdicts : Refuse(c, v)

Spec == Init /\ [][Next]_vars

=============================================================================
