--------------------------- MODULE RedisReservation ---------------------------
(***************************************************************************)
(* RedisStore.checkAndDebitExecution: one Lua script reserves the nonce,   *)
(* the jti and the spend in one atomic step, but every key it sets has a   *)
(* lifetime, and the client library resends a command whose answer was     *)
(* lost: a script that already ran then runs again.                        *)
(***************************************************************************)
EXTENDS Integers, FiniteSets

CONSTANTS
  Calls,       \* calls of checkAndDebitExecution, from any number of gateways
  Requests,    \* their arguments: records [nonce, jti, token, amount]
  Tokens,      \* delegation tokens (keys token-spend:<id>)
  NoToken,     \* tokenId null: hasBudget is '0'
  NoRequest,   \* the call has not been made yet
  Limit,       \* Limit[t]: limitCents
  Ttl,         \* the ttl argument
  MaxRetries,  \* maxRetriesPerRequest
  Horizon      \* bound on the clock

ASSUME RedisAssumption ==
  /\ NoToken \notin Tokens /\ NoRequest \notin Requests
  /\ \A r \in Requests : r.amount \in Nat /\ r.token \in Tokens \cup {NoToken}
  /\ Limit \in [Tokens -> Nat]
  /\ Ttl \in Nat /\ MaxRetries \in Nat /\ Horizon \in Nat \ {0}

Nonces == {r.nonce : r \in Requests}
Jtis == {r.jti : r \in Requests}

VARIABLES
  now,       \* Redis's clock
  nonceExp,  \* nonceExp[n]: when key nonce:<n> expires; 0 when it was never set
  jtiExp,    \* the same for action:jti:<j>
  spend,     \* spend[t]: the value of token-spend:<t>
  spendExp,  \* spendExp[t]: when that key expires
  req,       \* req[c]: the arguments of call c
  pc,        \* "idle", "sent", "ran" (the answer is on its way), "answered"
  result,    \* result[c]: what the script returned to call c
  lost,      \* lost[c]: connections call c has lost
  grants     \* the reservations the script has made: records [call, at]

vars == <<now, nonceExp, jtiExp, spend, spendExp, req, pc, result, lost, grants>>
keys == <<nonceExp, jtiExp, spend, spendExp>>

Results == {"none", "ok", "nonce_replay", "jti_replay", "budget_exceeded", "error"}

TypeOK ==
  /\ now \in 1..Horizon
  /\ nonceExp \in [Nonces -> Nat] /\ jtiExp \in [Jtis -> Nat]
  /\ spend \in [Tokens -> Nat] /\ spendExp \in [Tokens -> Nat]
  /\ req \in [Calls -> Requests \cup {NoRequest}]
  /\ pc \in [Calls -> {"idle", "sent", "ran", "answered"}]
  /\ result \in [Calls -> Results]
  /\ lost \in [Calls -> 0..MaxRetries + 1]
  /\ grants \subseteq [call : Calls, at : 1..Horizon]

Init ==
  /\ now = 1
  /\ nonceExp = [n \in Nonces |-> 0] /\ jtiExp = [j \in Jtis |-> 0]
  /\ spend = [t \in Tokens |-> 0] /\ spendExp = [t \in Tokens |-> 0]
  /\ req = [c \in Calls |-> NoRequest]
  /\ pc = [c \in Calls |-> "idle"]
  /\ result = [c \in Calls |-> "none"]
  /\ lost = [c \in Calls |-> 0]
  /\ grants = {}

-----------------------------------------------------------------------------
Send(c, r) ==
  /\ pc[c] = "idle"
  /\ req' = [req EXCEPT ![c] = r]
  /\ pc' = [pc EXCEPT ![c] = "sent"]
  /\ UNCHANGED <<now, keys, result, lost, grants>>

(* GET token-spend: an expired key reads as 0.                             *)
Current(t) == IF spendExp[t] > now THEN spend[t] ELSE 0

(* Mutant: what is spent is compared with the cap, without the amount.     *)
OverBefore(r) == r.token # NoToken /\ Current(r.token) > Limit[r.token]

Over(r) == r.token # NoToken /\ Current(r.token) + r.amount > Limit[r.token]

(* Mutant: SET ... EX without NX.                                          *)
UnsetWithoutNx(exp) == TRUE

(* SET ... EX ttl NX finds no live key.                                    *)
Unset(exp) == exp <= now

(* SET with an expiry of 0 raises an error, and the script with it.        *)
Verdict(r) ==
  CASE Over(r) -> "budget_exceeded"
    [] ~Over(r) /\ Ttl = 0 -> "error"
    [] ~Over(r) /\ Ttl > 0 /\ ~Unset(nonceExp[r.nonce]) -> "nonce_replay"
    [] ~Over(r) /\ Ttl > 0 /\ Unset(nonceExp[r.nonce]) ->
         IF Unset(jtiExp[r.jti]) THEN "ok" ELSE "jti_replay"

(* Mutant: the budget is read after the two keys are set.                  *)
SetsJtiBudgetLast(v) == v \in {"ok", "budget_exceeded"}

SetsJti(v) == v = "ok"

(* The jti is tried after the nonce is set: a nonce presented with a used  *)
(* credential stays consumed.                                              *)
SetsNonce(v) == v \in {"ok", "jti_replay"}

(* The script.  Every debit renews the lifetime of the spend key.          *)
Script(c) ==
  LET r == req[c]
      v == Verdict(r)
  IN
  /\ result' = [result EXCEPT ![c] = v]
  /\ nonceExp' = IF SetsNonce(v) THEN [nonceExp EXCEPT ![r.nonce] = now + Ttl] ELSE nonceExp
  /\ jtiExp' = IF SetsJti(v) THEN [jtiExp EXCEPT ![r.jti] = now + Ttl] ELSE jtiExp
  /\ grants' = IF v = "ok" THEN grants \cup {[call |-> c, at |-> now]} ELSE grants
  /\ IF v = "ok" /\ r.token # NoToken
       THEN /\ spend' = [spend EXCEPT ![r.token] = Current(r.token) + r.amount]
            /\ spendExp' = [spendExp EXCEPT ![r.token] = now + Ttl]
       ELSE UNCHANGED <<spend, spendExp>>

Run(c) ==
  /\ pc[c] = "sent"
  /\ Script(c)
  /\ pc' = [pc EXCEPT ![c] = "ran"]
  /\ UNCHANGED <<now, req, lost>>

Answer(c) ==
  /\ pc[c] = "ran"
  /\ pc' = [pc EXCEPT ![c] = "answered"]
  /\ UNCHANGED <<now, keys, req, result, lost, grants>>

(* Mutant: one resend too many.                                            *)
LoseConnectionOnceMore(c) ==
  /\ pc[c] \in {"sent", "ran"}
  /\ lost' = [lost EXCEPT ![c] = @ + 1]
  /\ pc' = [pc EXCEPT ![c] = IF lost[c] <= MaxRetries THEN "sent" ELSE "answered"]
  /\ result' = [result EXCEPT ![c] = IF lost[c] <= MaxRetries THEN "none" ELSE "error"]
  /\ UNCHANGED <<now, keys, req, grants>>

(* The connection is lost, before the script ran or after: the client      *)
(* reconnects and sends the command again, MaxRetries times.               *)
LoseConnection(c) ==
  /\ pc[c] \in {"sent", "ran"}
  /\ lost' = [lost EXCEPT ![c] = @ + 1]
  /\ IF lost[c] < MaxRetries
       THEN /\ pc' = [pc EXCEPT ![c] = "sent"]
            /\ result' = [result EXCEPT ![c] = "none"]
       ELSE /\ pc' = [pc EXCEPT ![c] = "answered"]
            /\ result' = [result EXCEPT ![c] = "error"]
  /\ UNCHANGED <<now, keys, req, grants>>

Tick ==
  /\ now < Horizon
  /\ now' = now + 1
  /\ UNCHANGED <<keys, req, pc, result, lost, grants>>

Next ==
  \/ \E c \in Calls :
       \/ \E r \in Requests : Send(c, r)
       \/ Run(c) \/ Answer(c) \/ LoseConnection(c)
  \/ Tick

Spec == Init /\ [][Next]_vars

-----------------------------------------------------------------------------
(* Properties.                                                             *)

(* Two reservations of one nonce or one jti are at least a lifetime apart, *)
(* whatever is resent: within it, every execution has a single winner, and *)
(* a call that is resent is not reserved again.                            *)
SingleWinner ==
  \A g, h \in grants :
    /\ g # h /\ g.at <= h.at
    /\ \/ req[g.call].nonce = req[h.call].nonce
       \/ req[g.call].jti = req[h.call].jti
    => h.at >= g.at + Ttl

(* A call whose connection held was answered by the script, and a script   *)
(* that is sound answers with a reservation or a reason, never an error.   *)
ErrorsAreFaults ==
  \A c \in Calls : pc[c] = "answered" /\ result[c] = "error" => lost[c] > 0

(* A refused call leaves the credential alone, however often it is resent: *)
(* the jti of a live key belongs to the call that was granted with it.     *)
JtisBelongToGrants ==
  \A j \in Jtis : jtiExp[j] > now =>
    \E g \in grants : req[g.call].jti = j /\ g.at + Ttl = jtiExp[j]

(* The cents of the reservations in G, one by one: <<g, k>> is cent k of   *)
(* the amount of g.                                                        *)
Cents(G) == UNION {{g} \X (1..req[g.call].amount) : g \in G}

GrantsOn(t) == {g \in grants : req[g.call].token = t}
Alive(g) == g.at + Ttl > now

(* The spend key covers every reservation made within a lifetime, counts   *)
(* none that was not made, none twice, and never exceeds the cap: a resent *)
(* script debits nothing without reserving.                                *)
SpendIsSumOfGrants ==
  \A t \in Tokens :
    spendExp[t] > now =>
      /\ spend[t] <= Limit[t]
      /\ spend[t] <= Cardinality(Cents(GrantsOn(t)))
      /\ spend[t] >= Cardinality(Cents({g \in GrantsOn(t) : Alive(g)}))

-----------------------------------------------------------------------------
(* The inductive invariant.                                                *)

CallFits(c) ==
  /\ pc[c] # "idle" => req[c] \in Requests
  /\ pc[c] # "answered" => lost[c] <= MaxRetries

(* The keys of a reservation live for Ttl from the time it was made.       *)
KeysOutliveGrant(g) ==
  /\ pc[g.call] # "idle" /\ g.at <= now
  /\ g.at + Ttl <= nonceExp[req[g.call].nonce]
  /\ g.at + Ttl <= jtiExp[req[g.call].jti]
  /\ req[g.call].token # NoToken => g.at + Ttl <= spendExp[req[g.call].token]

WithinCap == \A t \in Tokens : spend[t] <= Limit[t]

IInv ==
  /\ TypeOK /\ WithinCap
  /\ \A c \in Calls : CallFits(c)
  /\ \A g \in grants : KeysOutliveGrant(g)
  /\ SingleWinner /\ JtisBelongToGrants

=============================================================================
