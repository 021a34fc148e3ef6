--------------------------- MODULE FileReservation ---------------------------
(***************************************************************************)
(* execute() on the file backend, which has no checkAndDebitExecution: the *)
(* nonce and the action-token jti go into nonce.js's map with an expiry,   *)
(* the spend into the token record, and each is saved to its own file.     *)
(* Nothing makes the three writes one step, and the map forgets.           *)
(*                                                                         *)
(* execute() runs under withLock and, on this backend, waits for no I/O:   *)
(* no other call and no timer runs during it, and a call is short against  *)
(* the clock's unit, but the process can die between any two of its writes.*)
(***************************************************************************)
EXTENDS Integers, FiniteSets

CONSTANTS
  Intents,    \* signed intents that agents may present, each any number of times
  nonce,      \* nonce[i]: the nonce of intent i
  iat, exp,   \* iat[i], exp[i]: its validity, in the clock's units
  amount,     \* amount[i]: amount_cents
  Jtis,       \* action credentials
  NoIntent,   \* the credential has not been issued
  NoJti,      \* no execute() is in progress
  Limit,      \* max_spend_cents of the delegation token all intents use
  Retention,  \* how long nonce.js remembers a consumed value (10 minutes)
  IntentTtl,  \* INTENT_TTL_S
  ActionTtl,  \* ACTION_TOKEN_TTL_S
  Skew,       \* CLOCK_SKEW_S
  Horizon     \* bound on the clock

Nonces == {nonce[i] : i \in Intents}
Keys == Nonces \cup Jtis

ASSUME FileAssumption ==
  /\ iat \in [Intents -> Nat] /\ exp \in [Intents -> Nat]
  /\ amount \in [Intents -> Nat]
  /\ Nonces \cap Jtis = {} /\ Intents \cap Jtis = {}
  /\ NoIntent \notin Intents /\ NoJti \notin Jtis
  /\ Limit \in Nat /\ Retention \in Nat \ {0} /\ Horizon \in Nat
  /\ IntentTtl \in Nat /\ ActionTtl \in Nat /\ Skew \in Nat

VARIABLES
  weak,       \* what lets this behaviour down: the "process" may die and start
              \* again, or writes to the "disk" may fail
  now,        \* Date.now()
  intentOf,   \* intentOf[j]: the intent credential j was issued for
  issued,     \* issued[j]: its iat
  used,       \* used[k]: when nonce.js may forget k; 0 when it does not hold it
  usedFile,   \* nonces.json
  spent,      \* spent_cents of the token, in memory
  spentFile,  \* tokens.json
  pc,         \* what the execute() in progress does next
  jti,        \* the credential it was given
  runs        \* runs[x]: executions granted for intent or credential x

vars == <<weak, now, intentOf, issued, used, usedFile, spent, spentFile, pc, jti, runs>>
credentials == <<intentOf, issued>>
stored == <<used, usedFile, spent, spentFile>>

TypeOK ==
  /\ weak \in {"process", "disk"}
  /\ now \in 0..Horizon
  /\ intentOf \in [Jtis -> Intents \cup {NoIntent}]
  /\ issued \in [Jtis -> 0..Horizon]
  /\ used \in [Keys -> Nat] /\ usedFile \in [Keys -> Nat]
  /\ spent \in 0..Limit /\ spentFile \in 0..Limit
  /\ pc \in {"idle", "nonce", "jti", "debit", "reply"}
  /\ jti \in Jtis \cup {NoJti}
  /\ runs \in [Intents \cup Jtis -> Nat]

Init ==
  /\ weak \in {"process", "disk"}
  /\ now = 0
  /\ intentOf = [j \in Jtis |-> NoIntent]
  /\ issued = [j \in Jtis |-> 0]
  /\ used = [k \in Keys |-> 0] /\ usedFile = [k \in Keys |-> 0]
  /\ spent = 0 /\ spentFile = 0
  /\ pc = "idle" /\ jti = NoJti
  /\ runs = [x \in Intents \cup Jtis |-> 0]

-----------------------------------------------------------------------------
(* checkIntentShape, as far as time goes.                                  *)
IntentOk(i) ==
  /\ exp[i] > now
  /\ exp[i] - iat[i] <= IntentTtl
  /\ iat[i] - now <= Skew
  /\ now - iat[i] <= IntentTtl

(* Mutant: what is spent is compared with the cap, without the amount.     *)
CheckBudgetBefore(i) == spent <= Limit

(* checkBudget, and checkBudgetFresh, which reads the same record here.    *)
CheckBudget(i) == spent + amount[i] <= Limit

CredentialOk(j) == now <= issued[j] + ActionTtl

(* authorize() issues a credential: the intent's nonce is not consumed, so *)
(* one intent may be authorized again and again.                           *)
Authorize(j, i) ==
  /\ pc = "idle"
  /\ intentOf[j] = NoIntent
  /\ IntentOk(i)
  /\ CheckBudget(i)
  /\ intentOf' = [intentOf EXCEPT ![j] = i]
  /\ issued' = [issued EXCEPT ![j] = now]
  /\ UNCHANGED <<weak, now, stored, pc, jti, runs>>

(* execute() takes the lock and validates; an invalid call throws and      *)
(* leaves nothing behind.                                                  *)
Begin(j) ==
  /\ pc = "idle"
  /\ intentOf[j] # NoIntent
  /\ IntentOk(intentOf[j])
  /\ CredentialOk(j)
  /\ CheckBudget(intentOf[j])
  /\ pc' = "nonce" /\ jti' = j
  /\ UNCHANGED <<weak, now, credentials, stored, runs>>

(* Nothing is written when nothing changed, and saveFile() swallows the    *)
(* error of a failed write.                                                *)
Save(m) ==
  IF m = used THEN UNCHANGED usedFile
  ELSE usedFile' = m \/ (weak = "disk" /\ UNCHANGED usedFile)

(* Mutant: an entry is dropped one unit too early.                         *)
PrunedEarly == [k \in Keys |-> IF used[k] <= now + 1 THEN 0 ELSE used[k]]

Pruned == [k \in Keys |-> IF used[k] <= now THEN 0 ELSE used[k]]

(* Mutant: consumeOnce does not save the map.                              *)
ConsumeInMemory(k, next) ==
  /\ used' = IF Pruned[k] = 0 THEN [Pruned EXCEPT ![k] = now + Retention] ELSE Pruned
  /\ IF Pruned[k] = 0
       THEN pc' = next /\ UNCHANGED jti
       ELSE pc' = "idle" /\ jti' = NoJti
  /\ UNCHANGED usedFile

(* consumeOnce: prune, look, remember until now + Retention, save.         *)
Consume(k, next) ==
  /\ IF Pruned[k] = 0
       THEN /\ used' = [Pruned EXCEPT ![k] = now + Retention]
            /\ pc' = next
            /\ UNCHANGED jti
       ELSE /\ used' = Pruned
            /\ pc' = "idle" /\ jti' = NoJti
  /\ Save(used')

ConsumeNonce ==
  /\ pc = "nonce"
  /\ Consume(nonce[intentOf[jti]], "jti")
  /\ UNCHANGED <<weak, now, credentials, spent, spentFile, runs>>

ConsumeJti ==
  /\ pc = "jti"
  /\ Consume(jti, "debit")
  /\ UNCHANGED <<weak, now, credentials, spent, spentFile, runs>>

(* Mutant: the record is saved before the amount is added.                 *)
DebitSavedFirst ==
  /\ pc = "debit"
  /\ spent' = spent + amount[intentOf[jti]]
  /\ pc' = "reply"
  /\ spentFile' = spent
  /\ UNCHANGED <<weak, now, credentials, used, usedFile, jti, runs>>

(* debitBudget: it checks the cap again; the record in memory is changed   *)
(* before put() saves it, and put() throws when it cannot: the call fails  *)
(* with the debit in memory.                                               *)
Debit ==
  /\ pc = "debit"
  /\ IF CheckBudget(intentOf[jti])
       THEN /\ spent' = spent + amount[intentOf[jti]]
            /\ \/ pc' = "reply" /\ spentFile' = spent' /\ UNCHANGED jti
               \/ weak = "disk" /\ pc' = "idle" /\ jti' = NoJti /\ UNCHANGED spentFile
       ELSE pc' = "idle" /\ jti' = NoJti /\ UNCHANGED <<spent, spentFile>>
  /\ UNCHANGED <<weak, now, credentials, used, usedFile, runs>>

(* touchLastSeen and the receipt may still fail to be written: the call    *)
(* then throws although everything is consumed.                            *)
Reply ==
  /\ pc = "reply"
  /\ \/ runs' = [runs EXCEPT ![jti] = @ + 1, ![intentOf[jti]] = @ + 1]
     \/ weak = "disk" /\ UNCHANGED runs
  /\ pc' = "idle" /\ jti' = NoJti
  /\ UNCHANGED <<weak, now, credentials, stored>>

(* nonce.js's timer.                                                       *)
Prune ==
  /\ pc = "idle"
  /\ \E k \in Keys : used[k] # 0 /\ used[k] <= now
  /\ used' = Pruned
  /\ Save(Pruned)
  /\ UNCHANGED <<weak, now, credentials, spent, spentFile, pc, jti, runs>>

(* Another handler saves the tokens collection.                            *)
SaveTokens ==
  /\ pc = "idle"
  /\ spentFile' = spent
  /\ UNCHANGED <<weak, now, credentials, used, usedFile, spent, pc, jti, runs>>

(* The process dies and starts again: both maps are read from their files, *)
(* loadFile() skipping what has expired.                                   *)
Restart ==
  /\ weak = "process"
  /\ used' = [k \in Keys |-> IF usedFile[k] > now THEN usedFile[k] ELSE 0]
  /\ spent' = spentFile
  /\ pc' = "idle" /\ jti' = NoJti
  /\ UNCHANGED <<weak, now, credentials, usedFile, spentFile, runs>>

Tick ==
  /\ pc = "idle"
  /\ now < Horizon
  /\ now' = now + 1
  /\ UNCHANGED <<weak, credentials, stored, pc, jti, runs>>

Next ==
  \/ \E j \in Jtis, i \in Intents : Authorize(j, i)
  \/ \E j \in Jtis : Begin(j)
  \/ ConsumeNonce \/ ConsumeJti \/ Debit \/ Reply
  \/ Prune \/ SaveTokens \/ Restart \/ Tick

Spec == Init /\ [][Next]_vars

-----------------------------------------------------------------------------
(* Properties.                                                             *)

(* An action credential executes at most once, and so does an intent,      *)
(* however often it is authorized: nonce.js forgets neither too early,     *)
(* across restarts and failed writes.                                      *)
SingleUse == \A x \in Intents \cup Jtis : runs[x] <= 1

(* Where single use is claimed: nonce.js remembers a value no shorter than *)
(* an intent can be presented.                                             *)
Retained == IntentTtl + Skew <= Retention

(* The cents that were executed, one by one: <<<<i, n>>, k>> is cent k of  *)
(* execution n of intent i.                                                *)
ExecutedCents ==
  UNION {({i} \X (1..runs[i])) \X (1..amount[i]) : i \in Intents}

(* What was executed is on disk: no crash forgets an executed debit, and   *)
(* the spend in memory is never behind the file.                           *)
RunsAreDebited == Cardinality(ExecutedCents) <= spentFile /\ spentFile <= spent

-----------------------------------------------------------------------------
(* The inductive invariant of single use.                                  *)

Consumed(i) == used[nonce[i]] >= exp[i] \/ now >= exp[i]

FileIsCurrent ==
  weak # "disk" =>
    \A k \in Keys : usedFile[k] = used[k] \/ (used[k] = 0 /\ usedFile[k] <= now)

InProgress ==
  pc # "idle" =>
    /\ jti \in Jtis /\ intentOf[jti] # NoIntent
    /\ IntentOk(intentOf[jti])
    /\ pc \in {"nonce", "jti", "debit"} => CheckBudget(intentOf[jti])
    /\ pc # "nonce" => Consumed(intentOf[jti]) /\ runs[intentOf[jti]] = 0

RunsAreConsumed ==
  /\ \A i \in Intents : runs[i] <= 1 /\ (runs[i] = 1 => Consumed(i))
  /\ \A j \in Jtis :
       runs[j] # 0 => intentOf[j] # NoIntent /\ runs[j] <= runs[intentOf[j]]

IInv == TypeOK /\ FileIsCurrent /\ InProgress /\ RunsAreConsumed

=============================================================================
