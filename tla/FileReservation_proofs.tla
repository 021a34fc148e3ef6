------------------------ MODULE FileReservation_proofs ------------------------
(***************************************************************************)
(* Single use on the file backend, for any intents, credentials and times: *)
(* it holds whenever nonce.js remembers a nonce for at least as long as an *)
(* intent can be presented, and either the process or its disk is sound.   *)
(***************************************************************************)
EXTENDS FileReservation, FiniteSetTheorems, TLAPS

LEMMA InitIInv == Init => IInv
  BY FileAssumption DEF Init, IInv, TypeOK, FileIsCurrent, InProgress,
                        RunsAreConsumed, Keys, Nonces

(* Dropping what has expired changes no entry that can still refuse.       *)
LEMMA PrunedEntries ==
  ASSUME TypeOK, NEW k \in Keys
  PROVE  /\ Pruned \in [Keys -> Nat]
         /\ Pruned[k] = used[k] \/ (Pruned[k] = 0 /\ used[k] <= now)
         /\ Pruned[k] = 0 \/ (Pruned[k] = used[k] /\ used[k] > now)
  BY FileAssumption DEF TypeOK, Pruned

(* The call in progress, its credential and its intent are what they are   *)
(* declared to be.                                                         *)
LEMMA CallInProgress ==
  ASSUME IInv, pc # "idle"
  PROVE  /\ jti \in Jtis /\ intentOf[jti] \in Intents
         /\ nonce[intentOf[jti]] \in Keys /\ jti \in Keys
         /\ amount[intentOf[jti]] \in Nat
         /\ iat[intentOf[jti]] \in Nat /\ exp[intentOf[jti]] \in Nat
  BY FileAssumption DEF IInv, InProgress, TypeOK, Keys, Nonces

(* Remembering a nonce that the current call presents outlives the intent. *)
LEMMA RememberedLongEnough ==
  ASSUME Retained, now \in Nat, NEW i \in Intents, IntentOk(i)
  PROVE  now + Retention >= exp[i]
  <1>1. exp[i] \in Nat /\ iat[i] \in Nat
    BY FileAssumption
  <1>2. exp[i] <= iat[i] + IntentTtl /\ iat[i] <= now + Skew
    BY <1>1, FileAssumption DEF IntentOk
  <1> QED
    BY <1>1, <1>2, FileAssumption DEF Retained

(* A step that only prunes, or prunes and sets one entry to now + Retention,  *)
(* leaves every consumed intent consumed.                                  *)
LEMMA StaysConsumed ==
  ASSUME TypeOK, NEW i \in Intents, Consumed(i), now' = now,
         \/ used' = Pruned
         \/ \E k \in Keys : Pruned[k] = 0 /\ used' = [Pruned EXCEPT ![k] = now + Retention]
  PROVE  Consumed(i)'
  <1>1. nonce[i] \in Keys /\ exp[i] \in Nat
    BY FileAssumption DEF Keys, Nonces
  <1>2. CASE now >= exp[i]
    BY <1>2, <1>1 DEF Consumed
  <1>3. CASE now < exp[i]
    <2>1. used[nonce[i]] >= exp[i] /\ used[nonce[i]] \in Nat /\ now \in Nat
      BY <1>1, <1>3 DEF Consumed, TypeOK
    <2>2. Pruned[nonce[i]] = used[nonce[i]] /\ Pruned[nonce[i]] # 0
      BY <2>1, <1>1, <1>3, PrunedEntries
    <2>3. used'[nonce[i]] = used[nonce[i]]
      BY <2>2, <1>1, PrunedEntries
    <2> QED
      BY <2>1, <2>3 DEF Consumed
  <1> QED
    BY <1>1, <1>2, <1>3 DEF TypeOK

LEMMA AuthorizeIInv ==
  ASSUME IInv, NEW j \in Jtis, NEW i \in Intents, Authorize(j, i)
  PROVE  IInv'
  <1> USE FileAssumption DEF Authorize, IInv, stored
  <1>1. TypeOK'
    BY DEF TypeOK
  <1>2. FileIsCurrent'
    BY DEF FileIsCurrent
  <1>3. InProgress'
    BY DEF InProgress
  <1>4. RunsAreConsumed'
    BY DEF RunsAreConsumed, Consumed, TypeOK
  <1> QED
    BY <1>1, <1>2, <1>3, <1>4

LEMMA BeginIInv ==
  ASSUME IInv, NEW j \in Jtis, Begin(j)
  PROVE  IInv'
  <1> USE FileAssumption DEF Begin, IInv, stored, credentials
  <1>1. TypeOK'
    BY DEF TypeOK
  <1>2. FileIsCurrent'
    BY DEF FileIsCurrent
  <1>3. InProgress'
    BY DEF InProgress, IntentOk, CheckBudget
  <1>4. RunsAreConsumed'
    BY DEF RunsAreConsumed, Consumed
  <1> QED
    BY <1>1, <1>2, <1>3, <1>4

(* Consume keeps the map typed, the file current and consumed intents      *)
(* consumed.                                                               *)
LEMMA ConsumeMap ==
  ASSUME IInv, NEW k \in Keys, NEW next, Consume(k, next), now' = now, weak' = weak
  PROVE  /\ used' \in [Keys -> Nat] /\ usedFile' \in [Keys -> Nat]
         /\ FileIsCurrent'
         /\ \A i \in Intents : Consumed(i) => Consumed(i)'
         /\ \/ pc' = next /\ jti' = jti /\ used'[k] = now + Retention /\ Pruned[k] = 0
            \/ pc' = "idle" /\ jti' = NoJti
  <1> USE FileAssumption DEF IInv
  <1>1. Pruned \in [Keys -> Nat] /\ now \in Nat
    BY PrunedEntries DEF TypeOK
  <1>2. \/ used' = Pruned
        \/ Pruned[k] = 0 /\ used' = [Pruned EXCEPT ![k] = now + Retention]
    BY DEF Consume
  <1>3. used' \in [Keys -> Nat]
    BY <1>1, <1>2
  <1>4. usedFile' \in [Keys -> Nat]
    BY <1>3 DEF Consume, Save, TypeOK
  <1>5. FileIsCurrent'
    BY <1>3 DEF Consume, Save, FileIsCurrent
  <1>6. \A i \in Intents : Consumed(i) => Consumed(i)'
    BY <1>2, StaysConsumed
  <1>7. \/ pc' = next /\ jti' = jti /\ used'[k] = now + Retention /\ Pruned[k] = 0
        \/ pc' = "idle" /\ jti' = NoJti
    BY <1>1 DEF Consume
  <1> QED
    BY <1>3, <1>4, <1>5, <1>6, <1>7

LEMMA ConsumeNonceIInv ==
  ASSUME Retained, IInv, ConsumeNonce
  PROVE  IInv'
  <1> DEFINE i == intentOf[jti]
  <1> USE FileAssumption DEF ConsumeNonce, credentials
  <1>1. i \in Intents /\ jti \in Jtis /\ nonce[i] \in Keys
    BY CallInProgress
  <1>2. Consume(nonce[i], "jti") /\ now' = now
    OBVIOUS
  <1>3. TypeOK'
    BY <1>1, <1>2, ConsumeMap DEF IInv, TypeOK
  <1>4. FileIsCurrent'
    BY <1>1, <1>2, ConsumeMap
  <1>5. RunsAreConsumed'
    BY <1>1, <1>2, ConsumeMap DEF IInv, RunsAreConsumed
  <1>6. InProgress'
    <2>1. CASE pc' = "idle"
      BY <2>1 DEF InProgress
    <2>2. CASE pc' = "jti" /\ jti' = jti /\ used'[nonce[i]] = now + Retention
               /\ Pruned[nonce[i]] = 0
      <3>1. IntentOk(i) /\ now \in Nat /\ exp[i] \in Nat
        BY <1>1 DEF IInv, InProgress, TypeOK
      <3>2. Consumed(i)'
        BY <2>2, <3>1, <1>1, RememberedLongEnough DEF Consumed
      <3>3. used[nonce[i]] <= now /\ now < exp[i]
        BY <2>2, <3>1, <1>1, PrunedEntries DEF IInv, IntentOk, TypeOK
      <3>4. ~Consumed(i)
        BY <3>1, <3>3, <1>1 DEF Consumed, IInv, TypeOK
      <3>5. runs[i] = 0
        BY <3>4, <1>1 DEF IInv, RunsAreConsumed, TypeOK
      <3> QED
        BY <2>2, <3>2, <3>5, <1>1 DEF IInv, InProgress, IntentOk, CheckBudget
    <2> QED
      BY <2>1, <2>2, <1>1, <1>2, ConsumeMap
  <1> QED
    BY <1>3, <1>4, <1>5, <1>6 DEF IInv

LEMMA ConsumeJtiIInv ==
  ASSUME IInv, ConsumeJti
  PROVE  IInv'
  <1> USE FileAssumption DEF ConsumeJti, credentials
  <1>1. intentOf[jti] \in Intents /\ jti \in Jtis /\ jti \in Keys
    BY CallInProgress
  <1>2. Consume(jti, "debit") /\ now' = now
    OBVIOUS
  <1>3. TypeOK'
    BY <1>1, <1>2, ConsumeMap DEF IInv, TypeOK
  <1>4. FileIsCurrent'
    BY <1>1, <1>2, ConsumeMap
  <1>5. RunsAreConsumed'
    BY <1>1, <1>2, ConsumeMap DEF IInv, RunsAreConsumed
  <1>6. InProgress'
    BY <1>1, <1>2, ConsumeMap DEF IInv, InProgress, IntentOk, CheckBudget
  <1> QED
    BY <1>3, <1>4, <1>5, <1>6 DEF IInv

LEMMA DebitIInv ==
  ASSUME IInv, Debit
  PROVE  IInv'
  <1> USE FileAssumption DEF Debit, IInv, credentials
  <1>1. intentOf[jti] \in Intents /\ jti \in Jtis /\ amount[intentOf[jti]] \in Nat
    BY CallInProgress
  <1>2. TypeOK'
    BY <1>1 DEF TypeOK, CheckBudget
  <1>3. FileIsCurrent'
    BY DEF FileIsCurrent
  <1>4. InProgress'
    BY <1>1 DEF InProgress, IntentOk, Consumed
  <1>5. RunsAreConsumed'
    BY DEF RunsAreConsumed, Consumed
  <1> QED
    BY <1>2, <1>3, <1>4, <1>5

LEMMA ReplyIInv ==
  ASSUME IInv, Reply
  PROVE  IInv'
  <1> DEFINE i == intentOf[jti]
  <1> USE FileAssumption DEF Reply, IInv, credentials, stored
  <1>1. i \in Intents /\ jti \in Jtis
    BY CallInProgress
  <1>2. runs[i] = 0 /\ Consumed(i)
    BY DEF InProgress
  <1>3. runs \in [Intents \cup Jtis -> Nat] /\ runs[jti] <= runs[i]
    BY <1>1, <1>2 DEF TypeOK, RunsAreConsumed
  <1>4. TypeOK'
    BY <1>1 DEF TypeOK
  <1>5. FileIsCurrent' /\ InProgress'
    BY DEF FileIsCurrent, InProgress
  <1>6. RunsAreConsumed'
    <2>1. CASE UNCHANGED runs
      BY <2>1 DEF RunsAreConsumed, Consumed
    <2>2. CASE runs' = [runs EXCEPT ![jti] = @ + 1, ![i] = @ + 1]
      <3>1. /\ runs'[i] = 1 /\ runs'[jti] = runs[jti] + 1
            /\ \A x \in Intents \cup Jtis : x # i /\ x # jti => runs'[x] = runs[x]
        BY <2>2, <1>1, <1>2, <1>3
      <3>2. \A x \in Intents : runs'[x] <= 1 /\ (runs'[x] = 1 => Consumed(x))
        BY <3>1, <1>1, <1>2 DEF RunsAreConsumed
      <3>3. \A x \in Jtis :
              runs'[x] # 0 => intentOf[x] # NoIntent /\ runs'[x] <= runs'[intentOf[x]]
        <4> SUFFICES ASSUME NEW x \in Jtis, runs'[x] # 0
                     PROVE  intentOf[x] # NoIntent /\ runs'[x] <= runs'[intentOf[x]]
          OBVIOUS
        <4>1. CASE x = jti
          BY <4>1, <3>1, <1>1, <1>2, <1>3
        <4>2. CASE x # jti
          BY <4>2, <3>1, <1>1, <1>2, <1>3 DEF RunsAreConsumed, TypeOK
        <4> QED
          BY <4>1, <4>2
      <3> QED
        BY <3>2, <3>3 DEF RunsAreConsumed, Consumed
    <2> QED
      BY <2>1, <2>2
  <1> QED
    BY <1>4, <1>5, <1>6

LEMMA PruneIInv ==
  ASSUME IInv, Prune
  PROVE  IInv'
  <1> USE FileAssumption DEF Prune, IInv, credentials
  <1>1. Pruned \in [Keys -> Nat] /\ used' = Pruned /\ now' = now
    BY PrunedEntries DEF TypeOK
  <1>2. TypeOK'
    BY <1>1 DEF TypeOK, Save
  <1>3. FileIsCurrent'
    BY <1>1 DEF FileIsCurrent, Save
  <1>4. InProgress'
    BY DEF InProgress
  <1>5. RunsAreConsumed'
    BY <1>1, StaysConsumed DEF RunsAreConsumed
  <1> QED
    BY <1>2, <1>3, <1>4, <1>5

LEMMA SaveTokensIInv ==
  ASSUME IInv, SaveTokens
  PROVE  IInv'
  BY DEF SaveTokens, credentials, IInv, TypeOK, FileIsCurrent, InProgress,
         RunsAreConsumed, Consumed

(* What a restart reads back is what the process remembered, when the disk *)
(* is sound.                                                               *)
LEMMA RestartIInv ==
  ASSUME Retained, IInv, Restart
  PROVE  IInv'
  <1> USE FileAssumption DEF Restart, IInv, credentials
  <1>1. weak # "disk"
    OBVIOUS
  <1>2. TypeOK'
    BY DEF TypeOK
  <1>3. FileIsCurrent'
    BY DEF FileIsCurrent, TypeOK
  <1>4. InProgress'
    BY DEF InProgress
  <1>5. ASSUME NEW i \in Intents, Consumed(i) PROVE Consumed(i)'
    <2>1. nonce[i] \in Keys /\ exp[i] \in Nat /\ now \in Nat
      BY DEF Keys, Nonces, TypeOK
    <2>2. \/ usedFile[nonce[i]] = used[nonce[i]]
          \/ used[nonce[i]] = 0 /\ usedFile[nonce[i]] <= now
      BY <1>1, <2>1 DEF FileIsCurrent
    <2>3. CASE now >= exp[i]
      BY <2>3, <2>1 DEF Consumed
    <2>4. CASE now < exp[i]
      <3>1. used[nonce[i]] >= exp[i]
        BY <1>5, <2>4, <2>1 DEF Consumed
      <3>2. usedFile[nonce[i]] = used[nonce[i]] /\ used[nonce[i]] > now
        BY <3>1, <2>1, <2>2, <2>4 DEF TypeOK
      <3>3. used'[nonce[i]] = used[nonce[i]]
        BY <3>2, <2>1
      <3> QED
        BY <3>1, <3>3 DEF Consumed
    <2> QED
      BY <2>1, <2>3, <2>4
  <1>6. RunsAreConsumed'
    BY <1>5 DEF RunsAreConsumed
  <1> QED
    BY <1>2, <1>3, <1>4, <1>6

LEMMA TickIInv ==
  ASSUME IInv, Tick
  PROVE  IInv'
  <1> USE FileAssumption DEF Tick, credentials, stored, IInv
  <1>1. now' \in Nat /\ now \in Nat /\ now' = now + 1
    BY DEF TypeOK
  <1>2. TypeOK' /\ InProgress'
    BY <1>1 DEF TypeOK, InProgress
  <1>3. FileIsCurrent'
    BY <1>1 DEF FileIsCurrent, TypeOK
  <1>4. RunsAreConsumed'
    BY <1>1 DEF RunsAreConsumed, Consumed
  <1> QED
    BY <1>2, <1>3, <1>4

LEMMA NextIInv == Retained /\ IInv /\ [Next]_vars => IInv'
  <1> SUFFICES ASSUME Retained, IInv, [Next]_vars PROVE IInv'
    OBVIOUS
  <1>1. CASE \E j \in Jtis, i \in Intents : Authorize(j, i)
    BY <1>1, AuthorizeIInv
  <1>2. CASE \E j \in Jtis : Begin(j)
    BY <1>2, BeginIInv
  <1>3. CASE ConsumeNonce
    BY <1>3, ConsumeNonceIInv
  <1>4. CASE ConsumeJti
    BY <1>4, ConsumeJtiIInv
  <1>5. CASE Debit
    BY <1>5, DebitIInv
  <1>6. CASE Reply
    BY <1>6, ReplyIInv
  <1>7. CASE Prune
    BY <1>7, PruneIInv
  <1>8. CASE SaveTokens
    BY <1>8, SaveTokensIInv
  <1>9. CASE Restart
    BY <1>9, RestartIInv
  <1>10. CASE Tick
    BY <1>10, TickIInv
  <1>11. CASE UNCHANGED vars
    BY <1>11 DEF vars, credentials, stored, IInv, TypeOK, FileIsCurrent, InProgress,
                 RunsAreConsumed, Consumed, IntentOk, CheckBudget
  <1> QED
    BY <1>1, <1>2, <1>3, <1>4, <1>5, <1>6, <1>7, <1>8, <1>9, <1>10, <1>11 DEF Next

-----------------------------------------------------------------------------
(* While nonces are remembered long enough and the process or its disk is  *)
(* sound, everything that was executed is consumed, in memory and, when it *)
(* counts, in the file; and the call in progress is what it was let in as. *)
THEOREM Inductive ==
  ASSUME Retained
  PROVE  Spec => []IInv
  BY InitIInv, NextIInv, PTL DEF Spec

(* If nonce.js remembers a nonce at least as long as an intent can be      *)
(* presented (INTENT_TTL_S plus the clock skew), and the process or its    *)
(* disk is sound, no intent and no credential executes twice, for any      *)
(* intents, lifetimes of credentials and schedule of crashes.              *)
THEOREM RetentionSuffices ==
  ASSUME Retained
  PROVE  Spec => []SingleUse
  <1>1. IInv => SingleUse
    <2> SUFFICES ASSUME IInv, NEW x \in Intents \cup Jtis PROVE runs[x] <= 1
      BY DEF SingleUse
    <2>1. CASE x \in Intents
      BY <2>1 DEF IInv, RunsAreConsumed
    <2>2. CASE x \in Jtis /\ runs[x] # 0
      <3>1. intentOf[x] \in Intents /\ runs[x] <= runs[intentOf[x]]
        BY <2>2 DEF IInv, RunsAreConsumed, TypeOK
      <3> QED
        BY <3>1, <2>2 DEF IInv, RunsAreConsumed, TypeOK
    <2> QED
      BY <2>1, <2>2
  <1> QED
    BY <1>1, Inductive, PTL

-----------------------------------------------------------------------------
(* The books.  Whatever nonce.js forgets, an execution is acknowledged     *)
(* only after its debit was saved, and a restart reads back what was       *)
(* saved: the file always covers what ran, and the amount of the call that *)
(* is about to be acknowledged.                                            *)

CallIsKnown == pc # "idle" => jti \in Jtis /\ intentOf[jti] \in Intents

Books ==
  /\ IsFiniteSet(ExecutedCents) /\ spentFile <= spent
  /\ Cardinality(ExecutedCents) <= spentFile
  /\ pc = "reply" => Cardinality(ExecutedCents) + amount[intentOf[jti]] <= spentFile

BInv == TypeOK /\ CallIsKnown /\ Books

(* Adding k fresh cents of one execution makes a set k larger.                  *)
LEMMA AddCents ==
  ASSUME NEW S, NEW e, NEW k \in Nat, IsFiniteSet(S), S \cap ({e} \X (1..k)) = {}
  PROVE  /\ IsFiniteSet(S \cup ({e} \X (1..k)))
         /\ Cardinality(S \cup ({e} \X (1..k))) = Cardinality(S) + k
  <1>1. IsFiniteSet({e}) /\ Cardinality({e}) = 1
    BY FS_Singleton
  <1>2. IsFiniteSet(1..k) /\ Cardinality(1..k) = k
    BY FS_Interval
  <1>3. IsFiniteSet({e} \X (1..k)) /\ Cardinality({e} \X (1..k)) = k
    <2>1. /\ IsFiniteSet({e} \X (1..k))
          /\ Cardinality({e} \X (1..k)) = Cardinality({e}) * Cardinality(1..k)
      BY <1>1, <1>2, FS_Product
    <2> QED
      BY <1>1, <1>2, <2>1
  <1>4. Cardinality(S) \in Nat
    BY FS_CardinalityType
  <1>5. /\ IsFiniteSet(S \cup ({e} \X (1..k)))
        /\ Cardinality(S \cup ({e} \X (1..k)))
           = Cardinality(S) + Cardinality({e} \X (1..k)) - Cardinality(S \cap ({e} \X (1..k)))
    BY <1>3, FS_Union
  <1>6. Cardinality(S \cap ({e} \X (1..k))) = 0
    BY FS_EmptySet
  <1> QED
    BY <1>3, <1>4, <1>5, <1>6

LEMMA InitBooks == Init => BInv
  <1> SUFFICES ASSUME Init PROVE BInv
    OBVIOUS
  <1>1. TypeOK /\ CallIsKnown
    BY FileAssumption DEF Init, TypeOK, CallIsKnown, Keys, Nonces
  <1>2. ExecutedCents = {} /\ pc = "idle" /\ spent = 0 /\ spentFile = 0
    BY DEF Init, ExecutedCents
  <1> QED
    BY <1>1, <1>2, FS_EmptySet DEF BInv, Books

(* A step that executes nothing changes no executed cent.                  *)
LEMMA NothingExecuted ==
  ASSUME UNCHANGED runs
  PROVE  ExecutedCents' = ExecutedCents
  BY DEF ExecutedCents

LEMMA ConsumeKeepsTypes ==
  ASSUME TypeOK, NEW k \in Keys, NEW next, Consume(k, next)
  PROVE  used' \in [Keys -> Nat] /\ usedFile' \in [Keys -> Nat]
  <1>1. Pruned \in [Keys -> Nat] /\ now \in Nat
    BY PrunedEntries, FileAssumption DEF TypeOK
  <1>2. used' \in [Keys -> Nat]
    BY <1>1, FileAssumption DEF Consume
  <1> QED
    BY <1>2 DEF Consume, Save, TypeOK

(* No step outside debit and reply touches the books, and none loses track *)
(* of its call.                                                            *)
LEMMA OtherSteps ==
  ASSUME BInv,
         \/ \E j \in Jtis, i \in Intents : Authorize(j, i)
         \/ \E j \in Jtis : Begin(j)
         \/ ConsumeNonce \/ ConsumeJti \/ Prune \/ Tick
  PROVE  BInv'
  <1>1. UNCHANGED <<runs, spent, spentFile>> /\ pc' # "reply"
    BY DEF Authorize, Begin, ConsumeNonce, ConsumeJti, Consume, Prune, Tick,
           stored, credentials, BInv, TypeOK
  <1>2. Books'
    BY <1>1, NothingExecuted DEF BInv, Books
  <1>3. CASE \/ \E j \in Jtis, i \in Intents : Authorize(j, i)
             \/ \E j \in Jtis : Begin(j)
             \/ Tick
    BY <1>2, <1>3, FileAssumption
    DEF BInv, TypeOK, CallIsKnown, Authorize, Begin, Tick, stored, credentials
  <1>4. CASE ConsumeNonce \/ ConsumeJti
    <2>1. /\ jti \in Jtis /\ intentOf[jti] \in Intents
          /\ jti \in Keys /\ nonce[intentOf[jti]] \in Keys
      BY <1>4 DEF BInv, CallIsKnown, ConsumeNonce, ConsumeJti, Keys, Nonces
    <2>2. used' \in [Keys -> Nat] /\ usedFile' \in [Keys -> Nat]
      BY <1>4, <2>1, ConsumeKeepsTypes DEF BInv, ConsumeNonce, ConsumeJti
    <2> QED
      BY <1>2, <1>4, <2>1, <2>2
      DEF BInv, TypeOK, CallIsKnown, ConsumeNonce, ConsumeJti, Consume, credentials
  <1>5. CASE Prune
    <2>1. Pruned \in [Keys -> Nat]
      BY PrunedEntries DEF BInv, TypeOK, Pruned
    <2>2. used' \in [Keys -> Nat] /\ usedFile' \in [Keys -> Nat]
      BY <1>5, <2>1 DEF Prune, Save, BInv, TypeOK
    <2> QED
      BY <1>2, <1>5, <2>2 DEF BInv, TypeOK, CallIsKnown, Prune, credentials
  <1> QED
    BY <1>3, <1>4, <1>5

(* The debit is saved with the call's amount in it, or the call fails.     *)
LEMMA DebitBooks ==
  ASSUME BInv, Debit
  PROVE  BInv'
  <1>1. /\ jti \in Jtis /\ intentOf[jti] \in Intents /\ amount[intentOf[jti]] \in Nat
    BY FileAssumption DEF BInv, CallIsKnown, Debit
  <1>2. spent \in Nat /\ spentFile \in Nat /\ Cardinality(ExecutedCents) \in Nat
    BY FS_CardinalityType, FileAssumption DEF BInv, Books, TypeOK
  <1>3. TypeOK' /\ CallIsKnown'
    BY <1>1, FileAssumption DEF BInv, TypeOK, CallIsKnown, Debit, CheckBudget, credentials
  <1>4. ExecutedCents' = ExecutedCents /\ intentOf' = intentOf
    BY NothingExecuted DEF Debit, credentials
  <1>5. \/ /\ spent' = spent + amount[intentOf[jti]] /\ spentFile' = spent' /\ jti' = jti
           /\ pc' = "reply"
        \/ pc' = "idle" /\ spentFile' = spentFile /\ spent' >= spent /\ spent' \in Nat
    BY <1>1, <1>2 DEF Debit, CheckBudget
  <1>6. Books'
    BY <1>1, <1>2, <1>4, <1>5 DEF BInv, Books
  <1> QED
    BY <1>3, <1>6 DEF BInv

(* The answer: one more execution of the intent, already in the file.      *)
LEMMA ReplyBooks ==
  ASSUME BInv, Reply
  PROVE  BInv'
  <1>1. PICK i \in Intents : i = intentOf[jti]
    BY DEF BInv, CallIsKnown, Reply
  <1>2. /\ jti \in Jtis /\ pc' = "idle" /\ jti' = NoJti
        /\ UNCHANGED <<spent, spentFile>> /\ pc = "reply"
    BY DEF BInv, CallIsKnown, Reply, stored
  <1>3. TypeOK' /\ CallIsKnown'
    BY <1>1, <1>2 DEF BInv, TypeOK, CallIsKnown, Reply, stored, credentials
  <1>4. CASE UNCHANGED runs
    BY <1>2, <1>3, <1>4, NothingExecuted DEF BInv, Books
  <1>5. CASE runs' = [runs EXCEPT ![jti] = @ + 1, ![intentOf[jti]] = @ + 1]
    <2>1. PICK S : S = ExecutedCents
      OBVIOUS
    <2>2. PICK n \in Nat : n = runs[i]
      BY DEF BInv, TypeOK
    <2>3. PICK e : e = <<i, n + 1>>
      OBVIOUS
    <2>4. PICK k \in Nat : k = amount[i]
      BY FileAssumption
    <2>5. \A x \in Intents : runs'[x] = IF x = i THEN n + 1 ELSE runs[x]
      BY <1>1, <1>2, <1>5, <2>2, FileAssumption DEF BInv, TypeOK
    <2>6. ({i} \X (1..n + 1)) \X (1..k) = (({i} \X (1..n)) \X (1..k)) \cup ({e} \X (1..k))
      <3>1. {i} \X (1..n + 1) = ({i} \X (1..n)) \cup {e}
        BY <2>2, <2>3
      <3> QED
        BY <3>1
    <2>7. ExecutedCents' = S \cup ({e} \X (1..k))
      <3>1. ASSUME NEW z
            PROVE  z \in ExecutedCents' <=> z \in S \/ z \in {e} \X (1..k)
        <4>1. z \in ExecutedCents' <=>
                \E x \in Intents : z \in ({x} \X (1..runs'[x])) \X (1..amount[x])
          BY DEF ExecutedCents
        <4>2. z \in S <=>
                \E x \in Intents : z \in ({x} \X (1..runs[x])) \X (1..amount[x])
          BY <2>1 DEF ExecutedCents
        <4>3. ASSUME NEW x \in Intents, x # i PROVE runs'[x] = runs[x]
          BY <4>3, <2>5
        <4>4. runs'[i] = n + 1 /\ runs[i] = n /\ amount[i] = k
          BY <2>2, <2>4, <2>5
        <4>5. z \in ({i} \X (1..runs'[i])) \X (1..amount[i])
              <=> z \in ({i} \X (1..runs[i])) \X (1..amount[i]) \/ z \in {e} \X (1..k)
          BY <2>6, <4>4
        <4> QED
          BY <4>1, <4>2, <4>3, <4>5, Zenon
      <3> QED
        BY <3>1
    <2>8. S \cap ({e} \X (1..k)) = {}
      BY <2>1, <2>2, <2>3 DEF ExecutedCents
    <2>9. IsFiniteSet(S)
      BY <2>1 DEF BInv, Books
    <2>10. /\ IsFiniteSet(S \cup ({e} \X (1..k)))
           /\ Cardinality(S \cup ({e} \X (1..k))) = Cardinality(S) + k
      BY ONLY <2>8, <2>9, k \in Nat, AddCents
    <2>11. Books'
      BY <1>1, <1>2, <2>1, <2>4, <2>7, <2>10 DEF BInv, Books
    <2> QED
      BY <1>3, <2>11 DEF BInv
  <1> QED
    BY <1>4, <1>5 DEF Reply

(* What another handler saves, and what a restart reads back.              *)
LEMMA SaveOrRestartBooks ==
  ASSUME BInv, SaveTokens \/ Restart
  PROVE  BInv'
  <1>1. /\ ExecutedCents' = ExecutedCents /\ pc' = "idle"
        /\ spentFile' = spent' /\ spent' \in {spent, spentFile}
        /\ spentFile' \in 0..Limit /\ spentFile' >= spentFile
    BY NothingExecuted, FileAssumption DEF SaveTokens, Restart, BInv, TypeOK, Books
  <1>2. Books'
    BY <1>1, FS_CardinalityType, FileAssumption DEF BInv, Books, TypeOK
  <1>3. TypeOK' /\ CallIsKnown'
    BY <1>1, FileAssumption DEF SaveTokens, Restart, BInv, TypeOK, CallIsKnown, credentials
  <1> QED
    BY <1>2, <1>3 DEF BInv

LEMMA NextBooks == BInv /\ [Next]_vars => BInv'
  <1> SUFFICES ASSUME BInv, [Next]_vars PROVE BInv'
    OBVIOUS
  <1>1. CASE Debit
    BY <1>1, DebitBooks
  <1>2. CASE Reply
    BY <1>2, ReplyBooks
  <1>3. CASE SaveTokens \/ Restart
    BY <1>3, SaveOrRestartBooks
  <1>4. CASE UNCHANGED vars
    BY <1>4, NothingExecuted
    DEF vars, credentials, stored, BInv, TypeOK, CallIsKnown, Books
  <1> QED
    BY <1>1, <1>2, <1>3, <1>4, OtherSteps DEF Next

(* Everything that was executed is in tokens.json, whether or not nonces   *)
(* are remembered long enough: for any retention, any crashes and any      *)
(* failed writes, no acknowledged execution loses its debit.               *)
THEOREM ExecutionsAreOnDisk == Spec => []RunsAreDebited
  <1>1. BInv => RunsAreDebited
    BY DEF BInv, Books, RunsAreDebited
  <1>2. Spec => []BInv
    BY InitBooks, NextBooks, PTL DEF Spec
  <1> QED
    BY <1>1, <1>2, PTL

=============================================================================
