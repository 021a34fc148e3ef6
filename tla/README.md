# AuthraGen: models, checks and proofs

AuthraGen is a gateway that identifies AI agents ("passports"), decides whether
an action an agent signed (an "intent") is allowed, and, after an authorization,
lets it execute once. This directory holds TLA+ modules of its core, the TLC
configurations that check them on small instances, and TLAPS proofs of the
theorems that hold for every instance. Paths below are relative to the
repository; `server.js` and its neighbours are under `src/`.

- [1. The system](#1-the-system)
- [2. Modules, and how they follow the code](#2-modules-and-how-they-follow-the-code)
- [3. What the runs check](#3-what-the-runs-check)
- [4. What is proved](#4-what-is-proved)
- [5. Disagreements found](#5-disagreements-found)
- [6. Not modelled](#6-not-modelled)
- [7. Plan](#7-plan)

## 1. The system

One Node process per gateway. Every request is handled by one async function in
`server.js`; handlers of one process interleave at their awaits (signer, store,
lock), handlers of different gateways interleave at the database.

| component | state it keeps | operations | what makes it correct |
|---|---|---|---|
| Execution reservation, PostgreSQL (`store/postgres.js`) | tables `nonces`, `action_jtis`, `token_spends`; the pool | `checkAndDebitExecution`: one transaction of five statements | a nonce and a jti are reserved once; rows stand or fall together; no cap exceeded, no debit lost; every call returns |
| Execution reservation, Redis (`store/redis.js`) | keys with a lifetime | the same, one Lua script, resent by ioredis | a single winner within a lifetime; the spend covers the grants; an answer "error" means a fault |
| Execution reservation, file (`nonce.js`, `tokens.js`) | two maps in memory, three files | `consumeOnce`, prune, `debitBudget` | single use and no forgotten debit across crashes and failed writes |
| Execute and authorize handlers (`server.js`) | the per-token lock, nothing else | validate, reserve, touch `last_seen`, receipt | an intent executes at most once; a revoked passport is refused |
| Persistent mirror (`store.js`) | a copy of every collection, a chain of writes, a sticky write error | `refresh` (joined by concurrent requests), `get`, `put`, `flush`, `addRevocation` | an acknowledged change is in the database; a refresh that began after an acknowledgement sees it; nothing waits for ever |
| Passports, keys, blueprints, tokens, org lock (`tokens.js`, `server.js`) | status, current key, key history, revocation records, `org.locked` | status changes, rotate, revoke, lock, unlock; the checks of authorize and execute | what was acknowledged as revoked never becomes usable again, nor anything below it |
| Revocation feed (`tokens.js`, `server.js`, `postgres.js`) | a sequence number per record | `GET /v1/revoked?since_seq` | a verifier that follows the feed misses no record |
| Approvals (`server.js`, `intent.js`) | votes, status, expiry | create, vote, deny, credentials on quorum | one decision, a quorum of distinct approvers, one credential that its requester can obtain |
| Audit chain (`audit.js`) | receipts, their head, signed checkpoints | append, verify, checkpoint | the chain verifies after every interleaving and restart; no receipt lost |
| Delegation (`tokens.js`) | tokens, their chains | `registerDelegation` | a child never exceeds its parent in capability, budget or time |
| Policy (`policy.js`), risk (`risk.js`) | policies, thresholds | evaluate, detect conflicts; the step-up band | deny wins; every score falls in one of the bands |
| API keys, bootstrap (`auth.js`) | key hashes, a single-use token | create, revoke, bootstrap | one bootstrap; a revoked key is refused |
| Rate limiter, seen cache (`server.js`) | maps with windows and size caps | hit, mark, look, prune | a minute admits less than two limits; what is seen was marked recently |
| Signers, KMS (`signer.js`, `kms/`) | provider handles | sign | - (modelled as an await that may fail) |
| Federation (`oidc.js`, `spiffe-runtime.js`) | JWKS cache | verify | a caller's key is in the last keys that arrived; more roles never make less of a caller |
| Metrics, logging, dashboard, SDKs, adapters | none the gateway depends on | | |

How they interact: authorize and execute read passports, tokens, policies and
revocations through the store; execute then reserves through
`checkAndDebitExecution` when the store has one, else through `nonce.js` and
`debitBudget`. Status changes, rotations and revocations change the object that
`get` returned, await the signer, `put` it, and record the revocation. With
PostgreSQL or Redis every `get` and `put` is on the mirror, which a refresh
replaces before each request and a queue writes back.

The hard behaviours: transactions that interleave; a script that is sent twice;
three files and a crash between them; a mirror replaced under a handler that
holds an object of the old one; one refresh shared by requests that arrived at
different times; a failed write learnt after its handler went on; a signer that
fails after the record changed in memory; values that are forgotten when a
lifetime ends. `PROJECT.json` lists each as a hazard at its line, with the
properties that cover it.

## 2. Modules, and how they follow the code

- **ExecutionLedger** - the abstract specification: what execute() needs from
  the store that reserves an execution. One atomic `Reserve` decides, consumes
  and debits; `Fail` is an error that may hide a reservation; `Answer` tells the caller.
- **PgReservation** - `checkAndDebitExecution` of `postgres.js`, an action per
  statement. The database is READ COMMITTED: a row a transaction inserted or
  locked makes others wait, an INSERT ... ON CONFLICT waits for the row's outcome
  and then sees it. `Commit(c, "error")` is a COMMIT whose answer is lost,
  `Abort` any statement that fails, `ConnectTimeout` the pool's timer. `Ledger`
  maps committed rows to the ledger's sets.
- **RedisReservation** - the Lua script as one action over keys that expire, and
  `LoseConnection`, after which ioredis sends the command again, whether or not
  the script ran. `grants` is a history variable: every reservation the script made, with
  its time (a call that was resent after a lifetime may be granted twice).
- **FileReservation** - authorize() and execute() on the file backend:
  `Begin` is the validation under the lock, then nonce, jti, debit and reply, each a
  change in memory and a write of its own file. `weak` chooses, once for a behaviour,
  which of the process (`Restart` between any two steps) and the disk
  (writes that fail) is unsound. nonce.js swallows a failed write, `put` throws it.
- **Revocation** - the handlers that suspend, revoke, rotate, lock and unlock on
  the file backend, and `PassportUsable`, `TokenUsable` and `KeyUsable`, which are
  `assertPassportUsable`, `assertTokenUsable` and `keyFor`. A handler changes the
  record in memory, awaits the signer ("sign"), saves, records the
  revocation ("record") and answers ("reply"); `Fail` and `Restart` may come between.
  Each collection is in memory and in its file (`pass`, `passFile`...).
- **MirrorStore** - `PersistentMirrorStore` under several gateways. Objects are
  apart from the mirror, because a handler may hold one that a refresh has
  replaced, and because the queue holds objects and serializes each when its turn
  comes. One passport and its revocation stand for the collections. `kind` makes
  a request a suspension, a revocation or a use (authorize or execute).
- **Approvals** - one step-up approval and the requests of its approvers, on one
  gateway with the file backend. A request checks and changes the record without an
  await and saves it (`Approve`, `Deny`, `Expire`); the one that completes the quorum
  awaits the signer twice (`SignToken`, `SignApproval`), with others in between.
  `ap` is the record in memory and `apFile` the saved one: a save that fails leaves
  them apart, `Restart` goes back to the file.
- **Delegation** - the tokens of `tokens.js`: `RegisterRoot` (`POST /v1/delegate` without a
  parent), `RegisterChild` (with one), `RevokeToken`, `SetPassportStatus`, `ChangeKeys`, `Tick`.
  `Attenuates` is the comparison of a child with its parent, `TokenUsable` and `Covers` what
  authorize and execute ask. Patterns and values are texts over any alphabet.
  `above` is a history variable: the chain that `assertTokenUsable` walks. `keys` is what
  `keyFor` accepts of each passport; how it comes to that is in Revocation, so `ChangeKeys`
  may make it any set. Every handler reads the clock of its gateway, one of `Clocks`: `now`
  is the slowest, and `Ahead` says how far ahead the others may be.
- **Glob** - `globMatch` as the positions where each part of the pattern can end (`ends`),
  with the one kind of character that `.` does not match and that the intents let through
  (`LineSeparator`), and `globSubset`.
- **Policy** - `policy.js` and `risk.js` as operators: conditions, `evaluate` (the policy that
  a sort by priority and age puts first among those of an effect), conflicts, creation and
  update of policies, the score and its bands.
- **Authorize** - authorize(), the approval of a step-up, execute() and doVerify() over one
  gateway's tokens (EXTENDS Delegation, Policy): `Authorize` and, after the token's budget is
  read, `Evaluate` decide; `Signed` or `SignerFails` answer after an await, `Approve` stands
  for the quorum of Approvals. Credentials are records of what `buildActionToken` and
  `buildApproval` put in them. `Execute` is given any credential, approval and intent
  together, and `Reserve` is apart from it, so that revocations and time come between.
  `Skew` is the time before a credential's iat that `execute()` tolerates (30 s,
  `server.js:312`). The kid of an intent that an agent did not sign is any; credentials
  without one, of passports from before keys had names, are left out.
- **Intent** - `canonicalIntent`, `normParams` and what they call, `hasDuplicateKeys` and
  `canonical`, over JSON values as records (recursive, so no proof module reaches it).
- **Limits** - the rate limiter, the seen cache, the bounded settings and `PUT risk`,
  as folds over calls.
- **Administration** - the first organization, API keys, policy versions, the
  revocation feed with a follower, receipts and checkpoints. `mem` and `file` are the
  collections and `puts` the writes of a handler in order; `Handle` makes all of them and
  replies, or the process dies after some of them (`Dies`), or one save throws
  (`SaveFails`). Awaits (a request's body, the signer) end an action.
- **Oidc** - the refresh of a provider's keys, the checks of an ID token, the role and
  organization of its caller.
- **PgReservation_proofs**, **FileReservation_proofs**, **RedisReservation_proofs**,
  **Revocation_proofs**, **MirrorStore_proofs**, **Approvals_proofs**, **Authorize_proofs**
  (with those of Glob, Delegation, Policy and Limits), **Administration_proofs** (with those
  of Oidc) - the
  theorems. **MC...** - instances for TLC.

Operators named in a comment as mutants are plausible bugs of one definition
(a dropped guard, a missing save, a wrong unit). `PROJECT.json` pairs every
property with the one that breaks it.

## 3. What the runs check

| run | instance | shows |
|---|---|---|
| `pg` | 3 calls, 2 gateways with one connection each, 5 kinds of request that share nonces, jtis and one token capped at 3 | single use, all or nothing, the cap and the sum of debits; that the transaction implements the ledger; that every call returns |
| `redis_day` | 3 calls, 4 kinds of request, a cap of 4, a clock past one lifetime, one lost connection per call | one winner per nonce and jti within a lifetime, a resent call included; the spend key covers what was reserved and counts nothing else |
| `file` | 3 intents (two share a nonce), 3 credentials, a clock past every expiry, crashes or failed writes | no intent and no credential executes twice; no answered execution's debit is forgotten |
| `revoke` | a passport under a blueprint, its sub-agent, a token of the one and one delegated to the other; 3 requests, up to 3 key names, a clock past the grace period, restarts, in behaviours with a sound disk and with one that fails | what was revoked stays refused, with everything below it; a superseded key that was revoked is never accepted again |
| `approvals` | 3 approvers of which 2 make the quorum, 4 requests, a clock past the approval's expiry, restarts, a disk that may fail | no action token before a distinct quorum is on disk, one token at most, none beside an answered refusal; answered votes and resolutions stay |
| `mirror` | 2 gateways, a revocation and 2 uses, at most 2 refreshes of one gateway and 1 of the other | acknowledged changes were written; a refresh that began after an acknowledgement sees the revocation; every request is answered |
| `authorize` | 2 agents, chains of up to 3 tokens that inherit, narrow or leave out what is above them, 2 requests for the same payment to two destinations, an execution, gateways whose clocks are 2 apart where 1 is tolerated, organizations that allow everything or have the seeded policies | a token stays within every token above it; what runs was decided, alone or by approvers, as it stands; it lay within every grant above its token, and neither its credential nor a token above was revoked, when execution began; what execute accepts verify calls valid, but for the time before its iat, and what verify calls valid execute accepts while the approval and the tokens above live |
| `admin` | 3 keys, 1 other target, 1 checkpoint, 3 receipts, one crash or one failed write | one organization for one bootstrap token; revoked and replaced keys stay dead; a follower of the feed misses nothing; checkpoints attest the chain; what was answered is recorded; no step takes back what clients were shown |

`MCAuthorize` and `MCAdministration` also state what the pure algorithms are for, as ASSUMEs
that TLC evaluates before these two runs: `globMatch` is "some text for every `*`" and
`globSubset` is sound for it (texts up to 3 and 4 characters, of one line); a deny wins over every set of
three policies; reported conflicts are real; the score is monotone in money, depth and
novelty; fewer than twice the limit pass in any minute, and exactly one less can; a pair is
seen if and only if it was marked recently and is among the last ones; the default step-up
band is below the default ceiling; requests save ordered thresholds; repeated keys are found
at each depth that is searched; resources have no empty and no climbing parts; an intent is
normalized once; different intents hash differently; a provider's token lets its caller into one
application; its keys are those of its last answer; more roles never make less of a
caller.

The bounds. Three calls let one transaction hold a row that a second waits for
while a third, behind the second, waits for the connection. The requests share
a nonce, a jti and a token in every pair, and 1 + 2 meets the cap exactly. The
file run has a nonce shared by two intents and credentials enough to authorize
one intent twice; its times are in units of which an intent lives 2 and a
consumed value is remembered 3, so each expiry comes while another is
still open. Three handlers let a suspension or an unlock fall inside a revocation that
falls inside a rotation. Four requests of three approvers let one vote, one complete
the quorum, and two more come while the signer is awaited, one of them a retry.
In `authorize` the two intents differ in their destination only. The root token names both
destinations, and a child may say nothing at all, name one destination and half of the
time, or name no destination (which is refused); with three jtis a grandchild inherits
what its parent inherited or narrowed, or narrows in its turn, and runs are made under each.
A credential of the one intent presented with the other, or a child that covers what its
parent does not, would show. The clocks are 0 and 2 ahead and `Skew` is 1, so that of a
credential presented before its iat one gateway tolerates the difference and another does
not. Two state constraints keep the run small. `OneOutage` stops behaviours at more than one
revocation, suspension or lost key, and at the last moment if there was one: each of them
refuses the execution, so that a second shows little more. `ThreeCalls` counts
registrations and requests together: three tokens, two and one request, or one and two
requests. There is one execution, of one cent under a cap of one: that debits add up to no
more than a cap is not for this run but for `pg` (`WithinCap`, `SpendIsSumOfGrants`) and
the theorem `DelegatedWithinGrants`. In `admin` three keys let an administrator rotate one key while
another revokes it, and three receipts hold a revocation, its repetition and what comes between.
`Horizon`, `MaxKid`, `MaxRefreshes`, `MaxRetries`, `MaxReceipts`, `MaxVersion`,
`MaxCheckpoints` and `MaxFaults` bound the clocks and counters; each is a guard of the
action that advances it. Symmetry is used in safety runs only.
Deadlock is not checked: calls, handlers and requests are made once, so every
instance ends.

Fairness, for the two liveness properties. `pg`: PostgreSQL executes the
statements it is sent and the pool's timer fires; nothing is assumed of callers, and
neither failures nor lost answers are assumed to happen or to stop. `mirror`:
the event loop runs what is ready, the database and the signer answer, and
a refresh whose flush found a write error rejects. Neither restarts nor write
failures are assumed.

## 4. What is proved

For every number of calls, gateways, nonces, jtis, tokens, passports, handlers, receipts and
patterns, every lifetime and every bound. Each component has one inductive invariant, `IInv`
(`DelegationInv` for the tokens): the properties speak of what a client can see (committed
rows, answers, runs), and `IInv` adds what the open steps know. TLC checks it before it is
proved: `IInv` is an invariant of the runs `pg`, `redis_day`, `revoke`, `mirror` and
`approvals`; those of FileReservation, Authorize and Administration were added to `file`,
`authorize` and `admin` while they were written, and `TypeOK` is part of each. Where a later
theorem needs more than `IInv` (a sum, what a decision came from), the proof module
strengthens it, and says what with.

- **PgReservation**: `Inductive`, and from it `TypeCorrect`, `Atomic` (`AllOrNothing`),
  `AtMostOnce` (`SingleUse`), `Capped` (`WithinCap`), and `Refinement`, that every step of
  the transaction is a step of the ledger or a stutter. `IInv` adds what an open
  transaction holds at each statement (`HoldsRows`), that the spend it read is
  still current while it holds the row (`ReadIsCurrent`), that a rejection stays
  justified (`RejectionIsTrue`) and that rows name the calls that committed them.
  `SumIsExact` (`SpendIsSumOfGrants`): `spent_cents` is the sum of the amounts that were
  granted, whatever aborts and however COMMIT answers are lost. A sum is stated as the
  cardinality of the set of its cents (call c and k in 1..amount), so that a debit adds a
  set apart from the others and no induction over calls is needed.
- **RedisReservation**: `Inductive`, and from it `ReservationsApart` (`SingleWinner`),
  `RefusalsKeepCredential` (`JtisBelongToGrants`) and `CapHolds` (`WithinCap`), all with lost
  connections and resent commands. The core is `KeysOutliveGrant`: for a lifetime after a
  grant its two keys are there, so that nobody else is granted them. `SpendCoversGrants`
  (`SpendIsSumOfGrants`): while the spend key of a token lives, it is within the cap, covers
  every reservation of the last lifetime, and counts no debit that was not a reservation.
  (Counted per call it would be false: a call resent after a lifetime is granted
  again, and debited again, which is why `grants` has reservations.) `PositiveTtlAnswers`
  is the other side of the run `redis_server_ttl`: if the lifetime were not 0, every
  error would be a lost connection.
- **FileReservation**: `Inductive` and `RetentionSuffices` (`SingleUse`) under `Retained`: an
  intent can be presented for `IntentTtl + Skew` at most and nonce.js remembers for at
  least as long. `IInv` carries, across pruning, crashes and failed writes, that the
  nonce of an intent that ran is remembered until the intent expires, and that
  the file agrees with memory on all that has not expired if the disk is sound.
  `ExecutionsAreOnDisk` (`RunsAreDebited`) needs no `Retained`: whatever nonce.js forgets,
  every execution that was answered has its amount in `tokens.json`. Its invariant adds
  that the debit of the call about to answer is on disk besides.
- **Revocation**: `Inductive`, and from it `RevokeTerminal` (`RevokedFailsClosed`, which speaks
  of behaviours without `diskFails`), `OldKeysTerminal` (`OldKeysStayRevoked`, of all) and
  `TypeCorrect`. `IInv` says that names of keys are unique in memory and in the file,
  that a revoked superseded key is marked in both before its revocation is
  recorded, and that an answered revocation is in the saved collection.
- **MirrorStore**: `Inductive`, and from it `AcknowledgedIsStored` (`AckedWasWritten`) and
  `FreshRefreshIsEnough` (`FreshRefreshSeesRevoked`), for any number of gateways and writes.
  A handler's change is in an object, and the queue writes objects: `Secured` follows the
  change from the object it was made in, through the queue (`Carried`: it is stored, or the
  next flush throws, or one of the first k entries to write has it), to the answer.
  `RefreshSees` and `ViewSees` say of a refresh, and of the requests that will use it, that if
  it began after the acknowledgement it has not read the passports' state from before.
- **Approvals**: `Inductive`, and from it `TypeCorrect`, `QuorumIsDistinct`
  (`DistinctQuorum`), `MintsOnce` (`OneMint`), `RefusalHolds` (`RefusedIsRefused`),
  `VotesAreKept` (`AckedVotesStay`) and the action property `ResolvedStays`
  (`ResolvedForGood`), all with failing saves and restarts. The invariant's core is
  `FileIsBehind`: the file may lack votes or the decision, but its votes are a
  prefix of the memory's, and once it is resolved it equals the memory; and
  `MintersAreQuorate`: whoever awaits the signer is alone, and the file says approved.
- **Delegation** (in Authorize_proofs): `DelegationInductive`, and from it `Attenuation`
  (`WithinEveryAncestor`): no token grants more than any token above it, in scope, resources,
  targets, spend, depth and time, for any patterns and any order of registrations,
  revocations and suspensions. The code compares a child with its parent only, and stores
  what the child left out as its parent's (`Effective`); the invariant says that a token lies
  within its parent and its chain is its parent's chain and its parent (`Linked`), and the
  step is the transitivity of `Within`. `docs/security/limitations.md:88,103` lists the formal
  verification of this attenuation as open; this is of the model, and includes the
  comparison of patterns: `MatchIsText` says that `globMatch(p, v)` holds exactly when v is p
  with some text for every `*`, and `GlobSubsetIsSound` that a pattern that passes
  `globSubset` matches no more than its parent, for patterns and values of any length. Both
  are of values of one line (`TextAssumption`), as the converse is a disagreement (section 5).
  Inductions over positions go through a set of naturals (`NatsInSet`, from the well-founded
  minimum of a set), because the library's induction rules take an operator.
- **Authorize**: `Inductive`, and from it `ExactActionOrNothing` (`RunsWereDecided`),
  `DelegatedWithinGrants` (`RunsWithinAuthority`), `ExecuteAgreesWithVerify` (`VerifyAgrees`)
  and `AttenuationInUse`, for any policies, scores and thresholds, and any clocks. A credential
  carries the decision it came from, names its intent's passport and comes with its approval
  (`CredentialFits`), under a token of that passport that covers the intent (`OwnToken`), and
  is not changed once it is made. That is why what verify calls valid is accepted by
  execute(), though verify compares it with no intent: the second half of
  `ExecuteAgreesWithVerify`. The first half, that verify calls valid what execute() accepts,
  is but for `iat <= t`: a clock that is behind the signer's by less than `Skew` executes what
  /v1/verify refuses there and then. Tokens, once
  registered, do not change (`TokensStay`); so what `execute()` compared is still true of the
  reservation it leads to (`ReservationFits`), and of the run (`RunFits`), though
  revocations and time came between. `Weighed` adds that every decision is one that some
  rules make at the depth of its token; from it and from `DenyOverrides`, `DeniedNeverRuns`: an
  intent that every setting of its organization has a matching deny for never runs, and
  `ApprovalIsRequired`: one that they all require an approval for never runs without it.
- **Policy**: `DenyOverrides` (the reference definition `DenyWins`) and `FirstPolicyDecides`
  for any number of policies and any priorities; `ReportedConflictsAreReal`;
  `RiskIsMonotone`, for every action, amount and depth.
- **Limits**: `RateIsBounded`, that a minute admits fewer than two limits of calls, for any limit
  and any times that do not decrease: the calls counted in the bucket that ends within the
  minute have different counts and not the first, those of the next have different counts
  (`LaterCounts`, `DifferentCounts`). `PutRiskKeepsOrder`: a request saves thresholds that are
  in order, or none. `DefaultBandIsOrdered`.
- **Administration**: `Inductive`, and from it `TokenMakesOne` (`OneOrganization`),
  `RevokedKeysStayOut` (`DeadKeysStayDead`), `FeedIsGapless` (`FollowerMissesNothing`),
  `CheckpointsHold` (`CheckpointsAttest`) and `AnswersAreRecorded` (`AckedIsRecorded`),
  wherever a crash or a failed write cuts the puts of a handler, and the action property
  `NothingIsTakenBack` (`HistoryOnlyGrows`): no step, a restart after half of a request
  included, shortens or rewrites the chain, takes a record out of the feed, lowers
  a version or brings a revoked key back. `MadeOnce`, `MadeTwice` and
  `MadeNever` say what the first n puts leave in a collection; `Grows` is what a step may do
  (nothing leaves the feed or the chain, no dead key comes back, no version is recorded
  before it is reached), and `GrowsIInv` that this is enough. `FeedFits` is why a restart does
  not give a number twice: the counter, or the highest record if there is none, is the head.
- **Oidc**: `TokenIsForOne` (`OneAudience`): a token that two verifiers accept names both
  of their audiences, so it names more than one, and its `azp` is one of them at most.
  `DefaultRolesGrow` (`MoreRolesNeverLess`), for the default role map and any claims.

The assumptions are the modules' named ASSUMEs (types and disjointness of the
constants), which TLC evaluates in every run, and the hypotheses `Retained` and `Ttl # 0`
where a theorem names them. Only model-checked:

- `EveryCallReturns` and `EveryRequestAnswered`: liveness under fairness needs ENABLED;
- the algorithms over recursive data (Intent) and over folds (the seen cache; a sequence of
  threshold requests, of which the single request is proved; `KeysAreTheLast`, the refreshes
  of a provider's keys): what a recursion computes for every input needs an induction rule
  that no installed prover can instantiate.

Every safety property and action property that a passing run checks is a theorem.

## 5. Disagreements found

- `redis_server_ttl`: `execute()` passes 0 as the lifetime (`server.js:346`) and
  Redis rejects `SET ... EX 0`: no execution can be reserved on Redis.
- `revoke_then_rotate`: a current key that was revoked is accepted again
  for the grace period after a rotation, since the history gets it unrevoked
  (`tokens.js:172`).
- `approvals_signer`: the approval is stored as approved before its credentials are
  signed (`server.js:823`); if the signer fails once, they are never delivered, as
  every further request is refused as already resolved. The run has a disk that works and a
  process that goes on (`SignerSpec`), so that the signer is what fails.
- `mirror_touch`: `touchLastSeen` writes a whole passport from the mirror, so a
  request on an older mirror undoes an acknowledged suspension (`tokens.js:215`).

Limits of what holds, which the properties state as conditions: the ten minutes
of `nonce.js` do not follow `AUTHRA_INTENT_TTL_S` (`Retained`); a request that joins a
refresh sees what that refresh read (`FreshRefreshSeesRevoked` counts from the
refresh); unlocking an org makes it usable whether or not it was revoked; a
revocation whose save failed is acknowledged when it is retried and a restart
forgets it (`RevokedFailsClosed` takes a disk that works, and `OldKeysStayRevoked`, which
does not, reads key histories and not revocation records: no property covers that retry).

What the code does where its documents say otherwise, or say nothing, met on the way
(those marked A are ASSUMEs that TLC evaluates):

- A first payment scores 70, past the step-up band and below the ceiling, and is allowed; the
  same payment again scores less and needs an approval (A, `RepeatStepsUp`). A denied attempt
  and a dry run mark the pair as seen too; `/v1/policies/simulate` ignores risk.
- A `*` stands for no text with a line separator (U+2028, U+2029), which `canonicalIntent`
  lets through, though it refuses other line breaks. `globSubset` does not know: a child
  pattern `a<U+2028>*` passes under `a*` and matches `a<U+2028>`, which `a*` does not (A,
  `SeparatorIsNotCovered`; `docs/guide/delegation.md:45` has "child ⊆ parent (glob)").
- Conflicts between two patterns that cross are not reported (A, `CrossedConflictIsMissed`;
  `policy.js:91`); a time window past midnight is never open (A, `NightIsNever`).
- Thresholds that `PUT risk` refuses are in force in memory and saved by the next lock (A,
  `RefusedThresholdsStay`); one given alone is not compared with the other's default (A,
  `LoneThresholdPasses`).
- `hasDuplicateKeys` finds nothing below its depth limit (A, `DeepDuplicatesAreMissed`), and
  `canonical` leaves out keys named `signature` at every depth, so that such a parameter
  is not hashed (A, `SignatureIsNotHashed`).
- A refresh whose answer has no keys replaces the keys before it is refused (A,
  `BadRefreshForgetsKeys`; `oidc.js:108-109`); with a role map that names a lesser role
  first, more claims make less of a caller (A, `OrderOfRolesDecides`).
- `require_approval` in a token's constraints is read by nothing, though
  `docs/guide/delegation.md` says it is enforced. `globSubset` refuses some narrowings
  (`ab*` under `a*b*`). A sibling's spending does not reduce its parent's cap.
- execute() tolerates 30 s before a credential's iat (`server.js:312`, a constant:
  `AUTHRA_CLOCK_SKEW_S` of `PROTOCOL.md:122` is read for intents only); verifyOffline
  tolerates none (`intent.js:201`), although `docs/sdk/offline-verification.md:46` says "iat
  <= now <= exp (with clock skew tolerance)" and `docs/security/cryptography.md:75` the same
  of both times (A, `SkewIsNotVerified`). So a gateway whose clock is behind executes what it
  does not verify, which `VerifyAgrees` says.
- Of an expired credential, or one whose iat is to come, verifyOffline leaves the payload null;
  doVerify reads its organization all the same (`server.js:912`) and refuses by a TypeError.
- Approval credentials have no `iat`, so that doVerify rejects each of them.
- If a put fails in `POST /v1/orgs` after the organization's, nothing awaits the rejected promise
  and the process ends; the organization may then have no key, and the bootstrap token
  is refused. Rotating a revoked key makes a live one; a crash between its two puts leaves
  none. Keys expire, the first one too, twelve hours after it was made; without a live admin key
  an organization cannot get another. A key revoked while its request's body is awaited
  still acts. Making a key writes no receipt.
- `FileStore.backend()` is not the name `audit.js` compares with, so the local log of
  `audit.js:81-97` is reached on no backend (`PROTOCOL.md:176` describes it); it would end its
  lines with a backslash and an n and split them at newlines.

## 6. Not modelled

- Cryptography (signatures are taken as unforgeable, hashes as injective), the network
  protocols of the KMS providers and SPIFFE, output, the dashboard, the SDKs and adapters:
  clients, or no state that the gateway depends on.
- Receipts, the feed, votes and checkpoints on PostgreSQL's or Redis's mirror with several
  gateways. They are writes of whole records through the store that MirrorStore models for
  passports, and the code promises less there: two gateways give the same receipt number
  (`audit.js:72`), each writes an approval with its own vote (`server.js:812`), a follower
  gets records from the mirror and the head from the database (`server.js:894`).
- The composition of execute() with the mirror: a revocation after the check and before the
  reservation is not seen, and no document says it would be.
- Expiry of API keys and passports, agent registration, list and read routes, `del`, evidence
  bundles, anchoring, metrics, migrations: reads, plain writes, or I/O.

## 7. Plan

1. Proofs: that FileReservation, where neither the process nor the disk lets it down and
   while nothing is forgotten, implements ExecutionLedger; which steps of MirrorStore may take
   a change out of the database again; the seen cache, by induction over its calls as a set.
2. The audit chain and the feed on the mirror, with receipts that a refresh may drop.
3. Execute on the mirror: MirrorStore with the ledger of PgReservation.
