---------------------------- MODULE Administration ----------------------------
(***************************************************************************)
(* What an organization's administrator does with one gateway: the         *)
(* bootstrap token makes the first organization and its key, keys make     *)
(* other keys and replace and revoke them, policies get new versions, the  *)
(* revocation feed is polled, and every change leaves a receipt in a chain *)
(* that checkpoints sign.                                                  *)
(*                                                                         *)
(* One gateway on the file backend: every put changes the collection in    *)
(* memory and saves it whole.  A handler is a sequence of puts that runs   *)
(* alone, from the last thing it awaits (its body, or the signer); the     *)
(* process can die after any of them, or the disk can refuse one.          *)
(***************************************************************************)
EXTENDS Integers, SequencesExt

CONSTANTS
  Keys,          \* API keys that may come to exist
  Targets,       \* what else is revoked: tokens, action credentials
  Signings,      \* checkpoints that may await the signer at one time
  Roles,         \* "admin" and lesser ones
  Nothing,
  MaxReceipts, MaxVersion, MaxCheckpoints, MaxFaults   \* bounds

KeyRecords == [role : Roles, revoked : BOOLEAN]

ASSUME AdministrationAssumption ==
  /\ "admin" \in Roles
  /\ Nothing \notin Nat /\ Nothing \notin KeyRecords

Genesis == [body |-> <<"genesis">>]

VARIABLES
  weak,       \* what lets this behaviour down: the "process" may die and start
              \* again, or writes to the "disk" may fail
  faults,     \* how often that has happened
  mem, file,  \* the collections: in memory, and in their files
  revSeq,     \* the last number of the feed, or Nothing until it is asked for
  waiting,    \* keys whose request to make or rotate a key was let in, but whose
              \* body has not arrived
  signing,    \* signing[s]: the checkpoint that is with the signer
  cursor, delivered,  \* a follower of the feed: the head it was last told, and
                      \* the records it was given
  acked       \* receipts of the requests that were answered with success

vars == <<weak, faults, mem, file, revSeq, waiting, signing, cursor, delivered, acked>>
process == <<revSeq, waiting, signing>>
clients == <<cursor, delivered, acked>>

Init ==
  /\ weak \in {"process", "disk"} /\ faults = 0
  /\ file = [orgs |-> 0, boot |-> TRUE, apikeys |-> [k \in Keys |-> Nothing], policies |-> 0,
             revocations |-> {}, audit_receipts |-> <<>>, audit_checkpoints |-> <<>>]
  /\ mem = file
  /\ revSeq = Nothing /\ waiting = {} /\ signing = [s \in Signings |-> Nothing]
  /\ cursor = 0 /\ delivered = {} /\ acked = {}

-----------------------------------------------------------------------------
(* The store.                                                              *)

Put(collection, value) == [collection |-> collection, value |-> value]

(* What the first n puts make of the collections: the last one of each.    *)
Written(store, puts, n) ==
  [c \in DOMAIN store |->
     LET own == {i \in 1..n : puts[i].collection = c} IN
     IF own = {} THEN store[c] ELSE puts[Max(own)].value]

Saved(puts) ==
  /\ mem' = Written(mem, puts, Len(puts))
  /\ file' = Written(file, puts, Len(puts))
  /\ UNCHANGED <<weak, faults>>

(* save throws: the change stays in memory and the handler stops.          *)
SaveFails(puts, stop) ==
  /\ weak = "disk" /\ faults < MaxFaults /\ faults' = faults + 1
  /\ \E n \in DOMAIN puts :
       /\ mem' = Written(mem, puts, n)
       /\ file' = Written(file, puts, n - 1)
  /\ stop
  /\ UNCHANGED <<weak, clients>>

(* The process dies after some of the puts, and starts again from the      *)
(* files.                                                                  *)
Dies(puts) ==
  /\ faults < MaxFaults /\ faults' = faults + 1
  /\ \E n \in 0..Len(puts) : file' = Written(file, puts, n)
  /\ mem' = file'
  /\ revSeq' = Nothing /\ waiting' = {} /\ signing' = [s \in Signings |-> Nothing]
  /\ UNCHANGED <<weak, clients>>

(* A handler makes its puts and replies, or is cut short: stop says what   *)
(* an error leaves of it.                                                  *)
Handle(puts, reply, stop) ==
  \/ Saved(puts) /\ reply
  \/ SaveFails(puts, stop)
  \/ weak = "process" /\ Dies(puts)

-----------------------------------------------------------------------------
(* Keys.                                                                   *)

Live(k) == mem.apikeys[k] # Nothing /\ ~mem.apikeys[k].revoked

Admin(k) == Live(k) /\ mem.apikeys[k].role = "admin"

NewKey(role) == [role |-> role, revoked |-> FALSE]

(* lookupKey stamps the key it accepts with the time, and saves it.        *)
LastUsed == Put("apikeys", mem.apikeys)

(* Mutant: a key is revoked in the feed only.                              *)
RevokedInFeedOnly(keys, k) == keys

Revoked(keys, k) == [keys EXCEPT ![k].revoked = TRUE]

-----------------------------------------------------------------------------
(* Receipts.                                                               *)

LastOf(receipts) == IF receipts = <<>> THEN Genesis ELSE Last(receipts)

Receipt(body) == [prev |-> LastOf(mem.audit_receipts), body |-> body]

(* Mutant: what is in memory only is left out.                             *)
AppendedToFile(body) == Append(file.audit_receipts, Receipt(body))

Appended(body) == Append(mem.audit_receipts, Receipt(body))

Record(body) == Put("audit_receipts", Appended(body))

(* audit.verify: every receipt is hashed with the one before it.           *)
Verified(receipts) ==
  \A i \in DOMAIN receipts : receipts[i].prev = IF i = 1 THEN Genesis ELSE receipts[i - 1]

(* The request is answered, and named in a receipt.                        *)
Ack(body) ==
  /\ acked' = acked \cup {Receipt(body)}
  /\ UNCHANGED <<cursor, delivered>>

Room == Len(mem.audit_receipts) < MaxReceipts

-----------------------------------------------------------------------------
(* The first organization.                                                 *)

(* Mutant: the token is good while its file is there.                      *)
checkBootstrapFile == file.boot

checkBootstrap == mem.orgs = 0 /\ file.boot

NewOrg == Put("orgs", mem.orgs + 1)
SeedPolicies == Put("policies", 1)

(* POST /v1/orgs: the organization, its policies, its first key; then the  *)
(* token's files are removed, or are not, and there is the receipt.  What  *)
(* is thrown here is caught nowhere, and ends the process.                 *)
CreateOrg(k) ==
  /\ checkBootstrap
  /\ mem.apikeys[k] = Nothing /\ Room
  /\ \E consumed \in BOOLEAN :
       LET puts == <<NewOrg, SeedPolicies,
                     Put("apikeys", [mem.apikeys EXCEPT ![k] = NewKey("admin")]),
                     Put("boot", ~consumed), Record(<<"org.create">>)>>
       IN  /\ consumed \/ weak = "disk"
           /\ \/ Saved(puts) /\ Ack(<<"org.create">>) /\ UNCHANGED process
              \/ Dies(puts)

-----------------------------------------------------------------------------
(* API keys.                                                               *)

(* POST keys and keys/rotate look the key up, and then wait for the body.  *)
Admit(k) ==
  /\ Admin(k)
  /\ Handle(<<LastUsed>>, waiting' = waiting \cup {k} /\ UNCHANGED <<revSeq, signing, clients>>,
            UNCHANGED process)

LeavesWaiting(k) == waiting' = waiting \ {k} /\ UNCHANGED <<revSeq, signing>>

(* The key made is handed over, and no receipt is written.                 *)
MintKey(k, new, role) ==
  /\ k \in waiting /\ mem.apikeys[new] = Nothing
  /\ Handle(<<Put("apikeys", [mem.apikeys EXCEPT ![new] = NewKey(role)])>>,
            LeavesWaiting(k) /\ UNCHANGED clients, LeavesWaiting(k))

(* The old key is revoked and saved, whatever it was, before the new one.  *)
RotateKey(k, old, new) ==
  /\ k \in waiting /\ mem.apikeys[old] # Nothing /\ mem.apikeys[new] = Nothing /\ Room
  /\ LET rotated == <<"apikey.rotate", old>>
         without == Revoked(mem.apikeys, old)
     IN  Handle(<<Put("apikeys", without),
                  Put("apikeys", [without EXCEPT ![new] = NewKey(mem.apikeys[old].role)]),
                  Record(rotated)>>,
                Ack(rotated) /\ LeavesWaiting(k), LeavesWaiting(k))

-----------------------------------------------------------------------------
(* The revocation feed.                                                    *)

Numbers == {r.seq : r \in mem.revocations}

(* Mutant: the numbers start again when the process does.                  *)
RestartedSeq == IF revSeq = Nothing THEN 0 ELSE revSeq

(* ensureRevocationSeq.                                                    *)
CurrentSeq == IF revSeq = Nothing THEN Max({0} \cup Numbers) ELSE revSeq

(* Mutant: what is in the feed already needs no receipt.                   *)
OncePuts(t, rest) ==
  IF \E r \in mem.revocations : r.target = t THEN <<LastUsed>> ELSE <<LastUsed>> \o rest

RevokePuts(t, rest) == <<LastUsed>> \o rest

(* POST /v1/revoke for a key, or for something else that the collections   *)
(* here do not hold.  What was revoked before keeps its number.            *)
Revoke(k, t) ==
  LET known == {r \in mem.revocations : r.target = t}
      rec == IF known # {} THEN CHOOSE r \in known : TRUE
             ELSE [target |-> t, seq |-> CurrentSeq + 1]
      body == <<"revoke", t, rec.seq>>
      ofKey == IF t \in Keys THEN <<Put("apikeys", Revoked(mem.apikeys, t))>> ELSE <<>>
      feed == IF known # {} THEN <<>> ELSE <<Put("revocations", mem.revocations \cup {rec})>>
      puts == RevokePuts(t, ofKey \o feed \o <<Record(body)>>)
  IN
  /\ Admin(k) /\ Room
  /\ t \in Keys => mem.apikeys[t] # Nothing
  /\ \/ /\ Saved(puts) /\ Ack(body)
        /\ revSeq' = IF known # {} THEN revSeq ELSE rec.seq
        /\ UNCHANGED <<waiting, signing>>
     \/ /\ weak = "disk" /\ faults < MaxFaults /\ faults' = faults + 1
        /\ \E n \in DOMAIN puts :
             /\ mem' = Written(mem, puts, n) /\ file' = Written(file, puts, n - 1)
             /\ revSeq' = IF known = {} /\ mem'.revocations # mem.revocations
                          THEN rec.seq ELSE revSeq
        /\ UNCHANGED <<weak, waiting, signing, clients>>
     \/ weak = "process" /\ Dies(puts)

(* GET /v1/revoked?since_seq: the next poll starts from head_seq.          *)
Poll(k) ==
  /\ Live(k)
  /\ Handle(<<LastUsed>>,
            /\ delivered' = delivered \cup {r \in mem.revocations : r.seq > cursor}
            /\ cursor' = CurrentSeq /\ revSeq' = CurrentSeq
            /\ UNCHANGED <<waiting, signing, acked>>,
            UNCHANGED process)

-----------------------------------------------------------------------------
(* PUT /v1/policies/:id.                                                   *)
UpdatePolicy(k) ==
  LET version == mem.policies + 1
      body == <<"policy.update", version>>
  IN
  /\ Admin(k) /\ Room /\ mem.policies \in 1..MaxVersion - 1
  /\ Handle(<<LastUsed, Put("policies", version), Record(body)>>, Ack(body) /\ UNCHANGED process,
            UNCHANGED process)

-----------------------------------------------------------------------------
(* POST /v1/audit/checkpoint: what is signed is read before the signer is  *)
(* awaited, and the checkpoint is kept after.                              *)
Checkpointed ==
  [count |-> Len(mem.audit_receipts), head |-> LastOf(mem.audit_receipts),
   prev |-> Len(mem.audit_checkpoints)]

(* Mutant: the count is read when the signature is there.                  *)
SignedLate(s) == [signing[s] EXCEPT !.count = Len(mem.audit_receipts)]

Signed(s) == signing[s]

StartCheckpoint(s, k) ==
  /\ Admin(k) /\ signing[s] = Nothing /\ Len(mem.audit_checkpoints) < MaxCheckpoints
  /\ Handle(<<LastUsed>>,
            /\ signing' = [signing EXCEPT ![s] = Checkpointed]
            /\ UNCHANGED <<revSeq, waiting, clients>>,
            UNCHANGED process)

(* The signer fails, or the checkpoint is kept.                            *)
EndCheckpoint(s) ==
  LET end == signing' = [signing EXCEPT ![s] = Nothing] /\ UNCHANGED <<revSeq, waiting>> IN
  /\ signing[s] # Nothing
  /\ \E puts \in {<<>>, <<Put("audit_checkpoints", Append(mem.audit_checkpoints, Signed(s)))>>} :
       Handle(puts, end /\ UNCHANGED clients, end)

Next ==
  \/ \E k \in Keys :
       \/ CreateOrg(k) \/ Admit(k) \/ Poll(k) \/ UpdatePolicy(k)
       \/ \E new \in Keys :
            \/ \E role \in Roles : MintKey(k, new, role)
            \/ \E old \in Keys : RotateKey(k, old, new)
       \/ \E t \in Keys \cup Targets : Revoke(k, t)
       \/ \E s \in Signings : StartCheckpoint(s, k)
  \/ \E s \in Signings : EndCheckpoint(s)

Spec == Init /\ [][Next]_vars

-----------------------------------------------------------------------------
(* Properties.                                                             *)

(* The bootstrap token makes one organization, wherever the process dies   *)
(* between making it and removing the token.                               *)
OneOrganization == mem.orgs <= 1 /\ file.orgs <= 1

(* A key that was revoked or replaced, and the administrator told so, is   *)
(* never let in again, whatever is saved, restarted or polled after.       *)
DeadKeysStayDead ==
  \A k \in Keys :
    (\E r \in acked : r.body[1] \in {"apikey.rotate", "revoke"} /\ r.body[2] = k) => ~Live(k)

(* A follower that polls from the last head_seq is given every revocation  *)
(* up to it: no number is given twice or late.                             *)
FollowerMissesNothing ==
  \A r \in mem.revocations : r.seq <= cursor => r \in delivered

(* "signs {count, head, prev}": every checkpoint names a receipt that is   *)
(* still where it was, in a chain that verifies.                           *)
CheckpointsAttest ==
  LET receipts == mem.audit_receipts IN
  /\ Verified(receipts)
  /\ \A c \in ToSet(mem.audit_checkpoints) :
       /\ c.count <= Len(receipts)
       /\ c.head = IF c.count = 0 THEN Genesis ELSE receipts[c.count]

(* Every request that was answered with success is in the chain for good,  *)
(* a revocation is in the feed under the number of its receipt, and no     *)
(* version of a policy is recorded twice.                                  *)
AckedIsRecorded ==
  /\ acked \subseteq ToSet(mem.audit_receipts)
  /\ \A r \in acked :
       r.body[1] = "revoke" => [target |-> r.body[2], seq |-> r.body[3]] \in mem.revocations
  /\ \A i, j \in DOMAIN mem.audit_receipts :
       mem.audit_receipts[i].body = mem.audit_receipts[j].body
         /\ mem.audit_receipts[i].body[1] = "policy.update" => i = j

(* Nothing that a client was shown is taken back, by a crash in the middle *)
(* of a request or a write that failed: the chain gets longer at its end,  *)
(* revocations stay in the feed under their numbers, versions of a policy  *)
(* only go up, and a key that is revoked is not good again.                *)
KeepsHistory ==
  /\ IsPrefix(mem.audit_receipts, mem'.audit_receipts)
  /\ mem.revocations \subseteq mem'.revocations
  /\ mem.policies <= mem'.policies
  /\ \A k \in Keys :
       mem.apikeys[k] # Nothing /\ mem.apikeys[k].revoked
         => mem'.apikeys[k] # Nothing /\ mem'.apikeys[k].revoked
HistoryOnlyGrows == [][KeepsHistory]_vars

-----------------------------------------------------------------------------
(* The inductive invariant.                                                *)

Collections == {"orgs", "boot", "apikeys", "policies", "revocations", "audit_receipts",
                "audit_checkpoints"}

IsSeq(s) == s \in Seq(ToSet(s))

TypeOK ==
  /\ weak \in {"process", "disk"}
  /\ DOMAIN mem = Collections /\ DOMAIN file = Collections
  /\ mem.apikeys \in [Keys -> KeyRecords \cup {Nothing}]
  /\ mem.policies \in Nat
  /\ mem.revocations \subseteq [target : Keys \cup Targets, seq : Nat]
  /\ IsSeq(mem.audit_receipts) /\ IsSeq(mem.audit_checkpoints)
  /\ waiting \subseteq Keys /\ DOMAIN signing = Signings
  /\ cursor \in Nat

(* Memory and the files are one where a process may start again, and until *)
(* there is an organization, without which nothing else is either.         *)
StoreFits ==
  /\ mem.orgs \in {0, 1} /\ file.orgs = mem.orgs
  /\ weak = "process" \/ mem.orgs = 0 => file = mem
  /\ mem.orgs = 0 =>
       /\ mem.policies = 0 /\ \A k \in Keys : mem.apikeys[k] = Nothing
       /\ waiting = {} /\ \A s \in Signings : signing[s] = Nothing

(* The feed's counter is the highest number in it, and no follower was     *)
(* told of a later one.                                                    *)
IsHead(n) == \A m \in Numbers : m <= n

FeedFits ==
  /\ \E n \in {0} \cup Numbers : IsHead(n) /\ cursor <= n /\ revSeq \in {n, Nothing}
  /\ FollowerMissesNothing

Attests(c) ==
  LET receipts == mem.audit_receipts IN
  /\ c.count \in 0..Len(receipts)
  /\ c.head = IF c.count = 0 THEN Genesis ELSE receipts[c.count]

(* A version that is recorded was reached, and each was recorded once.     *)
VersionsFit ==
  \A i \in DOMAIN mem.audit_receipts :
    LET body == mem.audit_receipts[i].body IN
    body[1] = "policy.update" =>
      /\ body[2] \in 1..mem.policies
      /\ \A j \in DOMAIN mem.audit_receipts : mem.audit_receipts[j].body = body => i = j

ChainFits ==
  /\ Verified(mem.audit_receipts)
  /\ \A c \in ToSet(mem.audit_checkpoints) : Attests(c)
  /\ \A s \in Signings : signing[s] # Nothing => Attests(signing[s])
  /\ VersionsFit

Dead(k) == mem.apikeys[k] # Nothing /\ mem.apikeys[k].revoked

(* What an answered request did is still done.                             *)
StillDone(r) ==
  /\ r \in ToSet(mem.audit_receipts)
  /\ r.body[1] = "revoke" => [target |-> r.body[2], seq |-> r.body[3]] \in mem.revocations
  /\ r.body[1] \in {"apikey.rotate", "revoke"} /\ r.body[2] \in Keys => Dead(r.body[2])

IInv ==
  /\ TypeOK /\ StoreFits /\ FeedFits /\ ChainFits
  /\ \A r \in acked : StillDone(r)

=============================================================================
