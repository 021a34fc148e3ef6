------------------------------ MODULE Revocation ------------------------------
(***************************************************************************)
(* Passports, their keys, blueprints, delegation tokens and the org lock:  *)
(* the handlers that suspend, revoke, rotate and lock, and the checks      *)
(* (assertPassportUsable, assertTokenUsable, keyFor) that authorize and    *)
(* execute make against what the handlers left.                            *)
(*                                                                         *)
(* One gateway on the file backend.  getStore().get returns the record     *)
(* itself, so a handler's change is visible at once; the handler then      *)
(* awaits the org signer, during which every other handler may run, saves, *)
(* and records the revocation.  A collection is saved whole.               *)
(***************************************************************************)
EXTENDS Integers

CONSTANTS
  Passports, Blueprints, Tokens,
  Up,           \* Up[p]: p, its parent, its parent's parent...
  TokenUp,      \* TokenUp[t]: t and the tokens it was delegated from
  holder,       \* holder[t]: sub, the passport that holds t
  blueprintOf,  \* blueprintOf[p], or NoBlueprint
  NoBlueprint, Org,
  Handlers,     \* requests, each made at most once
  Grace,        \* grace_period_s
  MaxKid,       \* bound on rotations
  Horizon       \* bound on the clock

Kids == 1..MaxKid

(* What a request revokes: the type and target, and for keys the kid, that *)
(* make up the id of a record of the revocations collection.               *)
Target(type, target) == [type |-> type, target |-> target, kid |-> 0]
Key(type, p, k) == [type |-> type, target |-> p, kid |-> k]

Revocations ==
  [type : {"passport"}, target : Passports, kid : {0}]
    \cup [type : {"blueprint"}, target : Blueprints, kid : {0}]
    \cup [type : {"token"}, target : Tokens, kid : {0}]
    \cup [type : {"org"}, target : {Org}, kid : {0}]
    \cup [type : {"key"}, target : Passports, kid : Kids]

(* "oldkey" is a key that was already superseded when it was revoked.      *)
NoJob == Target("none", Org)
Jobs == Revocations \cup [type : {"oldkey"}, target : Passports, kid : Kids] \cup {NoJob}

ASSUME RevocationAssumption ==
  /\ Up \in [Passports -> SUBSET Passports]
  /\ TokenUp \in [Tokens -> SUBSET Tokens]
  /\ holder \in [Tokens -> Passports]
  /\ blueprintOf \in [Passports -> Blueprints \cup {NoBlueprint}]
  /\ NoBlueprint \notin Blueprints
  /\ Grace \in Nat /\ MaxKid \in Nat \ {0} /\ Horizon \in Nat

VARIABLES
  diskFails,           \* in this behaviour writes to the data directory may fail
  now,
  pass, passFile,      \* the passports collection, and passports.json
  locked, lockedFile,  \* org.locked
  bps, bpsFile,        \* blueprints whose status is revoked
  revs, revsFile,      \* the revocations collection
  pc,    \* pc[h]: "idle" (not made yet), "sign" (awaiting the signer), "record"
         \* (addRevocation is next), "reply", "done"
  job,   \* job[h]: what request h revokes, or NoJob
  acked  \* revocations that were answered with ok

vars == <<diskFails, now, pass, passFile, locked, lockedFile, bps, bpsFile, revs, revsFile, pc, job, acked>>
orgs == <<locked, lockedFile>>
blueprints == <<bps, bpsFile>>
passports == <<pass, passFile>>
revocations == <<revs, revsFile>>

Statuses == {"active", "suspended", "revoked"}
OldKeys == [kid : Kids, until : 0..(Horizon + Grace), revoked : BOOLEAN]
PassportRecords ==
  [status : Statuses, kid : Kids, revoked : BOOLEAN, history : SUBSET OldKeys]
TypeOK ==
  /\ diskFails \in BOOLEAN
  /\ now \in 0..Horizon
  /\ pass \in [Passports -> PassportRecords]
  /\ passFile \in [Passports -> PassportRecords]
  /\ locked \in BOOLEAN /\ lockedFile \in BOOLEAN
  /\ bps \subseteq Blueprints /\ bpsFile \subseteq Blueprints
  /\ revs \subseteq Revocations /\ revsFile \subseteq Revocations
  /\ pc \in [Handlers -> {"idle", "sign", "record", "reply", "done"}]
  /\ job \in [Handlers -> Jobs]
  /\ acked \subseteq Jobs \ {NoJob}

NewPassport == [status |-> "active", kid |-> 1, revoked |-> FALSE, history |-> {}]

Init ==
  /\ diskFails \in BOOLEAN
  /\ now = 0
  /\ pass = [p \in Passports |-> NewPassport]
  /\ passFile = [p \in Passports |-> NewPassport]
  /\ locked = FALSE /\ lockedFile = FALSE
  /\ bps = {} /\ bpsFile = {}
  /\ revs = {} /\ revsFile = {}
  /\ pc = [h \in Handlers |-> "idle"]
  /\ job = [h \in Handlers |-> NoJob]
  /\ acked = {}

-----------------------------------------------------------------------------
(* The checks.                                                             *)

BlueprintUsable(b) == b \notin bps /\ Target("blueprint", b) \notin revs

(* assertPassportUsable of one passport of the hierarchy.                  *)
StandsAlone(p) ==
  /\ pass[p].status = "active"
  /\ Target("passport", p) \notin revs
  /\ blueprintOf[p] # NoBlueprint => BlueprintUsable(blueprintOf[p])

(* Mutant: the parents are not looked at.                                  *)
PassportUsableAlone(p) == ~locked /\ StandsAlone(p)

PassportUsable(p) == ~locked /\ \A q \in Up[p] : StandsAlone(q)

TokenUsable(t) ==
  \A u \in TokenUp[t] : Target("token", u) \notin revs /\ PassportUsable(holder[u])

(* keyFor: a revoked current key takes the superseded ones with it.        *)
KeyUsable(p, k) ==
  /\ ~pass[p].revoked
  /\ \/ k = pass[p].kid
     \/ \E old \in pass[p].history : old.kid = k /\ ~old.revoked /\ now <= old.until

-----------------------------------------------------------------------------
(* The handlers.                                                           *)

Start(h, j, next) ==
  /\ pc[h] = "idle"
  /\ pc' = [pc EXCEPT ![h] = next]
  /\ job' = [job EXCEPT ![h] = j]

Finish(h) ==
  /\ pc' = [pc EXCEPT ![h] = "done"]
  /\ job' = [job EXCEPT ![h] = NoJob]

(* setPassportStatus, for POST /v1/passports/:id/status and for a revoke.  *)
SetStatus(h, p, s) ==
  /\ Start(h, IF s = "revoked" THEN Target("passport", p) ELSE NoJob, "sign")
  /\ pass' = [pass EXCEPT ![p].status = s]
  /\ UNCHANGED <<diskFails, now, passFile, orgs, blueprints, revocations, acked>>

RevokeCurrentKey(h, p) ==
  /\ Start(h, Key("key", p, pass[p].kid), "sign")
  /\ pass' = [pass EXCEPT ![p].revoked = TRUE]
  /\ UNCHANGED <<diskFails, now, passFile, orgs, blueprints, revocations, acked>>

(* Mutant: the key's validity is ended, but the key is not marked.         *)
RevokeOldKeyByExpiry(h, p) ==
  \E old \in pass[p].history :
    /\ Start(h, Key("oldkey", p, old.kid), "sign")
    /\ pass' = [pass EXCEPT ![p].history = (@ \ {old}) \cup {[old EXCEPT !.until = now]}]
    /\ UNCHANGED <<diskFails, now, passFile, orgs, blueprints, revocations, acked>>

RevokeOldKey(h, p) ==
  \E old \in pass[p].history :
    /\ Start(h, Key("oldkey", p, old.kid), "sign")
    /\ pass' = [pass EXCEPT ![p].history =
                 (@ \ {old}) \cup {[old EXCEPT !.revoked = TRUE, !.until = now]}]
    /\ UNCHANGED <<diskFails, now, passFile, orgs, blueprints, revocations, acked>>

(* Mutant: the grace period is converted to milliseconds twice.            *)
RotateWrongUnit(h, p) ==
  /\ PassportUsable(p)
  /\ pass[p].kid < MaxKid
  /\ Start(h, NoJob, "sign")
  /\ pass' = [pass EXCEPT
       ![p].kid = @ + 1,
       ![p].revoked = FALSE,
       ![p].history = @ \cup {[kid |-> pass[p].kid, until |-> now + 1000 * Grace, revoked |-> FALSE]}]
  /\ UNCHANGED <<diskFails, now, passFile, orgs, blueprints, revocations, acked>>

(* Mutant: the new key takes the name of the old one.                      *)
RotateSameName(h, p) ==
  /\ PassportUsable(p)
  /\ pass[p].kid < MaxKid
  /\ Start(h, NoJob, "sign")
  /\ pass' = [pass EXCEPT
       ![p].revoked = FALSE,
       ![p].history = @ \cup {[kid |-> pass[p].kid, until |-> now + Grace, revoked |-> FALSE]}]
  /\ UNCHANGED <<diskFails, now, passFile, orgs, blueprints, revocations, acked>>

(* rotatePassport: the old key is kept for the grace period, and is not    *)
(* revoked there even if it was revoked while it was current.              *)
Rotate(h, p) ==
  /\ PassportUsable(p)
  /\ pass[p].kid < MaxKid
  /\ Start(h, NoJob, "sign")
  /\ pass' = [pass EXCEPT
       ![p].kid = @ + 1,
       ![p].revoked = FALSE,
       ![p].history = @ \cup {[kid |-> pass[p].kid, until |-> now + Grace, revoked |-> FALSE]}]
  /\ UNCHANGED <<diskFails, now, passFile, orgs, blueprints, revocations, acked>>

(* The signer answers and put() saves the collection.                      *)
Signed(h) ==
  /\ pc[h] = "sign"
  /\ passFile' = pass
  /\ pc' = [pc EXCEPT ![h] = IF job[h] = NoJob THEN "reply" ELSE "record"]
  /\ UNCHANGED <<diskFails, now, pass, orgs, blueprints, revocations, job, acked>>

(* The signer or a save fails: the request fails, its change in memory     *)
(* stays.                                                                  *)
Fail(h) ==
  /\ pc[h] = "sign"
  /\ Finish(h)
  /\ UNCHANGED <<diskFails, now, passports, orgs, blueprints, revocations, acked>>

RevokeBlueprint(h, b) ==
  /\ bps' = bps \cup {b}
  /\ \/ Start(h, Target("blueprint", b), "record") /\ bpsFile' = bps'
     \/ diskFails /\ Start(h, NoJob, "done") /\ UNCHANGED bpsFile
  /\ UNCHANGED <<diskFails, now, passports, orgs, revocations, acked>>

RevokeToken(h, t) ==
  /\ Start(h, Target("token", t), "record")
  /\ UNCHANGED <<diskFails, now, passports, orgs, blueprints, revocations, acked>>

RevokeOrg(h) ==
  /\ locked' = TRUE
  /\ \/ Start(h, Target("org", Org), "record") /\ lockedFile' = TRUE
     \/ diskFails /\ Start(h, NoJob, "done") /\ UNCHANGED lockedFile
  /\ UNCHANGED <<diskFails, now, passports, blueprints, revocations, acked>>

LockOrUnlock(h, v) ==
  /\ locked' = v
  /\ \/ Start(h, NoJob, "reply") /\ lockedFile' = v
     \/ diskFails /\ Start(h, NoJob, "done") /\ UNCHANGED lockedFile
  /\ UNCHANGED <<diskFails, now, passports, blueprints, revocations, acked>>

Id(j) == IF j.type = "oldkey" THEN Key("key", j.target, j.kid) ELSE j

(* addRevocation: a record that exists is returned as it is; a new one is  *)
(* in memory even if its save fails.                                       *)
Record(h) ==
  LET id == Id(job[h]) IN
  /\ pc[h] = "record"
  /\ revs' = revs \cup {id}
  /\ \/ /\ revsFile' = IF id \in revs THEN revsFile ELSE revs'
        /\ pc' = [pc EXCEPT ![h] = "reply"]
        /\ UNCHANGED job
     \/ diskFails /\ id \notin revs /\ UNCHANGED revsFile /\ Finish(h)
  /\ UNCHANGED <<diskFails, now, passports, orgs, blueprints, acked>>

(* The receipt is appended and the answer sent.                            *)
Reply(h) ==
  /\ pc[h] = "reply"
  /\ Finish(h)
  /\ acked' = acked \cup ({job[h]} \ {NoJob})
  /\ UNCHANGED <<diskFails, now, passports, orgs, blueprints, revocations>>

(* touchLastSeen, or any other handler, saves the passports.               *)
SavePassports ==
  /\ passFile' = pass
  /\ UNCHANGED <<diskFails, now, pass, orgs, blueprints, revocations, pc, job, acked>>

(* The process dies and reads its files again.                             *)
Restart ==
  /\ pass' = passFile /\ locked' = lockedFile /\ bps' = bpsFile /\ revs' = revsFile
  /\ pc' = [h \in Handlers |-> IF pc[h] = "idle" THEN "idle" ELSE "done"]
  /\ job' = [h \in Handlers |-> NoJob]
  /\ UNCHANGED <<diskFails, now, passFile, lockedFile, bpsFile, revsFile, acked>>

Tick ==
  /\ now < Horizon
  /\ now' = now + 1
  /\ UNCHANGED <<diskFails, passports, orgs, blueprints, revocations, pc, job, acked>>

Next ==
  \/ \E h \in Handlers :
       \/ \E p \in Passports :
            \/ \E s \in Statuses : SetStatus(h, p, s)
            \/ RevokeCurrentKey(h, p) \/ RevokeOldKey(h, p) \/ Rotate(h, p)
       \/ \E b \in Blueprints : RevokeBlueprint(h, b)
       \/ \E t \in Tokens : RevokeToken(h, t)
       \/ RevokeOrg(h)
       \/ \E v \in BOOLEAN : LockOrUnlock(h, v)
       \/ Signed(h) \/ Fail(h) \/ Record(h) \/ Reply(h)
  \/ SavePassports \/ Restart \/ Tick

Spec == Init /\ [][Next]_vars

-----------------------------------------------------------------------------
(* Properties.                                                             *)

(* "revoke is terminal" for passports, blueprints and tokens: once it is   *)
(* answered, nothing that hangs below the target is usable again, through  *)
(* status changes, unlocks, rotations, failed signers and restarts, on a   *)
(* disk that works.                                                        *)
RevokedFailsClosed ==
  ~diskFails =>
    /\ \A p \in Passports :
         (\E q \in Up[p] :
            \/ Target("passport", q) \in acked
            \/ blueprintOf[q] # NoBlueprint /\ Target("blueprint", blueprintOf[q]) \in acked)
         => ~PassportUsable(p)
    /\ \A t \in Tokens :
         (\E u \in TokenUp[t] :
            \/ Target("token", u) \in acked
            \/ \E q \in Up[holder[u]] : Target("passport", q) \in acked)
         => ~TokenUsable(t)

(* A superseded key that was revoked stays unusable, whatever is rotated   *)
(* after it.                                                               *)
OldKeysStayRevoked ==
  \A p \in Passports, k \in Kids : Key("oldkey", p, k) \in acked => ~KeyUsable(p, k)

(* "revoke is terminal", for keys.                                         *)
RevokedKeyIsDead ==
  \A p \in Passports, k \in Kids : Key("key", p, k) \in acked => ~KeyUsable(p, k)

-----------------------------------------------------------------------------
(* The inductive invariant of the two that hold.                           *)

(* keyFor finds a superseded key by its name.                              *)
NamesAreUnique(passes) ==
  \A p \in Passports :
    /\ \A old \in passes[p].history : old.kid < passes[p].kid
    /\ \A a, b \in passes[p].history : a.kid = b.kid => a = b

KeyIsDead(passes, p, k) ==
  /\ k < passes[p].kid
  /\ \A old \in passes[p].history : old.kid = k => old.revoked

RevocationsAreSaved == ~diskFails => revsFile = revs

RepliesAreRecorded ==
  /\ \A j \in acked : Id(j) \in revsFile \/ diskFails
  /\ \A h \in Handlers :
       /\ pc[h] = "record" => job[h] # NoJob
       /\ pc[h] = "reply" /\ job[h] # NoJob => Id(job[h]) \in revs

RevokedOldKeysAreDead ==
  \A p \in Passports, k \in Kids :
    LET j == Key("oldkey", p, k) IN
    /\ j \in acked => KeyIsDead(pass, p, k) /\ KeyIsDead(passFile, p, k)
    /\ \A h \in Handlers : job[h] = j =>
         /\ KeyIsDead(pass, p, k)
         /\ pc[h] \in {"record", "reply"} => KeyIsDead(passFile, p, k)

IInv ==
  /\ TypeOK
  /\ NamesAreUnique(pass) /\ NamesAreUnique(passFile)
  /\ RevocationsAreSaved
  /\ RepliesAreRecorded
  /\ RevokedOldKeysAreDead

=============================================================================
