-------------------------- MODULE Revocation_proofs --------------------------
(***************************************************************************)
(* What Revocation promises of a revoke, for any hierarchy of passports    *)
(* and tokens, any number of requests and any clock: the answered          *)
(* revocation of a passport, blueprint or token holds for ever when no     *)
(* write fails, and that of a superseded key holds always.                 *)
(***************************************************************************)
EXTENDS Revocation, TLAPS

(* The jobs that the handlers set.                                         *)
LEMMA JobsExist ==
  /\ NoJob \in Jobs
  /\ \A p \in Passports : Target("passport", p) \in Jobs
  /\ \A b \in Blueprints : Target("blueprint", b) \in Jobs
  /\ \A t \in Tokens : Target("token", t) \in Jobs
  /\ Target("org", Org) \in Jobs
  /\ \A p \in Passports, k \in Kids : Key("key", p, k) \in Jobs /\ Key("oldkey", p, k) \in Jobs
  BY DEF Jobs, Revocations, NoJob, Target, Key

(* What a request records has the id of a revocation.                      *)
LEMMA IdType ==
  ASSUME NEW j \in Jobs, j # NoJob
  PROVE  Id(j) \in Revocations
  <1>1. CASE j \in Revocations
    BY <1>1 DEF Revocations, Id
  <1>2. CASE j \in [type : {"oldkey"}, target : Passports, kid : Kids]
    BY <1>2 DEF Revocations, Id, Key
  <1> QED
    BY <1>1, <1>2 DEF Jobs

LEMMA InitIInv == Init => IInv
  <1> SUFFICES ASSUME Init PROVE IInv
    OBVIOUS
  <1>1. NewPassport \in PassportRecords
    BY RevocationAssumption DEF NewPassport, PassportRecords, Statuses, Kids
  <1>2. TypeOK
    <2>1. pass \in [Passports -> PassportRecords] /\ passFile \in [Passports -> PassportRecords]
      BY <1>1 DEF Init
    <2>2. pc \in [Handlers -> {"idle", "sign", "record", "reply", "done"}] /\ job \in [Handlers -> Jobs]
      BY JobsExist DEF Init
    <2>3. now \in 0..Horizon
      BY RevocationAssumption DEF Init
    <2>5. diskFails \in BOOLEAN /\ locked \in BOOLEAN /\ lockedFile \in BOOLEAN
      BY DEF Init
    <2>4. /\ bps \subseteq Blueprints /\ bpsFile \subseteq Blueprints
          /\ revs \subseteq Revocations /\ revsFile \subseteq Revocations
          /\ acked \subseteq Jobs \ {NoJob}
      BY DEF Init
    <2> QED
      BY <2>1, <2>2, <2>3, <2>4, <2>5 DEF TypeOK
  <1>3. NamesAreUnique(pass) /\ NamesAreUnique(passFile)
    BY DEF Init, NewPassport, NamesAreUnique
  <1>4. RevocationsAreSaved /\ RepliesAreRecorded
    BY DEF Init, RevocationsAreSaved, RepliesAreRecorded
  <1>5. RevokedOldKeysAreDead
    BY DEF Init, RevokedOldKeysAreDead, NoJob, Target, Key
  <1> QED
    BY <1>2, <1>3, <1>4, <1>5 DEF IInv

(* The superseded keys that were revoked are not disturbed by a step that  *)
(* keeps the keys and gives one request another job.                       *)
LEMMA OldKeysKept ==
  ASSUME TypeOK, RevokedOldKeysAreDead,
         \A p \in Passports : pass'[p].kid = pass[p].kid /\ pass'[p].history = pass[p].history,
         passFile' = passFile, acked' = acked,
         NEW h \in Handlers, NEW j, j.type # "oldkey", NEW next,
         job' = [job EXCEPT ![h] = j], pc' = [pc EXCEPT ![h] = next]
  PROVE  RevokedOldKeysAreDead'
  <1>1. \A p \in Passports, k \in Kids :
          /\ KeyIsDead(pass, p, k) => KeyIsDead(pass', p, k)
          /\ KeyIsDead(passFile, p, k) => KeyIsDead(passFile', p, k)
    BY DEF KeyIsDead
  <1>2. \A g \in Handlers, p \in Passports, k \in Kids :
          job'[g] = Key("oldkey", p, k) => job[g] = Key("oldkey", p, k) /\ pc'[g] = pc[g]
    BY DEF TypeOK, Key
  <1> QED
    BY <1>1, <1>2 DEF RevokedOldKeysAreDead

LEMMA SetStatusIInv ==
  ASSUME IInv, NEW h \in Handlers, NEW p \in Passports, NEW s \in Statuses, SetStatus(h, p, s)
  PROVE  IInv'
  <1> USE DEF IInv, passports, orgs, blueprints, revocations, SetStatus, Start
  <1>1. TypeOK'
    BY JobsExist, IdType, RevocationAssumption DEF TypeOK, PassportRecords, OldKeys, Statuses
  <1>2. NamesAreUnique(pass)' /\ NamesAreUnique(passFile)'
    BY RevocationAssumption DEF TypeOK, NamesAreUnique, PassportRecords, OldKeys, Kids
  <1>3. RevocationsAreSaved'
    BY DEF TypeOK, RevocationsAreSaved
  <1>4. RepliesAreRecorded'
    BY DEF TypeOK, RevocationsAreSaved, RepliesAreRecorded, Id, NoJob, Target, Key
  <1>5. RevokedOldKeysAreDead'
    <2>1. \A q \in Passports : pass'[q].kid = pass[q].kid /\ pass'[q].history = pass[q].history
      BY DEF TypeOK, PassportRecords
    <2>2. PICK j, next : j.type # "oldkey" /\ job' = [job EXCEPT ![h] = j] /\ pc' = [pc EXCEPT ![h] = next]
      <3>1. (IF s = "revoked" THEN Target("passport", p) ELSE NoJob).type # "oldkey"
        BY DEF NoJob, Target
      <3> QED
        BY <3>1
    <2>3. TypeOK /\ RevokedOldKeysAreDead /\ passFile' = passFile /\ acked' = acked
      OBVIOUS
    <2> HIDE DEF SetStatus, Start
    <2> QED
      BY <2>1, <2>2, <2>3, OldKeysKept
  <1> QED
    BY <1>1, <1>2, <1>3, <1>4, <1>5

LEMMA RevokeCurrentKeyIInv ==
  ASSUME IInv, NEW h \in Handlers, NEW p \in Passports, RevokeCurrentKey(h, p)
  PROVE  IInv'
  <1> USE DEF IInv, passports, orgs, blueprints, revocations, RevokeCurrentKey, Start
  <1>1. TypeOK'
    BY JobsExist, IdType, RevocationAssumption DEF TypeOK, PassportRecords, OldKeys, Statuses
  <1>2. NamesAreUnique(pass)' /\ NamesAreUnique(passFile)'
    BY RevocationAssumption DEF TypeOK, NamesAreUnique, PassportRecords, OldKeys, Kids
  <1>3. RevocationsAreSaved'
    BY DEF TypeOK, RevocationsAreSaved
  <1>4. RepliesAreRecorded'
    BY DEF TypeOK, RevocationsAreSaved, RepliesAreRecorded, Id, NoJob, Target, Key
  <1>5. RevokedOldKeysAreDead'
    <2>1. \A q \in Passports : pass'[q].kid = pass[q].kid /\ pass'[q].history = pass[q].history
      BY DEF TypeOK, PassportRecords
    <2>2. PICK j, next : j.type # "oldkey" /\ job' = [job EXCEPT ![h] = j] /\ pc' = [pc EXCEPT ![h] = next]
      BY DEF NoJob, Target, Key
    <2>3. TypeOK /\ RevokedOldKeysAreDead /\ passFile' = passFile /\ acked' = acked
      OBVIOUS
    <2> HIDE DEF RevokeCurrentKey, Start
    <2> QED
      BY <2>1, <2>2, <2>3, OldKeysKept
  <1> QED
    BY <1>1, <1>2, <1>3, <1>4, <1>5

LEMMA RevokeOldKeyIInv ==
  ASSUME IInv, NEW h \in Handlers, NEW p \in Passports, RevokeOldKey(h, p)
  PROVE  IInv'
  <1>1. PICK old \in pass[p].history :
          /\ Start(h, Key("oldkey", p, old.kid), "sign")
          /\ pass' = [pass EXCEPT ![p].history =
                       (@ \ {old}) \cup {[old EXCEPT !.revoked = TRUE, !.until = now]}]
    BY DEF RevokeOldKey
  <1> DEFINE new == [old EXCEPT !.revoked = TRUE, !.until = now]
  <1>2. pass[p] \in PassportRecords /\ pass[p].kid \in Kids /\ old \in OldKeys /\ old.kid \in Kids
    BY <1>1 DEF IInv, TypeOK, PassportRecords, OldKeys
  <1>3. new \in OldKeys /\ new.kid = old.kid /\ new.revoked
    <2>1. now \in 0..(Horizon + Grace)
      BY RevocationAssumption DEF IInv, TypeOK
    <2> QED
      BY <2>1, <1>2 DEF OldKeys
  <1>4. /\ \A q \in Passports : q # p => pass'[q] = pass[q]
        /\ pass'[p].kid = pass[p].kid
        /\ pass'[p].history = (pass[p].history \ {old}) \cup {new}
    BY <1>1, <1>2 DEF IInv, TypeOK, PassportRecords
  <1>5. pass' \in [Passports -> PassportRecords]
    <2>1. [pass[p] EXCEPT !.history = (@ \ {old}) \cup {new}] \in PassportRecords
      BY <1>2, <1>3 DEF PassportRecords
    <2> QED
      BY <2>1, <1>1 DEF IInv, TypeOK
  <1>6. UNCHANGED <<diskFails, now, passFile, locked, lockedFile, bps, bpsFile, revs, revsFile, acked>>
    BY DEF RevokeOldKey, orgs, blueprints, revocations
  <1>7. pc' = [pc EXCEPT ![h] = "sign"] /\ job' = [job EXCEPT ![h] = Key("oldkey", p, old.kid)]
    BY <1>1 DEF Start
  <1> HIDE DEF new
  <1>8. TypeOK'
    BY <1>2, <1>5, <1>6, <1>7, JobsExist DEF IInv, TypeOK
  <1>9. NamesAreUnique(pass)' /\ NamesAreUnique(passFile)'
    BY <1>1, <1>2, <1>3, <1>4, <1>6 DEF IInv, NamesAreUnique
  <1>10. RevocationsAreSaved' /\ RepliesAreRecorded'
    BY <1>6, <1>7 DEF IInv, TypeOK, RevocationsAreSaved, RepliesAreRecorded
  <1>11. \A q \in Passports, k \in Kids : KeyIsDead(pass, q, k) => KeyIsDead(pass', q, k)
    BY <1>3, <1>4 DEF KeyIsDead
  <1>12. KeyIsDead(pass', p, old.kid)
    BY <1>1, <1>3, <1>4 DEF IInv, NamesAreUnique, KeyIsDead
  <1>13. RevokedOldKeysAreDead'
    <2> SUFFICES ASSUME NEW q \in Passports, NEW k \in Kids
                 PROVE  LET j == Key("oldkey", q, k) IN
                        /\ j \in acked => KeyIsDead(pass', q, k) /\ KeyIsDead(passFile, q, k)
                        /\ \A g \in Handlers : job'[g] = j =>
                             /\ KeyIsDead(pass', q, k)
                             /\ pc'[g] \in {"record", "reply"} => KeyIsDead(passFile, q, k)
      BY <1>6 DEF RevokedOldKeysAreDead, KeyIsDead
    <2>1. Key("oldkey", q, k) \in acked => KeyIsDead(pass', q, k) /\ KeyIsDead(passFile, q, k)
      BY <1>11 DEF IInv, RevokedOldKeysAreDead
    <2>2. ASSUME NEW g \in Handlers, g # h, job'[g] = Key("oldkey", q, k)
          PROVE  /\ KeyIsDead(pass', q, k)
                 /\ pc'[g] \in {"record", "reply"} => KeyIsDead(passFile, q, k)
      BY <2>2, <1>7, <1>11 DEF IInv, TypeOK, RevokedOldKeysAreDead
    <2>3. ASSUME job'[h] = Key("oldkey", q, k)
          PROVE  KeyIsDead(pass', q, k) /\ pc'[h] = "sign"
      <3>1. q = p /\ k = old.kid
        BY <2>3, <1>7 DEF IInv, TypeOK, Key
      <3> QED
        BY <3>1, <1>7, <1>12 DEF IInv, TypeOK
    <2> QED
      BY <2>1, <2>2, <2>3
  <1> QED
    BY <1>8, <1>9, <1>10, <1>13 DEF IInv

LEMMA RotateIInv ==
  ASSUME IInv, NEW h \in Handlers, NEW p \in Passports, Rotate(h, p)
  PROVE  IInv'
  <1> DEFINE old == [kid |-> pass[p].kid, until |-> now + Grace, revoked |-> FALSE]
  <1>1. pass[p] \in PassportRecords /\ pass[p].kid \in Kids /\ pass[p].kid + 1 \in Kids
    BY RevocationAssumption DEF IInv, TypeOK, PassportRecords, Kids, Rotate
  <1>2. old \in OldKeys
    BY <1>1, RevocationAssumption DEF IInv, OldKeys, TypeOK
  <1>3. /\ \A q \in Passports : q # p => pass'[q] = pass[q]
        /\ pass'[p].kid = pass[p].kid + 1
        /\ pass'[p].history = pass[p].history \cup {old}
    <2>1. /\ pass' = [pass EXCEPT ![p] = [pass[p] EXCEPT !.kid = pass[p].kid + 1, !.revoked = FALSE,
                                            !.history = pass[p].history \cup {old}]]
      BY DEF Rotate
    <2> HIDE DEF old
    <2> QED
      BY <2>1, <1>1 DEF IInv, TypeOK, PassportRecords
  <1>4. pass' \in [Passports -> PassportRecords]
    <2> DEFINE new == [pass[p] EXCEPT !.kid = pass[p].kid + 1, !.revoked = FALSE,
                                      !.history = pass[p].history \cup {old}]
    <2>1. new \in PassportRecords
      BY <1>1, <1>2 DEF PassportRecords
    <2>2. pass' = [pass EXCEPT ![p] = new]
      BY DEF Rotate
    <2> HIDE DEF new
    <2> QED
      BY <2>1, <2>2 DEF IInv, TypeOK
  <1>5. UNCHANGED <<diskFails, now, passFile, locked, lockedFile, bps, bpsFile, revs, revsFile, acked>>
    BY DEF Rotate, orgs, blueprints, revocations
  <1>6. pc' = [pc EXCEPT ![h] = "sign"] /\ job' = [job EXCEPT ![h] = NoJob]
    BY DEF Rotate, Start
  <1>7. TypeOK'
    BY <1>4, <1>5, <1>6, JobsExist DEF IInv, TypeOK
  <1>8. NamesAreUnique(pass)' /\ NamesAreUnique(passFile)'
    <2>1. old.kid = pass[p].kid
      OBVIOUS
    <2>2. \A q \in Passports : pass[q].kid \in Int /\ \A o \in pass[q].history : o.kid \in Int
      BY DEF IInv, TypeOK, PassportRecords, OldKeys, Kids
    <2> HIDE DEF old
    <2>3. ASSUME NEW q \in Passports, q # p
          PROVE  /\ \A o \in pass'[q].history : o.kid < pass'[q].kid
                 /\ \A a, b \in pass'[q].history : a.kid = b.kid => a = b
      BY <2>3, <1>3 DEF IInv, NamesAreUnique
    <2>4. /\ \A o \in pass'[p].history : o.kid < pass'[p].kid
          /\ \A a, b \in pass'[p].history : a.kid = b.kid => a = b
      BY <2>1, <2>2, <1>3 DEF IInv, NamesAreUnique
    <2> QED
      BY <2>3, <2>4, <1>5 DEF IInv, NamesAreUnique
  <1>9. RevocationsAreSaved' /\ RepliesAreRecorded'
    BY <1>5, <1>6 DEF IInv, TypeOK, RevocationsAreSaved, RepliesAreRecorded, Id, NoJob, Target, Key
  <1>10. \A q \in Passports, k \in Kids : KeyIsDead(pass, q, k) => KeyIsDead(pass', q, k)
    BY <1>1, <1>3 DEF KeyIsDead, Kids
  <1>11. RevokedOldKeysAreDead'
    BY <1>5, <1>6, <1>10 DEF IInv, TypeOK, RevokedOldKeysAreDead, KeyIsDead, NoJob, Target, Key
  <1> QED
    BY <1>7, <1>8, <1>9, <1>11 DEF IInv

LEMMA RevokeBlueprintIInv ==
  ASSUME IInv, NEW h \in Handlers, NEW b \in Blueprints, RevokeBlueprint(h, b)
  PROVE  IInv'
  <1> USE DEF IInv, passports, orgs, blueprints, revocations, RevokeBlueprint, Start
  <1>1. TypeOK'
    <2>1. job' \in [Handlers -> Jobs] /\ pc' \in [Handlers -> {"idle", "sign", "record", "reply", "done"}]
      BY JobsExist DEF TypeOK
    <2>2. bps' \subseteq Blueprints /\ bpsFile' \subseteq Blueprints
      BY DEF TypeOK
    <2> QED
      BY <2>1, <2>2 DEF TypeOK
  <1>2. NamesAreUnique(pass)' /\ NamesAreUnique(passFile)'
    BY RevocationAssumption DEF TypeOK, NamesAreUnique, PassportRecords, OldKeys, Kids
  <1>3. RevocationsAreSaved'
    BY DEF TypeOK, RevocationsAreSaved
  <1>4. RepliesAreRecorded'
    BY DEF TypeOK, RevocationsAreSaved, RepliesAreRecorded, Id, NoJob, Target, Key
  <1>5. RevokedOldKeysAreDead'
    <2>1. \A q \in Passports : pass'[q].kid = pass[q].kid /\ pass'[q].history = pass[q].history
      BY DEF TypeOK, PassportRecords
    <2>2. PICK j, next : j.type # "oldkey" /\ job' = [job EXCEPT ![h] = j] /\ pc' = [pc EXCEPT ![h] = next]
      BY DEF NoJob, Target, Key
    <2>3. TypeOK /\ RevokedOldKeysAreDead /\ passFile' = passFile /\ acked' = acked
      OBVIOUS
    <2> HIDE DEF RevokeBlueprint, Start
    <2> QED
      BY <2>1, <2>2, <2>3, OldKeysKept
  <1> QED
    BY <1>1, <1>2, <1>3, <1>4, <1>5

LEMMA RevokeTokenIInv ==
  ASSUME IInv, NEW h \in Handlers, NEW t \in Tokens, RevokeToken(h, t)
  PROVE  IInv'
  <1> USE DEF IInv, passports, orgs, blueprints, revocations, RevokeToken, Start
  <1>1. TypeOK'
    BY JobsExist, IdType, RevocationAssumption DEF TypeOK, PassportRecords, OldKeys, Statuses
  <1>2. NamesAreUnique(pass)' /\ NamesAreUnique(passFile)'
    BY RevocationAssumption DEF TypeOK, NamesAreUnique, PassportRecords, OldKeys, Kids
  <1>3. RevocationsAreSaved'
    BY DEF TypeOK, RevocationsAreSaved
  <1>4. RepliesAreRecorded'
    BY DEF TypeOK, RevocationsAreSaved, RepliesAreRecorded, Id, NoJob, Target, Key
  <1>5. RevokedOldKeysAreDead'
    BY RevocationAssumption DEF TypeOK, NamesAreUnique, RevokedOldKeysAreDead, KeyIsDead, PassportRecords, OldKeys, Kids, NoJob, Target, Key
  <1> QED
    BY <1>1, <1>2, <1>3, <1>4, <1>5

LEMMA RevokeOrgIInv ==
  ASSUME IInv, NEW h \in Handlers, RevokeOrg(h)
  PROVE  IInv'
  <1> USE DEF IInv, passports, orgs, blueprints, revocations, RevokeOrg, Start
  <1>1. TypeOK'
    BY JobsExist, IdType, RevocationAssumption DEF TypeOK, PassportRecords, OldKeys, Statuses
  <1>2. NamesAreUnique(pass)' /\ NamesAreUnique(passFile)'
    BY RevocationAssumption DEF TypeOK, NamesAreUnique, PassportRecords, OldKeys, Kids
  <1>3. RevocationsAreSaved'
    BY DEF TypeOK, RevocationsAreSaved
  <1>4. RepliesAreRecorded'
    BY DEF TypeOK, RevocationsAreSaved, RepliesAreRecorded, Id, NoJob, Target, Key
  <1>5. RevokedOldKeysAreDead'
    <2>1. \A q \in Passports : pass'[q].kid = pass[q].kid /\ pass'[q].history = pass[q].history
      BY DEF TypeOK, PassportRecords
    <2>2. PICK j, next : j.type # "oldkey" /\ job' = [job EXCEPT ![h] = j] /\ pc' = [pc EXCEPT ![h] = next]
      BY DEF NoJob, Target, Key
    <2>3. TypeOK /\ RevokedOldKeysAreDead /\ passFile' = passFile /\ acked' = acked
      OBVIOUS
    <2> HIDE DEF RevokeOrg, Start
    <2> QED
      BY <2>1, <2>2, <2>3, OldKeysKept
  <1> QED
    BY <1>1, <1>2, <1>3, <1>4, <1>5

LEMMA LockOrUnlockIInv ==
  ASSUME IInv, NEW h \in Handlers, NEW v \in BOOLEAN, LockOrUnlock(h, v)
  PROVE  IInv'
  <1> USE DEF IInv, passports, orgs, blueprints, revocations, LockOrUnlock, Start
  <1>1. TypeOK'
    BY JobsExist, IdType, RevocationAssumption DEF TypeOK, PassportRecords, OldKeys, Statuses
  <1>2. NamesAreUnique(pass)' /\ NamesAreUnique(passFile)'
    BY RevocationAssumption DEF TypeOK, NamesAreUnique, PassportRecords, OldKeys, Kids
  <1>3. RevocationsAreSaved'
    BY DEF TypeOK, RevocationsAreSaved
  <1>4. RepliesAreRecorded'
    BY DEF TypeOK, RevocationsAreSaved, RepliesAreRecorded, Id, NoJob, Target, Key
  <1>5. RevokedOldKeysAreDead'
    <2>1. \A q \in Passports : pass'[q].kid = pass[q].kid /\ pass'[q].history = pass[q].history
      BY DEF TypeOK, PassportRecords
    <2>2. PICK j, next : j.type # "oldkey" /\ job' = [job EXCEPT ![h] = j] /\ pc' = [pc EXCEPT ![h] = next]
      BY DEF NoJob, Target, Key
    <2>3. TypeOK /\ RevokedOldKeysAreDead /\ passFile' = passFile /\ acked' = acked
      OBVIOUS
    <2> HIDE DEF LockOrUnlock, Start
    <2> QED
      BY <2>1, <2>2, <2>3, OldKeysKept
  <1> QED
    BY <1>1, <1>2, <1>3, <1>4, <1>5

LEMMA SignedIInv ==
  ASSUME IInv, NEW h \in Handlers, Signed(h)
  PROVE  IInv'
  <1> USE DEF IInv, passports, orgs, blueprints, revocations, Signed
  <1>1. TypeOK'
    BY JobsExist, IdType, RevocationAssumption DEF TypeOK, PassportRecords, OldKeys, Statuses
  <1>2. NamesAreUnique(pass)' /\ NamesAreUnique(passFile)'
    BY RevocationAssumption DEF TypeOK, NamesAreUnique, PassportRecords, OldKeys, Kids
  <1>3. RevocationsAreSaved'
    BY DEF TypeOK, RevocationsAreSaved
  <1>4. RepliesAreRecorded'
    BY DEF TypeOK, RevocationsAreSaved, RepliesAreRecorded, Id, NoJob, Target, Key
  <1>5. RevokedOldKeysAreDead'
    BY RevocationAssumption DEF TypeOK, NamesAreUnique, RevokedOldKeysAreDead, KeyIsDead, PassportRecords, OldKeys, Kids, NoJob, Target, Key
  <1> QED
    BY <1>1, <1>2, <1>3, <1>4, <1>5

LEMMA FailIInv ==
  ASSUME IInv, NEW h \in Handlers, Fail(h)
  PROVE  IInv'
  <1> USE DEF IInv, passports, orgs, blueprints, revocations, Fail, Finish
  <1>1. TypeOK'
    BY JobsExist, IdType, RevocationAssumption DEF TypeOK, PassportRecords, OldKeys, Statuses
  <1>2. NamesAreUnique(pass)' /\ NamesAreUnique(passFile)'
    BY RevocationAssumption DEF TypeOK, NamesAreUnique, PassportRecords, OldKeys, Kids
  <1>3. RevocationsAreSaved'
    BY DEF TypeOK, RevocationsAreSaved
  <1>4. RepliesAreRecorded'
    BY DEF TypeOK, RevocationsAreSaved, RepliesAreRecorded, Id, NoJob, Target, Key
  <1>5. RevokedOldKeysAreDead'
    BY RevocationAssumption DEF TypeOK, NamesAreUnique, RevokedOldKeysAreDead, KeyIsDead, PassportRecords, OldKeys, Kids, NoJob, Target, Key
  <1> QED
    BY <1>1, <1>2, <1>3, <1>4, <1>5

LEMMA RecordIInv ==
  ASSUME IInv, NEW h \in Handlers, Record(h)
  PROVE  IInv'
  <1> DEFINE id == Id(job[h])
  <1>1. job[h] \in Jobs /\ job[h] # NoJob
    BY DEF IInv, TypeOK, RepliesAreRecorded, Record
  <1>2. id \in Revocations
    BY <1>1, IdType
  <1> HIDE DEF id
  <1>3. revs' = revs \cup {id} /\ UNCHANGED <<diskFails, now, pass, passFile, locked, lockedFile, bps, bpsFile, acked>>
    BY DEF Record, passports, orgs, blueprints, id
  <1>4. \/ /\ revsFile' = IF id \in revs THEN revsFile ELSE revs'
           /\ pc' = [pc EXCEPT ![h] = "reply"] /\ job' = job
        \/ /\ diskFails /\ revsFile' = revsFile
           /\ pc' = [pc EXCEPT ![h] = "done"] /\ job' = [job EXCEPT ![h] = NoJob]
    BY DEF Record, Finish, id
  <1>5. pc[h] = "record"
    BY DEF Record
  <1>6. TypeOK'
    BY <1>2, <1>3, <1>4, JobsExist DEF IInv, TypeOK
  <1>7. NamesAreUnique(pass)' /\ NamesAreUnique(passFile)'
    BY <1>3 DEF IInv, NamesAreUnique
  <1>8. RevocationsAreSaved'
    BY <1>3, <1>4 DEF IInv, RevocationsAreSaved
  <1>9. RepliesAreRecorded'
    BY <1>3, <1>4, <1>8 DEF IInv, TypeOK, RevocationsAreSaved, RepliesAreRecorded, id
  <1>10. RevokedOldKeysAreDead'
    <2>1. \A q \in Passports, k \in Kids :
            /\ KeyIsDead(pass', q, k) <=> KeyIsDead(pass, q, k)
            /\ KeyIsDead(passFile', q, k) <=> KeyIsDead(passFile, q, k)
      BY <1>3 DEF KeyIsDead
    <2>2. \A g \in Handlers, q \in Passports, k \in Kids :
            job'[g] = Key("oldkey", q, k) =>
              /\ job[g] = Key("oldkey", q, k)
              /\ pc'[g] \in {"record", "reply"} => pc[g] \in {"record", "reply"}
      BY <1>4, <1>5 DEF IInv, TypeOK, NoJob, Target, Key
    <2> QED
      BY <1>3, <2>1, <2>2 DEF IInv, RevokedOldKeysAreDead
  <1> QED
    BY <1>6, <1>7, <1>8, <1>9, <1>10 DEF IInv

LEMMA ReplyIInv ==
  ASSUME IInv, NEW h \in Handlers, Reply(h)
  PROVE  IInv'
  <1> USE DEF IInv, passports, orgs, blueprints, revocations, Reply, Finish
  <1>1. TypeOK'
    BY JobsExist, IdType, RevocationAssumption DEF TypeOK, PassportRecords, OldKeys, Statuses
  <1>2. NamesAreUnique(pass)' /\ NamesAreUnique(passFile)'
    BY RevocationAssumption DEF TypeOK, NamesAreUnique, PassportRecords, OldKeys, Kids
  <1>3. RevocationsAreSaved'
    BY DEF TypeOK, RevocationsAreSaved
  <1>4. RepliesAreRecorded'
    BY DEF TypeOK, RevocationsAreSaved, RepliesAreRecorded, Id, NoJob, Target, Key
  <1>5. RevokedOldKeysAreDead'
    BY RevocationAssumption DEF TypeOK, NamesAreUnique, RevokedOldKeysAreDead, KeyIsDead, PassportRecords, OldKeys, Kids, NoJob, Target, Key
  <1> QED
    BY <1>1, <1>2, <1>3, <1>4, <1>5

LEMMA SavePassportsIInv ==
  ASSUME IInv, SavePassports
  PROVE  IInv'
  <1> USE DEF IInv, passports, orgs, blueprints, revocations, SavePassports
  <1>1. TypeOK'
    BY JobsExist, IdType, RevocationAssumption DEF TypeOK, PassportRecords, OldKeys, Statuses
  <1>2. NamesAreUnique(pass)' /\ NamesAreUnique(passFile)'
    BY RevocationAssumption DEF TypeOK, NamesAreUnique, PassportRecords, OldKeys, Kids
  <1>3. RevocationsAreSaved'
    BY DEF TypeOK, RevocationsAreSaved
  <1>4. RepliesAreRecorded'
    BY DEF TypeOK, RevocationsAreSaved, RepliesAreRecorded, Id, NoJob, Target, Key
  <1>5. RevokedOldKeysAreDead'
    BY RevocationAssumption DEF TypeOK, NamesAreUnique, RevokedOldKeysAreDead, KeyIsDead, PassportRecords, OldKeys, Kids, NoJob, Target, Key
  <1> QED
    BY <1>1, <1>2, <1>3, <1>4, <1>5

LEMMA RestartIInv ==
  ASSUME IInv, Restart
  PROVE  IInv'
  <1> USE DEF IInv, passports, orgs, blueprints, revocations, Restart
  <1>1. TypeOK'
    BY JobsExist, IdType, RevocationAssumption DEF TypeOK, PassportRecords, OldKeys, Statuses
  <1>2. NamesAreUnique(pass)' /\ NamesAreUnique(passFile)'
    BY RevocationAssumption DEF TypeOK, NamesAreUnique, PassportRecords, OldKeys, Kids
  <1>3. RevocationsAreSaved'
    BY DEF TypeOK, RevocationsAreSaved
  <1>4. RepliesAreRecorded'
    BY DEF TypeOK, RevocationsAreSaved, RepliesAreRecorded, Id, NoJob, Target, Key
  <1>5. RevokedOldKeysAreDead'
    BY RevocationAssumption DEF TypeOK, NamesAreUnique, RevokedOldKeysAreDead, KeyIsDead, PassportRecords, OldKeys, Kids, NoJob, Target, Key
  <1> QED
    BY <1>1, <1>2, <1>3, <1>4, <1>5

LEMMA TickIInv ==
  ASSUME IInv, Tick
  PROVE  IInv'
  <1> USE DEF IInv, passports, orgs, blueprints, revocations, Tick
  <1>1. TypeOK'
    BY JobsExist, IdType, RevocationAssumption DEF TypeOK, PassportRecords, OldKeys, Statuses
  <1>2. NamesAreUnique(pass)' /\ NamesAreUnique(passFile)'
    BY RevocationAssumption DEF TypeOK, NamesAreUnique, PassportRecords, OldKeys, Kids
  <1>3. RevocationsAreSaved'
    BY DEF TypeOK, RevocationsAreSaved
  <1>4. RepliesAreRecorded'
    BY DEF TypeOK, RevocationsAreSaved, RepliesAreRecorded, Id, NoJob, Target, Key
  <1>5. RevokedOldKeysAreDead'
    BY RevocationAssumption DEF TypeOK, NamesAreUnique, RevokedOldKeysAreDead, KeyIsDead, PassportRecords, OldKeys, Kids, NoJob, Target, Key
  <1> QED
    BY <1>1, <1>2, <1>3, <1>4, <1>5

(* Every step preserves the invariant.                                     *)
LEMMA NextIInv == IInv /\ [Next]_vars => IInv'
  <1> SUFFICES ASSUME IInv, [Next]_vars PROVE IInv'
    OBVIOUS
  <1>1. CASE UNCHANGED vars
    BY <1>1 DEF vars, IInv, TypeOK, NamesAreUnique, RevocationsAreSaved, RepliesAreRecorded,
       RevokedOldKeysAreDead, KeyIsDead
  <1>2. CASE Next
    BY <1>2, SetStatusIInv, RevokeCurrentKeyIInv, RevokeOldKeyIInv, RotateIInv,
       RevokeBlueprintIInv, RevokeTokenIInv, RevokeOrgIInv, LockOrUnlockIInv, SignedIInv,
       FailIInv, RecordIInv, ReplyIInv, SavePassportsIInv, RestartIInv, TickIInv DEF Next
  <1> QED
    BY <1>1, <1>2

(* The inductive invariant, and with it the types, hold in every run.      *)
THEOREM Inductive == Spec => []IInv
  BY InitIInv, NextIInv, PTL DEF Spec

(* The state and the two files always have their types.                    *)
THEOREM TypeCorrect == Spec => []TypeOK
  <1>1. IInv => TypeOK
    BY DEF IInv
  <1> QED
    BY <1>1, Inductive, PTL

(* An answered revocation of a superseded key holds for ever: no rotation, *)
(* failed signer, failed write or restart makes the key usable again.      *)
THEOREM OldKeysTerminal == Spec => []OldKeysStayRevoked
  <1>1. IInv => OldKeysStayRevoked
    BY DEF IInv, TypeOK, RevokedOldKeysAreDead, KeyIsDead, OldKeysStayRevoked, KeyUsable,
       PassportRecords, OldKeys, Kids
  <1> QED
    BY <1>1, Inductive, PTL

(* In a behaviour whose writes do not fail, an answered revocation of a    *)
(* passport, blueprint or token closes everything below it for ever.       *)
THEOREM RevokeTerminal == Spec => []RevokedFailsClosed
  <1>1. ASSUME IInv, ~diskFails PROVE RevokedFailsClosed
    <2>1. \A j \in acked : Id(j) \in revs
      BY <1>1 DEF IInv, RevocationsAreSaved, RepliesAreRecorded
    <2>2. \A q \in Passports : Target("passport", q) \in acked => ~StandsAlone(q)
      BY <2>1 DEF Id, Target, StandsAlone
    <2>3. \A q \in Passports : blueprintOf[q] # NoBlueprint /\ Target("blueprint", blueprintOf[q]) \in acked
                                 => ~StandsAlone(q)
      BY <2>1 DEF Id, Target, StandsAlone, BlueprintUsable
    <2>4. \A u \in Tokens : Target("token", u) \in acked => Target("token", u) \in revs
      BY <2>1 DEF Id, Target
    <2> QED
      BY <2>2, <2>3, <2>4, RevocationAssumption DEF RevokedFailsClosed, PassportUsable, TokenUsable
  <1>2. IInv => RevokedFailsClosed
    BY <1>1 DEF RevokedFailsClosed
  <1> QED
    BY <1>2, Inductive, PTL

=============================================================================
