---------------------------- MODULE Approvals_proofs ----------------------------
(***************************************************************************)
(* The decision of an approval, for any number of approvers and requests   *)
(* and any quorum, with failing signers, failing writes and restarts.      *)
(***************************************************************************)
EXTENDS Approvals, SequenceTheorems, TLAPS

(* A vote at the end of the list.                                          *)
LEMMA AppendVote ==
  ASSUME NEW s \in Seq(Approvers), NEW k \in Approvers
  PROVE  /\ Append(s, k) \in Seq(Approvers)
         /\ Len(s) \in Nat /\ Len(Append(s, k)) = Len(s) + 1
         /\ DOMAIN s = 1..Len(s) /\ DOMAIN Append(s, k) = 1..(Len(s) + 1)
         /\ \A i \in 1..Len(s) : Append(s, k)[i] = s[i]
         /\ Append(s, k)[Len(s) + 1] = k
  BY AppendProperties

LEMMA InitIInv == Init => IInv
  <1> SUFFICES ASSUME Init PROVE IInv
    OBVIOUS
  <1>1. /\ ap \in Records /\ apFile \in Records
        /\ ap.approvals = <<>> /\ apFile.approvals = <<>>
        /\ Len(ap.approvals) = 0 /\ DOMAIN ap.approvals = {} /\ DOMAIN apFile.approvals = {}
        /\ Len(apFile.approvals) = 0
        /\ ap.status = "pending" /\ apFile.status = "pending"
    BY DEF Init, Records
  <1>2. TypeOK
    BY <1>1, ApprovalAssumption DEF Init, TypeOK, Answers
  <1>3. WellFormed(ap) /\ WellFormed(apFile)
    BY <1>1, ApprovalAssumption DEF WellFormed
  <1>4. FileIsBehind
    BY <1>1 DEF FileIsBehind, Resolved
  <1>5. MintersAreQuorate /\ AnswersAreOnDisk /\ IdleIsFresh
    BY DEF Init, MintersAreQuorate, Minters, AnswersAreOnDisk, IdleIsFresh
  <1> QED
    BY <1>2, <1>3, <1>4, <1>5 DEF IInv

(* What follows from the shape of the records, whichever step is taken: a  *)
(* request that changes the record to r, which extends the votes of an     *)
(* open one, and puts it, keeps the records well-formed and the file       *)
(* behind, and leaves a file that was resolved alone.                      *)
LEMMA PutRecord ==
  ASSUME IInv, Open, ap' \in Records, WellFormed(ap'), Len(ap'.approvals) <= Quorum,
         \A i \in DOMAIN ap.approvals :
           i \in DOMAIN ap'.approvals /\ ap'.approvals[i] = ap.approvals[i],
         apFile' = ap' \/ apFile' = apFile
  PROVE  /\ apFile' \in Records
         /\ WellFormed(ap)' /\ WellFormed(apFile)'
         /\ FileIsBehind'
         /\ apFile.status \notin Resolved
         /\ \A i \in DOMAIN apFile.approvals :
              i \in DOMAIN apFile'.approvals /\ apFile'.approvals[i] = apFile.approvals[i]
  <1> USE DEF IInv
  <1>1. apFile.status \notin Resolved
    BY DEF FileIsBehind, Open, Resolved
  <1>2. apFile' \in Records /\ WellFormed(apFile')
    BY DEF TypeOK
  <1>3. \A i \in DOMAIN apFile.approvals :
          i \in DOMAIN ap'.approvals /\ ap'.approvals[i] = apFile.approvals[i]
    BY DEF FileIsBehind
  <1>4. FileIsBehind'
    BY <1>1, <1>3 DEF FileIsBehind
  <1>5. WellFormed(ap)' /\ WellFormed(apFile)'
    BY <1>2 DEF WellFormed
  <1> QED
    BY <1>1, <1>2, <1>3, <1>4, <1>5

(* The answers given so far stay on disk, as nothing resolved was changed  *)
(* there and no vote was taken back.                                       *)
LEMMA AnswersStay ==
  ASSUME IInv, NEW g \in Handlers, answer'[g] = answer[g], who'[g] = who[g],
         apFile.status \in Resolved => apFile' = apFile,
         \A i \in DOMAIN apFile.approvals :
           i \in DOMAIN apFile'.approvals /\ apFile'.approvals[i] = apFile.approvals[i]
  PROVE  /\ answer'[g] \in {"denied", "expired"} => apFile'.status = answer'[g]
         /\ answer'[g] = "partial" =>
              \E i \in DOMAIN apFile'.approvals : apFile'.approvals[i] = who'[g]
  BY DEF IInv, AnswersAreOnDisk, Resolved

LEMMA DenyIInv ==
  ASSUME IInv, NEW h \in Handlers, NEW k \in Approvers, Deny(h, k)
  PROVE  IInv'
  <1> USE ApprovalAssumption DEF Deny, Request
  <1>1. /\ ap' \in Records /\ WellFormed(ap') /\ Len(ap'.approvals) <= Quorum
        /\ ap'.approvals = ap.approvals /\ ap'.status = "denied"
    BY DEF IInv, TypeOK, Records, Resolved, WellFormed
  <1>2. \/ apFile' = ap' /\ Goto(h, "reply", "denied")
        \/ diskFails /\ apFile' = apFile /\ Goto(h, "done", "error")
    BY DEF Put
  <1>3. /\ apFile' \in Records /\ WellFormed(ap)' /\ WellFormed(apFile)' /\ FileIsBehind'
        /\ apFile.status \notin Resolved
        /\ \A i \in DOMAIN apFile.approvals :
             i \in DOMAIN apFile'.approvals /\ apFile'.approvals[i] = apFile.approvals[i]
    BY <1>1, <1>2, PutRecord
  <1>4. TypeOK'
    BY <1>1, <1>2, <1>3 DEF IInv, TypeOK, Goto, Answers, Resolved
  <1>5. MintersAreQuorate'
    BY <1>2, <1>3 DEF IInv, TypeOK, MintersAreQuorate, Minters, Goto, Resolved
  <1>6. AnswersAreOnDisk'
    <2> SUFFICES ASSUME NEW g \in Handlers
                 PROVE  /\ answer'[g] \in {"denied", "expired"} => apFile'.status = answer'[g]
                        /\ answer'[g] = "partial" =>
                             \E i \in DOMAIN apFile'.approvals : apFile'.approvals[i] = who'[g]
      BY DEF AnswersAreOnDisk
    <2>1. CASE g = h
      BY <2>1, <1>1, <1>2 DEF IInv, TypeOK, Goto
    <2>2. CASE g # h
      BY <2>2, <1>2, <1>3, AnswersStay DEF IInv, TypeOK, Goto
    <2> QED
      BY <2>1, <2>2
  <1>7. IdleIsFresh'
    BY <1>2 DEF IInv, TypeOK, IdleIsFresh, Goto
  <1> QED
    BY <1>3, <1>4, <1>5, <1>6, <1>7 DEF IInv
LEMMA ExpireIInv ==
  ASSUME IInv, NEW h \in Handlers, NEW k \in Approvers, Expire(h, k)
  PROVE  IInv'
  <1> USE ApprovalAssumption DEF Expire, Request
  <1>1. /\ ap' \in Records /\ WellFormed(ap') /\ Len(ap'.approvals) <= Quorum
        /\ ap'.approvals = ap.approvals /\ ap'.status = "expired"
    BY DEF IInv, TypeOK, Records, Resolved, WellFormed
  <1>2. \/ apFile' = ap' /\ Goto(h, "done", "expired")
        \/ diskFails /\ apFile' = apFile /\ Goto(h, "done", "error")
    BY DEF Put
  <1>3. /\ apFile' \in Records /\ WellFormed(ap)' /\ WellFormed(apFile)' /\ FileIsBehind'
        /\ apFile.status \notin Resolved
        /\ \A i \in DOMAIN apFile.approvals :
             i \in DOMAIN apFile'.approvals /\ apFile'.approvals[i] = apFile.approvals[i]
    BY <1>1, <1>2, PutRecord
  <1>4. TypeOK'
    BY <1>1, <1>2, <1>3 DEF IInv, TypeOK, Goto, Answers, Resolved
  <1>5. MintersAreQuorate'
    BY <1>2, <1>3 DEF IInv, TypeOK, MintersAreQuorate, Minters, Goto, Resolved
  <1>6. AnswersAreOnDisk'
    <2> SUFFICES ASSUME NEW g \in Handlers
                 PROVE  /\ answer'[g] \in {"denied", "expired"} => apFile'.status = answer'[g]
                        /\ answer'[g] = "partial" =>
                             \E i \in DOMAIN apFile'.approvals : apFile'.approvals[i] = who'[g]
      BY DEF AnswersAreOnDisk
    <2>1. CASE g = h
      BY <2>1, <1>1, <1>2 DEF IInv, TypeOK, Goto
    <2>2. CASE g # h
      BY <2>2, <1>2, <1>3, AnswersStay DEF IInv, TypeOK, Goto
    <2> QED
      BY <2>1, <2>2
  <1>7. IdleIsFresh'
    BY <1>2 DEF IInv, TypeOK, IdleIsFresh, Goto
  <1> QED
    BY <1>3, <1>4, <1>5, <1>6, <1>7 DEF IInv

(* A vote: below the quorum the record stays open, with the last one it is *)
(* approved, and this request is the only one that goes on to the signer.  *)
LEMMA ApproveIInv ==
  ASSUME IInv, NEW h \in Handlers, NEW k \in Approvers, Approve(h, k)
  PROVE  IInv'
  <1> USE ApprovalAssumption DEF Approve, Request
  <1> DEFINE votes == Append(ap.approvals, k)
  <1>1. /\ votes \in Seq(Approvers)
        /\ Len(ap.approvals) \in Nat /\ Len(votes) = Len(ap.approvals) + 1
        /\ DOMAIN ap.approvals = 1..Len(ap.approvals)
        /\ DOMAIN votes = 1..(Len(ap.approvals) + 1)
        /\ \A i \in 1..Len(ap.approvals) : votes[i] = ap.approvals[i]
        /\ votes[Len(ap.approvals) + 1] = k
    <2>1. ap.approvals \in Seq(Approvers)
      BY DEF IInv, TypeOK, Records
    <2> QED
      BY <2>1, AppendVote
  <1>2. Len(ap.approvals) < Quorum
    BY DEF IInv, WellFormed, Open
  <1>3. \A i, j \in DOMAIN votes : i # j => votes[i] # votes[j]
    <2>1. \A i \in 1..Len(ap.approvals) : ap.approvals[i] # k
      BY <1>1 DEF Recorded
    <2>2. \A i, j \in 1..Len(ap.approvals) : i # j => ap.approvals[i] # ap.approvals[j]
      BY <1>1 DEF IInv, WellFormed
    <2>3. \A i \in DOMAIN votes : i \in 1..Len(ap.approvals) \/ i = Len(ap.approvals) + 1
      BY <1>1
    <2> QED
      BY <1>1, <2>1, <2>2, <2>3
  <1>4. /\ ap'.approvals = votes
        /\ \/ /\ Len(votes) < Quorum /\ ap'.status = "partial"
              /\ ap' = [status |-> "partial", approvals |-> votes]
           \/ /\ Len(votes) = Quorum /\ ap'.status = "approved"
              /\ ap' = [status |-> "approved", approvals |-> votes]
    <2>1. CASE Len(votes) < Quorum
      BY <2>1
    <2>2. CASE ~(Len(votes) < Quorum)
      BY <2>2, <1>1, <1>2
    <2> QED
      BY <2>1, <2>2
  <1>5. ap' \in Records /\ WellFormed(ap') /\ Len(ap'.approvals) <= Quorum
    <2> HIDE DEF votes
    <2> QED
      BY <1>1, <1>3, <1>4 DEF Records, Resolved, WellFormed
  <1>6. \/ apFile' = ap' /\ \/ ap'.status = "partial" /\ Goto(h, "reply", "partial")
                            \/ ap'.status = "approved" /\ Goto(h, "token", "none")
        \/ diskFails /\ apFile' = apFile /\ Goto(h, "done", "error")
    BY <1>4 DEF Put
  <1>7. /\ apFile' \in Records /\ WellFormed(ap)' /\ WellFormed(apFile)' /\ FileIsBehind'
        /\ apFile.status \notin Resolved
        /\ \A i \in DOMAIN apFile.approvals :
             i \in DOMAIN apFile'.approvals /\ apFile'.approvals[i] = apFile.approvals[i]
    <2>1. \A i \in DOMAIN ap.approvals :
            i \in DOMAIN ap'.approvals /\ ap'.approvals[i] = ap.approvals[i]
      BY <1>1, <1>4
    <2>2. apFile' = ap' \/ apFile' = apFile
      BY <1>6
    <2> HIDE DEF votes
    <2> QED
      BY <1>5, <2>1, <2>2, PutRecord
  <1> HIDE DEF votes
  <1>8. TypeOK'
    BY <1>5, <1>6, <1>7 DEF IInv, TypeOK, Goto, Answers, Resolved
  <1>9. MintersAreQuorate'
    <2>1. Minters = {}
      BY <1>7 DEF IInv, MintersAreQuorate, Resolved
    <2> QED
      BY <1>6, <2>1 DEF IInv, TypeOK, MintersAreQuorate, Minters, Goto
  <1>10. AnswersAreOnDisk'
    <2> SUFFICES ASSUME NEW g \in Handlers
                 PROVE  /\ answer'[g] \in {"denied", "expired"} => apFile'.status = answer'[g]
                        /\ answer'[g] = "partial" =>
                             \E i \in DOMAIN apFile'.approvals : apFile'.approvals[i] = who'[g]
      BY DEF AnswersAreOnDisk
    <2>1. CASE g = h
      <3>1. who'[g] = k /\ answer'[g] \in {"none", "partial", "error"}
        BY <2>1, <1>6 DEF IInv, TypeOK, Goto
      <3>2. answer'[g] = "partial" => apFile' = ap'
        BY <2>1, <1>6 DEF IInv, TypeOK, Goto
      <3>3. \E i \in DOMAIN ap'.approvals : ap'.approvals[i] = k
        BY <1>1, <1>4
      <3> QED
        BY <3>1, <3>2, <3>3
    <2>2. CASE g # h
      BY <2>2, <1>6, <1>7, AnswersStay DEF IInv, TypeOK, Goto
    <2> QED
      BY <2>1, <2>2
  <1>11. IdleIsFresh'
    BY <1>6 DEF IInv, TypeOK, IdleIsFresh, Goto
  <1> QED
    BY <1>7, <1>8, <1>9, <1>10, <1>11 DEF IInv

(* The steps of a request after its decision leave both records alone: the *)
(* file of an approval whose signer is awaited is up to date, so putting   *)
(* it changes nothing.                                                     *)
LEMMA DecidedIsPut ==
  ASSUME IInv, NEW h \in Handlers, pc[h] \in {"token", "credential"}
  PROVE  apFile = ap /\ apFile.status = "approved" /\ \A g \in Minters : g = h
  BY DEF IInv, MintersAreQuorate, Minters, FileIsBehind, Resolved

(* With both records unchanged, what is left to show is about the requests.*)
LEMMA RecordsUnchanged ==
  ASSUME IInv, TypeOK', UNCHANGED <<ap, apFile, who>>, Minters' \subseteq Minters,
         \A g \in Handlers : answer'[g] = answer[g] \/ answer'[g] \in {"none", "error"}
                             \/ (answer'[g] = "approved" /\ apFile.status = "approved"),
         \A g \in Handlers : pc'[g] = "idle" => pc[g] = "idle" /\ answer'[g] = answer[g]
  PROVE  IInv'
  <1>1. WellFormed(ap)' /\ WellFormed(apFile)' /\ FileIsBehind'
    BY DEF IInv, WellFormed, FileIsBehind
  <1>2. MintersAreQuorate'
    BY DEF IInv, MintersAreQuorate
  <1>3. AnswersAreOnDisk' /\ IdleIsFresh'
    BY DEF IInv, AnswersAreOnDisk, IdleIsFresh
  <1> QED
    BY <1>1, <1>2, <1>3 DEF IInv

LEMMA HandlerStepIInv ==
  ASSUME IInv, NEW h \in Handlers,
         SignToken(h) \/ SignApproval(h) \/ SignerFails(h) \/ Reply(h)
  PROVE  IInv'
  <1>1. CASE SignToken(h)
    <2>1. apFile = ap /\ apFile' = apFile /\ ap' = ap
      BY <1>1, DecidedIsPut DEF SignToken, Put
    <2>2. TypeOK'
      BY <1>1, <2>1 DEF IInv, TypeOK, SignToken, Put, Goto, Answers
    <2>3. Minters' \subseteq Minters
      BY <1>1 DEF IInv, TypeOK, SignToken, Put, Goto, Minters
    <2>4. \A g \in Handlers : answer'[g] = answer[g] \/ answer'[g] \in {"none", "error"}
      BY <1>1 DEF IInv, TypeOK, SignToken, Put, Goto
    <2>5. \A g \in Handlers : pc'[g] = "idle" => pc[g] = "idle" /\ answer'[g] = answer[g]
      BY <1>1 DEF IInv, TypeOK, SignToken, Put, Goto
    <2> QED
      BY <1>1, <2>1, <2>2, <2>3, <2>4, <2>5, RecordsUnchanged DEF SignToken
  <1>2. CASE SignApproval(h)
    <2>1. apFile = ap /\ apFile' = apFile /\ ap' = ap /\ apFile.status = "approved"
      BY <1>2, DecidedIsPut DEF SignApproval, Put
    <2>2. TypeOK'
      BY <1>2, <2>1 DEF IInv, TypeOK, SignApproval, Put, Goto, Answers, Resolved
    <2>3. Minters' \subseteq Minters
      BY <1>2 DEF IInv, TypeOK, SignApproval, Put, Goto, Minters
    <2>4. \A g \in Handlers : answer'[g] = answer[g] \/ answer'[g] \in {"approved", "error"}
      BY <1>2 DEF IInv, TypeOK, SignApproval, Put, Goto
    <2>5. \A g \in Handlers : pc'[g] = "idle" => pc[g] = "idle" /\ answer'[g] = answer[g]
      BY <1>2 DEF IInv, TypeOK, SignApproval, Put, Goto
    <2> QED
      BY <1>2, <2>1, <2>2, <2>3, <2>4, <2>5, RecordsUnchanged DEF SignApproval
  <1>3. CASE SignerFails(h)
    <2>1. TypeOK' /\ Minters' \subseteq Minters
      BY <1>3 DEF IInv, TypeOK, SignerFails, Goto, Answers, Minters
    <2>2. /\ \A g \in Handlers : answer'[g] = answer[g] \/ answer'[g] \in {"none", "error"}
          /\ \A g \in Handlers : pc'[g] = "idle" => pc[g] = "idle" /\ answer'[g] = answer[g]
      BY <1>3 DEF IInv, TypeOK, SignerFails, Goto
    <2> QED
      BY <1>3, <2>1, <2>2, RecordsUnchanged DEF SignerFails
  <1>4. CASE Reply(h)
    <2>1. TypeOK' /\ Minters' \subseteq Minters
      BY <1>4 DEF IInv, TypeOK, Reply, Goto, Answers, Minters
    <2>2. /\ \A g \in Handlers : answer'[g] = answer[g] \/ answer'[g] \in {"none", "error"}
          /\ \A g \in Handlers : pc'[g] = "idle" => pc[g] = "idle" /\ answer'[g] = answer[g]
      BY <1>4 DEF IInv, TypeOK, Reply, Goto
    <2> QED
      BY <1>4, <2>1, <2>2, RecordsUnchanged DEF Reply
  <1> QED
    BY <1>1, <1>2, <1>3, <1>4

LEMMA SaveIInv ==
  ASSUME IInv, SaveApprovals
  PROVE  IInv'
  <1> USE DEF SaveApprovals
  <1>1. /\ TypeOK' /\ WellFormed(ap)' /\ WellFormed(apFile)'
    BY DEF IInv, TypeOK, WellFormed
  <1>2. FileIsBehind'
    BY DEF FileIsBehind
  <1>3. /\ apFile.status \in Resolved => apFile' = apFile
        /\ \A i \in DOMAIN apFile.approvals :
             i \in DOMAIN apFile'.approvals /\ apFile'.approvals[i] = apFile.approvals[i]
    BY DEF IInv, FileIsBehind
  <1>4. MintersAreQuorate'
    BY <1>3 DEF IInv, MintersAreQuorate, Minters, Resolved
  <1>5. AnswersAreOnDisk'
    BY <1>3, AnswersStay DEF AnswersAreOnDisk
  <1>6. IdleIsFresh'
    BY DEF IInv, IdleIsFresh
  <1> QED
    BY <1>1, <1>2, <1>4, <1>5, <1>6 DEF IInv

LEMMA RestartIInv ==
  ASSUME IInv, Restart
  PROVE  IInv'
  <1> USE DEF Restart
  <1>1. TypeOK' /\ WellFormed(ap)' /\ WellFormed(apFile)'
    <2>1. Len(apFile.approvals) <= Quorum
      BY ApprovalAssumption DEF IInv, TypeOK, WellFormed, Records, FileIsBehind, Resolved
    <2>2. pc' \in [Handlers -> {"idle", "token", "credential", "reply", "done"}]
      BY DEF IInv, TypeOK
    <2>3. answer' \in [Handlers -> Answers]
      BY DEF IInv, TypeOK, Answers
    <2>4. WellFormed(ap)' /\ WellFormed(apFile)'
      BY DEF IInv, WellFormed
    <2> QED
      BY <2>1, <2>2, <2>3, <2>4 DEF IInv, TypeOK
  <1>2. FileIsBehind'
    BY DEF FileIsBehind
  <1>3. Minters' \subseteq Minters
    BY DEF IInv, TypeOK, Minters
  <1>4. MintersAreQuorate'
    BY <1>3 DEF IInv, MintersAreQuorate
  <1>5. AnswersAreOnDisk'
    BY DEF IInv, TypeOK, AnswersAreOnDisk
  <1>6. IdleIsFresh'
    BY DEF IInv, TypeOK, IdleIsFresh
  <1> QED
    BY <1>1, <1>2, <1>4, <1>5, <1>6 DEF IInv

LEMMA TickIInv ==
  ASSUME IInv, Tick \/ UNCHANGED vars
  PROVE  IInv'
  <1>1. UNCHANGED <<ap, apFile, who, pc, answer, minted>>
    BY DEF Tick, vars
  <1>2. TypeOK'
    BY ApprovalAssumption DEF IInv, TypeOK, Tick, vars
  <1>3. Minters' = Minters
    BY <1>1 DEF Minters
  <1> QED
    BY <1>1, <1>2, <1>3, RecordsUnchanged

LEMMA NextIInv ==
  ASSUME IInv, [Next]_vars
  PROVE  IInv'
  BY ApproveIInv, DenyIInv, ExpireIInv, HandlerStepIInv, SaveIInv, RestartIInv, TickIInv
     DEF Next, Serve

-----------------------------------------------------------------------------
(* The invariant, for every number of approvers, requests and votes asked. *)
THEOREM Inductive == Spec => []IInv
  BY InitIInv, NextIInv, PTL DEF Spec

(* The variables keep their types; the list of votes never exceeds the     *)
(* quorum.                                                                 *)
THEOREM TypeCorrect == Spec => []TypeOK
  <1>1. IInv => TypeOK
    BY DEF IInv
  <1> QED
    BY <1>1, Inductive, PTL

(* What the four-eyes rule promises: no action token before a quorum of    *)
(* distinct approvers is on disk, whatever fails and restarts.             *)
THEOREM QuorumIsDistinct == Spec => []DistinctQuorum
  <1>1. IInv => DistinctQuorum
    <2> SUFFICES ASSUME IInv, minted # {} PROVE DistinctQuorum
      BY DEF DistinctQuorum
    <2>1. apFile.status = "approved"
      BY DEF IInv, MintersAreQuorate, Minters
    <2>2. Len(apFile.approvals) = Quorum
      BY <2>1 DEF IInv, WellFormed
    <2> QED
      BY <2>1, <2>2, ApprovalAssumption DEF IInv, WellFormed, DistinctQuorum
  <1> QED
    BY <1>1, Inductive, PTL

(* However requests are retried and interleave with the signer, one action *)
(* token at most is signed for an approval.                                *)
THEOREM MintsOnce == Spec => []OneMint
  <1>1. IInv => OneMint
    BY DEF IInv, MintersAreQuorate, Minters, OneMint
  <1> QED
    BY <1>1, Inductive, PTL

(* A refusal that was answered is final: no token exists beside it.        *)
THEOREM RefusalHolds == Spec => []RefusedIsRefused
  <1>1. IInv => RefusedIsRefused
    BY DEF IInv, MintersAreQuorate, Minters, AnswersAreOnDisk, Told, RefusedIsRefused
  <1> QED
    BY <1>1, Inductive, PTL

(* A vote that was answered as counted is on disk from then on.            *)
THEOREM VotesAreKept == Spec => []AckedVotesStay
  <1>1. IInv => AckedVotesStay
    BY DEF IInv, AnswersAreOnDisk, Told, AckedVotesStay
  <1> QED
    BY <1>1, Inductive, PTL

(* No step, not even one that writes the collection for another approval,  *)
(* changes a record that was resolved on disk.                             *)
THEOREM ResolvedStays == Spec => ResolvedForGood
  <1>1. ASSUME IInv, [Next]_vars, apFile.status \in Resolved
        PROVE  apFile' = apFile
    <2>1. apFile = ap /\ ~Open
      BY <1>1 DEF IInv, FileIsBehind, Resolved, Open
    <2>2. \A h \in Handlers, k \in Approvers :
            ~Approve(h, k) /\ ~Deny(h, k) /\ ~Expire(h, k)
      BY <2>1 DEF Approve, Deny, Expire, Request
    <2>3. ASSUME NEW h \in Handlers,
                 SignToken(h) \/ SignApproval(h) \/ SignerFails(h) \/ Reply(h)
          PROVE  apFile' = apFile
      BY <2>1, <2>3 DEF SignToken, SignApproval, SignerFails, Reply, Put
    <2>4. CASE SaveApprovals \/ Restart \/ Tick \/ UNCHANGED vars
      BY <2>1, <2>4 DEF SaveApprovals, Restart, Tick, vars
    <2> QED
      BY <1>1, <2>2, <2>3, <2>4 DEF Next, Serve
  <1>2. ASSUME IInv, [Next]_vars
        PROVE  [apFile.status \in Resolved => apFile' = apFile]_vars
    BY <1>1, <1>2
  <1> QED
    BY <1>2, Inductive, PTL DEF Spec, ResolvedForGood

=============================================================================
