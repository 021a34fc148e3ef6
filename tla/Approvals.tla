------------------------------- MODULE Approvals -------------------------------
(***************************************************************************)
(* POST /v1/approvals/:id, one step-up approval and the requests of its    *)
(* approvers, on one gateway with the file backend.                        *)
(*                                                                         *)
(* A request checks and changes the record in memory without an await, so  *)
(* no other request runs in between, and saves it; the one that completes  *)
(* the quorum then awaits the org signer twice, for the action token and   *)
(* for the approval credential, and others run meanwhile.  A save throws   *)
(* when the disk fails and leaves the change in memory.  A request that is *)
(* refused because the approval is resolved, or its approver recorded,     *)
(* changes nothing and is not a step here.                                 *)
(***************************************************************************)
EXTENDS Integers, Sequences

CONSTANTS
  Approvers,   \* API keys whose role is approver or above
  NoApprover,
  Handlers,    \* requests, each made at most once
  Quorum,      \* ap.quorum, min_approvals of the policy
  Expires,     \* ap.expires_at
  Horizon      \* bound on the clock

ASSUME ApprovalAssumption ==
  /\ Quorum \in Nat \ {0}
  /\ Expires \in Nat /\ Horizon \in Nat
  /\ NoApprover \notin Approvers

VARIABLES
  diskFails,  \* in this behaviour writes to the data directory may fail
  now,        \* Date.now()
  ap, apFile, \* the record in memory and in approvals.json: [status, approvals]
  who,        \* who[h]: the approver that made request h, or NoApprover
  pc,         \* pc[h]: "idle", "token" and "credential" (awaiting the signer for it),
              \* "reply" (the receipt and the answer), "done"
  answer,     \* answer[h]: what h was, or is to be, answered
  minted      \* the requests whose action token was signed

vars == <<diskFails, now, ap, apFile, who, pc, answer, minted>>

Resolved == {"approved", "denied", "expired"}
Records == [status : {"pending", "partial"} \cup Resolved, approvals : Seq(Approvers)]
Answers == {"none", "partial", "error"} \cup Resolved

TypeOK ==
  /\ diskFails \in BOOLEAN
  /\ now \in 0..Horizon
  /\ ap \in Records /\ apFile \in Records
  /\ Len(ap.approvals) <= Quorum
  /\ who \in [Handlers -> Approvers \cup {NoApprover}]
  /\ pc \in [Handlers -> {"idle", "token", "credential", "reply", "done"}]
  /\ answer \in [Handlers -> Answers]
  /\ minted \subseteq Handlers

(* authorize() has stored the approval and answered "step_up".             *)
Init ==
  /\ diskFails \in BOOLEAN
  /\ now = 0
  /\ ap = [status |-> "pending", approvals |-> <<>>]
  /\ apFile = ap
  /\ who = [h \in Handlers |-> NoApprover]
  /\ pc = [h \in Handlers |-> "idle"]
  /\ answer = [h \in Handlers |-> "none"]
  /\ minted = {}

-----------------------------------------------------------------------------
(* Mutant: a resolved approval is not refused.                             *)
OpenAlways == ap.status \in {"pending", "partial"} \cup Resolved

Open == ap.status \in {"pending", "partial"}

(* Mutant: the approvers already recorded are not looked at.               *)
RecordedNever(k) == FALSE

Recorded(k) == \E i \in DOMAIN ap.approvals : ap.approvals[i] = k

Goto(h, l, a) ==
  /\ pc' = [pc EXCEPT ![h] = l]
  /\ answer' = [answer EXCEPT ![h] = a]

(* put(): the collection is saved, or the request fails with storage_error.*)
Put(h, l, a) ==
  \/ apFile' = ap' /\ Goto(h, l, a)
  \/ diskFails /\ UNCHANGED apFile /\ Goto(h, "done", "error")

(* Request h of approver k, on an approval that is open and has no vote of *)
(* k yet.                                                                  *)
Request(h, k) ==
  /\ pc[h] = "idle"
  /\ Open
  /\ who' = [who EXCEPT ![h] = k]
  /\ UNCHANGED <<diskFails, now, minted>>

(* Mutant: the denied record is not put.                                   *)
DenyInMemory(h, k) ==
  /\ Request(h, k)
  /\ now <= Expires /\ ~Recorded(k)
  /\ ap' = [ap EXCEPT !.status = "denied"]
  /\ UNCHANGED apFile
  /\ Goto(h, "reply", "denied")

Deny(h, k) ==
  /\ Request(h, k)
  /\ now <= Expires /\ ~Recorded(k)
  /\ ap' = [ap EXCEPT !.status = "denied"]
  /\ Put(h, "reply", "denied")

(* Mutant: the record becomes "approved" only after the signer answered.   *)
ApproveSignFirst(h, k) ==
  LET votes == Append(ap.approvals, k) IN
  /\ Request(h, k)
  /\ now <= Expires /\ ~Recorded(k)
  /\ ap' = [status |-> "partial", approvals |-> votes]
  /\ IF Len(votes) < Quorum THEN Put(h, "reply", "partial") ELSE Put(h, "token", "none")

(* Mutant: a vote short of the quorum is not put.                          *)
ApproveInMemory(h, k) ==
  LET votes == Append(ap.approvals, k) IN
  /\ Request(h, k)
  /\ now <= Expires /\ ~Recorded(k)
  /\ IF Len(votes) < Quorum
       THEN /\ ap' = [status |-> "partial", approvals |-> votes]
            /\ UNCHANGED apFile
            /\ Goto(h, "reply", "partial")
       ELSE /\ ap' = [status |-> "approved", approvals |-> votes]
            /\ Put(h, "token", "none")

Approve(h, k) ==
  LET votes == Append(ap.approvals, k) IN
  /\ Request(h, k)
  /\ now <= Expires /\ ~Recorded(k)
  /\ IF Len(votes) < Quorum
       THEN /\ ap' = [status |-> "partial", approvals |-> votes]
            /\ Put(h, "reply", "partial")
       ELSE /\ ap' = [status |-> "approved", approvals |-> votes]
            /\ Put(h, "token", "none")

(* Any request on an approval whose time is over.                          *)
Expire(h, k) ==
  /\ Request(h, k)
  /\ now > Expires
  /\ ap' = [ap EXCEPT !.status = "expired"]
  /\ Put(h, "done", "expired")

(* buildActionToken returns, and the record is saved with the token's jti. *)
SignToken(h) ==
  /\ pc[h] = "token"
  /\ minted' = minted \cup {h}
  /\ UNCHANGED ap
  /\ Put(h, "credential", "none")
  /\ UNCHANGED <<diskFails, now, who>>

(* buildApproval returns, and the record is saved with the credential's.   *)
SignApproval(h) ==
  /\ pc[h] = "credential"
  /\ UNCHANGED ap
  /\ Put(h, "reply", "approved")
  /\ UNCHANGED <<diskFails, now, who, minted>>

(* The signer throws: the request fails, the record stays approved.        *)
SignerFails(h) ==
  /\ pc[h] \in {"token", "credential"}
  /\ Goto(h, "done", "error")
  /\ UNCHANGED <<diskFails, now, ap, apFile, who, minted>>

(* The receipt is appended and the answer sent.                            *)
Reply(h) ==
  /\ pc[h] = "reply"
  /\ \/ Goto(h, "done", answer[h])
     \/ diskFails /\ Goto(h, "done", "error")
  /\ UNCHANGED <<diskFails, now, ap, apFile, who, minted>>

(* A request on another approval saves the collection.                     *)
SaveApprovals ==
  /\ apFile' = ap
  /\ UNCHANGED <<diskFails, now, ap, who, pc, answer, minted>>

(* The process dies and starts again from the file; the requests that were *)
(* being handled get no answer.                                            *)
Restart ==
  /\ ap' = apFile
  /\ pc' = [h \in Handlers |-> IF pc[h] = "idle" THEN "idle" ELSE "done"]
  /\ answer' = [h \in Handlers |-> IF pc[h] \in {"idle", "done"} THEN answer[h] ELSE "error"]
  /\ UNCHANGED <<diskFails, now, apFile, who, minted>>

Tick ==
  /\ now < Horizon
  /\ now' = now + 1
  /\ UNCHANGED <<diskFails, ap, apFile, who, pc, answer, minted>>

(* A step of a request.                                                    *)
Serve ==
  \E h \in Handlers :
    \/ \E k \in Approvers : Approve(h, k) \/ Deny(h, k) \/ Expire(h, k)
    \/ SignToken(h) \/ SignApproval(h) \/ SignerFails(h) \/ Reply(h)

Next == Serve \/ SaveApprovals \/ Restart \/ Tick

Spec == Init /\ [][Next]_vars

-----------------------------------------------------------------------------
(* Properties.                                                             *)

Told(a) == {h \in Handlers : pc[h] = "done" /\ answer[h] = a}

(* An action token exists only for an approval that a quorum of distinct   *)
(* approvers approved, and that is on disk: neither failed saves nor       *)
(* restarts let one approver count twice.                                  *)
DistinctQuorum ==
  minted # {} =>
    /\ apFile.status = "approved"
    /\ Len(apFile.approvals) >= Quorum
    /\ \A i, j \in DOMAIN apFile.approvals :
         i # j => apFile.approvals[i] # apFile.approvals[j]

(* At most one action token is ever signed for an approval, whatever is    *)
(* retried and whoever votes while the signer is awaited.                  *)
OneMint == \A g, h \in minted : g = h

(* Once an approver was told that the request is denied, or expired, no    *)
(* action token exists for it and none is ever made.                       *)
RefusedIsRefused == Told("denied") \cup Told("expired") # {} => minted = {}

(* A vote that was acknowledged still counts after any restart.            *)
AckedVotesStay ==
  \A h \in Told("partial") :
    \E i \in DOMAIN apFile.approvals : apFile.approvals[i] = who[h]

(* What was resolved on disk stays as it was resolved.                     *)
ResolvedForGood ==
  [][apFile.status \in Resolved => apFile' = apFile]_vars

(* "On quorum distinct approvals the gateway mints a signed approval       *)
(* credential + deferred action token": an approved request whose handlers *)
(* are all through has delivered its credentials.                          *)
QuorumDelivers ==
  /\ ap.status = "approved"
  /\ \A h \in Handlers : pc[h] \in {"idle", "done"}
  => Told("approved") # {}

-----------------------------------------------------------------------------
(* The inductive invariant of those that hold.                             *)

(* The votes of a record are distinct, and reach the quorum with the last  *)
(* one, which approves it.                                                 *)
WellFormed(r) ==
  /\ r.status \in {"pending", "partial"} => Len(r.approvals) < Quorum
  /\ r.status = "approved" => Len(r.approvals) = Quorum
  /\ \A i, j \in DOMAIN r.approvals : i # j => r.approvals[i] # r.approvals[j]

(* The file may lack votes, and a decision, but contradicts none.          *)
FileIsBehind ==
  /\ apFile.status \in Resolved => apFile = ap
  /\ \A i \in DOMAIN apFile.approvals :
       i \in DOMAIN ap.approvals /\ ap.approvals[i] = apFile.approvals[i]

(* Who has, or is about to have, an action token signed.                   *)
Minters == minted \cup {h \in Handlers : pc[h] \in {"token", "credential"}}

MintersAreQuorate ==
  /\ Minters # {} => apFile.status = "approved"
  /\ \A g, h \in Minters : g = h

AnswersAreOnDisk ==
  \A h \in Handlers :
    /\ answer[h] \in {"denied", "expired"} => apFile.status = answer[h]
    /\ answer[h] = "partial" =>
         \E i \in DOMAIN apFile.approvals : apFile.approvals[i] = who[h]

IdleIsFresh == \A h \in Handlers : pc[h] = "idle" => answer[h] = "none"

IInv ==
  /\ TypeOK
  /\ WellFormed(ap) /\ WellFormed(apFile)
  /\ FileIsBehind
  /\ MintersAreQuorate
  /\ AnswersAreOnDisk
  /\ IdleIsFresh

=============================================================================
