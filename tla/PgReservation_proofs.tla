------------------------- MODULE PgReservation_proofs -------------------------
(***************************************************************************)
(* Proofs about the SQL reservation, for any number of calls, gateways,    *)
(* tokens and requests: the inductive invariant, and the refinement of     *)
(* ExecutionLedger.                                                        *)
(***************************************************************************)
EXTENDS PgReservation, FiniteSetTheorems, TLAPS

(* A request is a record of the four fields the transaction reads.         *)
LEMMA RequestFields ==
  ASSUME NEW r \in Requests
  PROVE  /\ r.nonce \in Nonces
         /\ r.jti \in Jtis
         /\ r.token \in Tokens \cup {NoToken}
         /\ r.amount \in Int
  BY PgAssumption DEF Nonces, Jtis

LEMMA InitIInv == Init => IInv
  <1> SUFFICES ASSUME Init PROVE IInv
    OBVIOUS
  <1>1. TypeOK
    BY DEF Init, TypeOK, PCs, InTx, Verdicts
  <1>2. RowsHaveOwners /\ AllOrNothing /\ WithinCap
    BY PgAssumption DEF Init, RowsHaveOwners, AllOrNothing, WithinCap
  <1>3. \A c \in Calls : HoldsRows(c) /\ ReadIsCurrent(c) /\ RejectionIsTrue(c)
                         /\ VerdictFitsPc(c)
    BY PgAssumption DEF Init, HoldsRows, ReadIsCurrent, RejectionIsTrue, VerdictFitsPc
  <1> QED
    BY <1>1, <1>2, <1>3 DEF IInv

(* What a call in progress carries: its request is a member of Requests.   *)
LEMMA CallInProgress ==
  ASSUME IInv, NEW c \in Calls, pc[c] # "idle"
  PROVE  /\ req[c] \in Requests
         /\ req[c].nonce \in Nonces /\ req[c].jti \in Jtis
         /\ req[c].token \in Tokens \cup {NoToken} /\ req[c].amount \in Int
  BY RequestFields DEF IInv, TypeOK, VerdictFitsPc

LEMMA CallIInv ==
  ASSUME IInv, NEW c \in Calls, \E r \in Requests : Call(c, r)
  PROVE  IInv'
  <1> USE DEF IInv, vars, tables, locks, Call, Goto, ValidArgs
  <1>1. TypeOK'
    BY RequestFields, CallInProgress, PgAssumption DEF TypeOK, PCs, InTx, Verdicts, VerdictFitsPc, ReadIsCurrent, HoldsRows
  <1>2. RowsHaveOwners'
    BY <1>1, RequestFields, CallInProgress, PgAssumption DEF TypeOK, RowsHaveOwners, HoldsRows, VerdictFitsPc, InTx
  <1>3. AllOrNothing'
    BY <1>1, RequestFields, CallInProgress, PgAssumption DEF TypeOK, RowsHaveOwners, AllOrNothing, HoldsRows, VerdictFitsPc, InTx
  <1>4. WithinCap'
    BY <1>1, CallInProgress, PgAssumption DEF TypeOK, WithinCap, ReadIsCurrent, VerdictFitsPc
  <1>5. ASSUME NEW d \in Calls PROVE HoldsRows(d)'
    BY <1>1, RequestFields, CallInProgress, PgAssumption DEF TypeOK, HoldsRows, VerdictFitsPc, InTx
  <1>6. ASSUME NEW d \in Calls PROVE ReadIsCurrent(d)'
    BY <1>1, RequestFields, CallInProgress, PgAssumption DEF TypeOK, HoldsRows, ReadIsCurrent, VerdictFitsPc, InTx
  <1>7. ASSUME NEW d \in Calls PROVE RejectionIsTrue(d)'
    BY <1>1, RequestFields, CallInProgress, PgAssumption DEF TypeOK, HoldsRows, ReadIsCurrent, RejectionIsTrue, VerdictFitsPc, InTx
  <1>8. ASSUME NEW d \in Calls PROVE VerdictFitsPc(d)'
    BY <1>1, RequestFields, CallInProgress, PgAssumption DEF TypeOK, VerdictFitsPc, InTx
  <1> QED
    BY <1>1, <1>2, <1>3, <1>4, <1>5, <1>6, <1>7, <1>8

LEMMA ConnectIInv ==
  ASSUME IInv, NEW c \in Calls, Connect(c)
  PROVE  IInv'
  <1> USE DEF IInv, vars, tables, locks, Connect, Goto
  <1>1. TypeOK'
    BY RequestFields, CallInProgress, PgAssumption DEF TypeOK, PCs, InTx, Verdicts, VerdictFitsPc, ReadIsCurrent, HoldsRows
  <1>2. RowsHaveOwners'
    BY <1>1, RequestFields, CallInProgress, PgAssumption DEF TypeOK, RowsHaveOwners, HoldsRows, VerdictFitsPc, InTx
  <1>3. AllOrNothing'
    BY <1>1, RequestFields, CallInProgress, PgAssumption DEF TypeOK, RowsHaveOwners, AllOrNothing, HoldsRows, VerdictFitsPc, InTx
  <1>4. WithinCap'
    BY <1>1, CallInProgress, PgAssumption DEF TypeOK, WithinCap, ReadIsCurrent, VerdictFitsPc
  <1>5. ASSUME NEW d \in Calls PROVE HoldsRows(d)'
    BY <1>1, RequestFields, CallInProgress, PgAssumption DEF TypeOK, HoldsRows, VerdictFitsPc, InTx
  <1>6. ASSUME NEW d \in Calls PROVE ReadIsCurrent(d)'
    BY <1>1, RequestFields, CallInProgress, PgAssumption DEF TypeOK, HoldsRows, ReadIsCurrent, VerdictFitsPc, InTx
  <1>7. ASSUME NEW d \in Calls PROVE RejectionIsTrue(d)'
    BY <1>1, RequestFields, CallInProgress, PgAssumption DEF TypeOK, HoldsRows, ReadIsCurrent, RejectionIsTrue, VerdictFitsPc, InTx
  <1>8. ASSUME NEW d \in Calls PROVE VerdictFitsPc(d)'
    BY <1>1, RequestFields, CallInProgress, PgAssumption DEF TypeOK, VerdictFitsPc, InTx
  <1> QED
    BY <1>1, <1>2, <1>3, <1>4, <1>5, <1>6, <1>7, <1>8

LEMMA ConnectTimeoutIInv ==
  ASSUME IInv, NEW c \in Calls, ConnectTimeout(c)
  PROVE  IInv'
  <1> USE DEF IInv, vars, tables, locks, ConnectTimeout, Goto
  <1>1. TypeOK'
    BY RequestFields, CallInProgress, PgAssumption DEF TypeOK, PCs, InTx, Verdicts, VerdictFitsPc, ReadIsCurrent, HoldsRows
  <1>2. RowsHaveOwners'
    BY <1>1, RequestFields, CallInProgress, PgAssumption DEF TypeOK, RowsHaveOwners, HoldsRows, VerdictFitsPc, InTx
  <1>3. AllOrNothing'
    BY <1>1, RequestFields, CallInProgress, PgAssumption DEF TypeOK, RowsHaveOwners, AllOrNothing, HoldsRows, VerdictFitsPc, InTx
  <1>4. WithinCap'
    BY <1>1, CallInProgress, PgAssumption DEF TypeOK, WithinCap, ReadIsCurrent, VerdictFitsPc
  <1>5. ASSUME NEW d \in Calls PROVE HoldsRows(d)'
    BY <1>1, RequestFields, CallInProgress, PgAssumption DEF TypeOK, HoldsRows, VerdictFitsPc, InTx
  <1>6. ASSUME NEW d \in Calls PROVE ReadIsCurrent(d)'
    BY <1>1, RequestFields, CallInProgress, PgAssumption DEF TypeOK, HoldsRows, ReadIsCurrent, VerdictFitsPc, InTx
  <1>7. ASSUME NEW d \in Calls PROVE RejectionIsTrue(d)'
    BY <1>1, RequestFields, CallInProgress, PgAssumption DEF TypeOK, HoldsRows, ReadIsCurrent, RejectionIsTrue, VerdictFitsPc, InTx
  <1>8. ASSUME NEW d \in Calls PROVE VerdictFitsPc(d)'
    BY <1>1, RequestFields, CallInProgress, PgAssumption DEF TypeOK, VerdictFitsPc, InTx
  <1> QED
    BY <1>1, <1>2, <1>3, <1>4, <1>5, <1>6, <1>7, <1>8

LEMMA InsertNonceIInv ==
  ASSUME IInv, NEW c \in Calls, InsertNonce(c)
  PROVE  IInv'
  <1> USE DEF IInv, vars, tables, locks, InsertNonce, Goto, Reject
  <1>1. TypeOK'
    BY RequestFields, CallInProgress, PgAssumption DEF TypeOK, PCs, InTx, Verdicts, VerdictFitsPc, ReadIsCurrent, HoldsRows
  <1>2. RowsHaveOwners'
    BY <1>1, RequestFields, CallInProgress, PgAssumption DEF TypeOK, RowsHaveOwners, HoldsRows, VerdictFitsPc, InTx
  <1>3. AllOrNothing'
    BY <1>1, RequestFields, CallInProgress, PgAssumption DEF TypeOK, RowsHaveOwners, AllOrNothing, HoldsRows, VerdictFitsPc, InTx
  <1>4. WithinCap'
    BY <1>1, CallInProgress, PgAssumption DEF TypeOK, WithinCap, ReadIsCurrent, VerdictFitsPc
  <1>5. ASSUME NEW d \in Calls PROVE HoldsRows(d)'
    BY <1>1, RequestFields, CallInProgress, PgAssumption DEF TypeOK, HoldsRows, VerdictFitsPc, InTx
  <1>6. ASSUME NEW d \in Calls PROVE ReadIsCurrent(d)'
    BY <1>1, RequestFields, CallInProgress, PgAssumption DEF TypeOK, HoldsRows, ReadIsCurrent, VerdictFitsPc, InTx
  <1>7. ASSUME NEW d \in Calls PROVE RejectionIsTrue(d)'
    BY <1>1, RequestFields, CallInProgress, PgAssumption DEF TypeOK, HoldsRows, ReadIsCurrent, RejectionIsTrue, VerdictFitsPc, InTx
  <1>8. ASSUME NEW d \in Calls PROVE VerdictFitsPc(d)'
    BY <1>1, RequestFields, CallInProgress, PgAssumption DEF TypeOK, VerdictFitsPc, InTx
  <1> QED
    BY <1>1, <1>2, <1>3, <1>4, <1>5, <1>6, <1>7, <1>8

LEMMA InsertJtiIInv ==
  ASSUME IInv, NEW c \in Calls, InsertJti(c)
  PROVE  IInv'
  <1> USE DEF IInv, vars, tables, locks, InsertJti, Goto, Reject
  <1>1. TypeOK'
    BY RequestFields, CallInProgress, PgAssumption DEF TypeOK, PCs, InTx, Verdicts, VerdictFitsPc, ReadIsCurrent, HoldsRows
  <1>2. RowsHaveOwners'
    BY <1>1, RequestFields, CallInProgress, PgAssumption DEF TypeOK, RowsHaveOwners, HoldsRows, VerdictFitsPc, InTx
  <1>3. AllOrNothing'
    BY <1>1, RequestFields, CallInProgress, PgAssumption DEF TypeOK, RowsHaveOwners, AllOrNothing, HoldsRows, VerdictFitsPc, InTx
  <1>4. WithinCap'
    BY <1>1, CallInProgress, PgAssumption DEF TypeOK, WithinCap, ReadIsCurrent, VerdictFitsPc
  <1>5. ASSUME NEW d \in Calls PROVE HoldsRows(d)'
    BY <1>1, RequestFields, CallInProgress, PgAssumption DEF TypeOK, HoldsRows, VerdictFitsPc, InTx
  <1>6. ASSUME NEW d \in Calls PROVE ReadIsCurrent(d)'
    BY <1>1, RequestFields, CallInProgress, PgAssumption DEF TypeOK, HoldsRows, ReadIsCurrent, VerdictFitsPc, InTx
  <1>7. ASSUME NEW d \in Calls PROVE RejectionIsTrue(d)'
    BY <1>1, RequestFields, CallInProgress, PgAssumption DEF TypeOK, HoldsRows, ReadIsCurrent, RejectionIsTrue, VerdictFitsPc, InTx
  <1>8. ASSUME NEW d \in Calls PROVE VerdictFitsPc(d)'
    BY <1>1, RequestFields, CallInProgress, PgAssumption DEF TypeOK, VerdictFitsPc, InTx
  <1> QED
    BY <1>1, <1>2, <1>3, <1>4, <1>5, <1>6, <1>7, <1>8

LEMMA InsertSpendRowIInv ==
  ASSUME IInv, NEW c \in Calls, InsertSpendRow(c)
  PROVE  IInv'
  <1> USE DEF IInv, vars, tables, locks, InsertSpendRow, Goto
  <1>1. TypeOK'
    BY RequestFields, CallInProgress, PgAssumption DEF TypeOK, PCs, InTx, Verdicts, VerdictFitsPc, ReadIsCurrent, HoldsRows
  <1>2. RowsHaveOwners'
    BY <1>1, RequestFields, CallInProgress, PgAssumption DEF TypeOK, RowsHaveOwners, HoldsRows, VerdictFitsPc, InTx
  <1>3. AllOrNothing'
    BY <1>1, RequestFields, CallInProgress, PgAssumption DEF TypeOK, RowsHaveOwners, AllOrNothing, HoldsRows, VerdictFitsPc, InTx
  <1>4. WithinCap'
    BY <1>1, CallInProgress, PgAssumption DEF TypeOK, WithinCap, ReadIsCurrent, VerdictFitsPc
  <1>5. ASSUME NEW d \in Calls PROVE HoldsRows(d)'
    BY <1>1, RequestFields, CallInProgress, PgAssumption DEF TypeOK, HoldsRows, VerdictFitsPc, InTx
  <1>6. ASSUME NEW d \in Calls PROVE ReadIsCurrent(d)'
    BY <1>1, RequestFields, CallInProgress, PgAssumption DEF TypeOK, HoldsRows, ReadIsCurrent, VerdictFitsPc, InTx
  <1>7. ASSUME NEW d \in Calls PROVE RejectionIsTrue(d)'
    BY <1>1, RequestFields, CallInProgress, PgAssumption DEF TypeOK, HoldsRows, ReadIsCurrent, RejectionIsTrue, VerdictFitsPc, InTx
  <1>8. ASSUME NEW d \in Calls PROVE VerdictFitsPc(d)'
    BY <1>1, RequestFields, CallInProgress, PgAssumption DEF TypeOK, VerdictFitsPc, InTx
  <1> QED
    BY <1>1, <1>2, <1>3, <1>4, <1>5, <1>6, <1>7, <1>8

LEMMA LockSpendIInv ==
  ASSUME IInv, NEW c \in Calls, LockSpend(c)
  PROVE  IInv'
  <1> USE DEF IInv, vars, tables, locks, LockSpend, Goto, Reject
  <1>1. TypeOK'
    BY RequestFields, CallInProgress, PgAssumption DEF TypeOK, PCs, InTx, Verdicts, VerdictFitsPc, ReadIsCurrent, HoldsRows
  <1>2. RowsHaveOwners'
    BY <1>1, RequestFields, CallInProgress, PgAssumption DEF TypeOK, RowsHaveOwners, HoldsRows, VerdictFitsPc, InTx
  <1>3. AllOrNothing'
    BY <1>1, RequestFields, CallInProgress, PgAssumption DEF TypeOK, RowsHaveOwners, AllOrNothing, HoldsRows, VerdictFitsPc, InTx
  <1>4. WithinCap'
    BY <1>1, CallInProgress, PgAssumption DEF TypeOK, WithinCap, ReadIsCurrent, VerdictFitsPc
  <1>5. ASSUME NEW d \in Calls PROVE HoldsRows(d)'
    BY <1>1, RequestFields, CallInProgress, PgAssumption DEF TypeOK, HoldsRows, VerdictFitsPc, InTx
  <1>6. ASSUME NEW d \in Calls PROVE ReadIsCurrent(d)'
    BY <1>1, RequestFields, CallInProgress, PgAssumption DEF TypeOK, HoldsRows, ReadIsCurrent, VerdictFitsPc, InTx
  <1>7. ASSUME NEW d \in Calls PROVE RejectionIsTrue(d)'
    BY <1>1, RequestFields, CallInProgress, PgAssumption DEF TypeOK, HoldsRows, ReadIsCurrent, RejectionIsTrue, VerdictFitsPc, InTx
  <1>8. ASSUME NEW d \in Calls PROVE VerdictFitsPc(d)'
    BY <1>1, RequestFields, CallInProgress, PgAssumption DEF TypeOK, VerdictFitsPc, InTx
  <1> QED
    BY <1>1, <1>2, <1>3, <1>4, <1>5, <1>6, <1>7, <1>8

LEMMA DebitIInv ==
  ASSUME IInv, NEW c \in Calls, Debit(c)
  PROVE  IInv'
  <1> USE DEF IInv, vars, tables, locks, Debit, Goto
  <1>1. TypeOK'
    BY RequestFields, CallInProgress, PgAssumption DEF TypeOK, PCs, InTx, Verdicts, VerdictFitsPc, ReadIsCurrent, HoldsRows
  <1>2. RowsHaveOwners'
    BY <1>1, RequestFields, CallInProgress, PgAssumption DEF TypeOK, RowsHaveOwners, HoldsRows, VerdictFitsPc, InTx
  <1>3. AllOrNothing'
    BY <1>1, RequestFields, CallInProgress, PgAssumption DEF TypeOK, RowsHaveOwners, AllOrNothing, HoldsRows, VerdictFitsPc, InTx
  <1>4. WithinCap'
    BY <1>1, CallInProgress, PgAssumption DEF TypeOK, WithinCap, ReadIsCurrent, VerdictFitsPc
  <1>5. ASSUME NEW d \in Calls PROVE HoldsRows(d)'
    BY <1>1, RequestFields, CallInProgress, PgAssumption DEF TypeOK, HoldsRows, VerdictFitsPc, InTx
  <1>6. ASSUME NEW d \in Calls PROVE ReadIsCurrent(d)'
    BY <1>1, RequestFields, CallInProgress, PgAssumption DEF TypeOK, HoldsRows, ReadIsCurrent, VerdictFitsPc, InTx
  <1>7. ASSUME NEW d \in Calls PROVE RejectionIsTrue(d)'
    BY <1>1, RequestFields, CallInProgress, PgAssumption DEF TypeOK, HoldsRows, ReadIsCurrent, RejectionIsTrue, VerdictFitsPc, InTx
  <1>8. ASSUME NEW d \in Calls PROVE VerdictFitsPc(d)'
    BY <1>1, RequestFields, CallInProgress, PgAssumption DEF TypeOK, VerdictFitsPc, InTx
  <1> QED
    BY <1>1, <1>2, <1>3, <1>4, <1>5, <1>6, <1>7, <1>8

LEMMA CommitIInv ==
  ASSUME IInv, NEW c \in Calls, \E v \in {"ok", "error"} : Commit(c, v)
  PROVE  IInv'
  <1> USE DEF IInv, vars, tables, locks, Commit, Goto, Release
  <1>1. TypeOK'
    BY RequestFields, CallInProgress, PgAssumption DEF TypeOK, PCs, InTx, Verdicts, VerdictFitsPc, ReadIsCurrent, HoldsRows
  <1>2. RowsHaveOwners'
    BY <1>1, RequestFields, CallInProgress, PgAssumption DEF TypeOK, RowsHaveOwners, HoldsRows, VerdictFitsPc, InTx
  <1>3. AllOrNothing'
    BY <1>1, RequestFields, CallInProgress, PgAssumption DEF TypeOK, RowsHaveOwners, AllOrNothing, HoldsRows, VerdictFitsPc, InTx
  <1>4. WithinCap'
    BY <1>1, CallInProgress, PgAssumption DEF TypeOK, WithinCap, ReadIsCurrent, VerdictFitsPc
  <1>5. ASSUME NEW d \in Calls PROVE HoldsRows(d)'
    BY <1>1, RequestFields, CallInProgress, PgAssumption DEF TypeOK, HoldsRows, VerdictFitsPc, InTx
  <1>6. ASSUME NEW d \in Calls PROVE ReadIsCurrent(d)'
    <2>1. CASE pc'[d] \notin {"debit", "commit"}
      BY <2>1 DEF ReadIsCurrent
    <2>2. CASE pc'[d] \in {"debit", "commit"} /\ req[d].token = NoToken
      BY <2>2, CallInProgress DEF TypeOK, ReadIsCurrent, HoldsRows
    <2>3. CASE pc'[d] \in {"debit", "commit"} /\ req[d].token # NoToken
      <3>1. d # c /\ pc[d] \in {"debit", "commit"} /\ req[d].token \in Tokens
        BY <2>3, CallInProgress DEF TypeOK
      <3>2. req[c].token # req[d].token
        BY <2>3, <3>1, PgAssumption DEF HoldsRows
      <3>3. spends'[req[d].token] = spends[req[d].token]
        BY <3>1, <3>2, CallInProgress DEF TypeOK
      <3> QED
        BY <3>1, <3>3 DEF ReadIsCurrent
    <2> QED
      BY <2>1, <2>2, <2>3
  <1>7. ASSUME NEW d \in Calls PROVE RejectionIsTrue(d)'
    <2>1. \A t \in Tokens : spends[t] \in Nat /\ spends'[t] \in Nat /\ spends'[t] >= spends[t]
      BY <1>1, CallInProgress DEF TypeOK, ReadIsCurrent, VerdictFitsPc
    <2>2. CASE pc[d] = "idle" \/ d = c
      BY <2>2, CallInProgress DEF TypeOK, RejectionIsTrue, VerdictFitsPc
    <2>3. CASE pc[d] # "idle" /\ d # c
      <3>1. /\ req'[d] = req[d] /\ verdict'[d] = verdict[d]
            /\ req[d].nonce \in Nonces /\ req[d].jti \in Jtis
            /\ req[d].token \in Tokens \cup {NoToken} /\ req[d].amount \in Int
        BY <2>3, CallInProgress DEF TypeOK
      <3>2. verdict[d] = "nonce_replay" => nonceRow'[req[d].nonce] # Free
        BY <3>1, CallInProgress, PgAssumption DEF TypeOK, RejectionIsTrue
      <3>3. verdict[d] = "jti_replay" => jtiRow'[req[d].jti] # Free
        BY <3>1, CallInProgress, PgAssumption DEF TypeOK, RejectionIsTrue
      <3>4. verdict[d] = "budget_exceeded" =>
              req[d].token # NoToken /\ spends'[req[d].token] + req[d].amount > Limit[req[d].token]
        BY <2>1, <3>1, PgAssumption DEF RejectionIsTrue
      <3> QED
        BY <3>1, <3>2, <3>3, <3>4 DEF RejectionIsTrue
    <2> QED
      BY <2>2, <2>3
  <1>8. ASSUME NEW d \in Calls PROVE VerdictFitsPc(d)'
    BY <1>1, RequestFields, CallInProgress, PgAssumption DEF TypeOK, VerdictFitsPc, InTx
  <1> QED
    BY <1>1, <1>2, <1>3, <1>4, <1>5, <1>6, <1>7, <1>8

LEMMA UndoIInv ==
  ASSUME IInv, NEW c \in Calls, Undo(c)
  PROVE  IInv'
  <1> USE DEF IInv, vars, tables, locks, Undo, Goto, Release
  <1>1. TypeOK'
    BY RequestFields, CallInProgress, PgAssumption DEF TypeOK, PCs, InTx, Verdicts, VerdictFitsPc, ReadIsCurrent, HoldsRows
  <1>2. RowsHaveOwners'
    BY <1>1, RequestFields, CallInProgress, PgAssumption DEF TypeOK, RowsHaveOwners, HoldsRows, VerdictFitsPc, InTx
  <1>3. AllOrNothing'
    BY <1>1, RequestFields, CallInProgress, PgAssumption DEF TypeOK, RowsHaveOwners, AllOrNothing, HoldsRows, VerdictFitsPc, InTx
  <1>4. WithinCap'
    BY <1>1, CallInProgress, PgAssumption DEF TypeOK, WithinCap, ReadIsCurrent, VerdictFitsPc
  <1>5. ASSUME NEW d \in Calls PROVE HoldsRows(d)'
    BY <1>1, RequestFields, CallInProgress, PgAssumption DEF TypeOK, HoldsRows, VerdictFitsPc, InTx
  <1>6. ASSUME NEW d \in Calls PROVE ReadIsCurrent(d)'
    BY <1>1, RequestFields, CallInProgress, PgAssumption DEF TypeOK, HoldsRows, ReadIsCurrent, VerdictFitsPc, InTx
  <1>7. ASSUME NEW d \in Calls PROVE RejectionIsTrue(d)'
    BY <1>1, RequestFields, CallInProgress, PgAssumption DEF TypeOK, HoldsRows, ReadIsCurrent, RejectionIsTrue, VerdictFitsPc, InTx
  <1>8. ASSUME NEW d \in Calls PROVE VerdictFitsPc(d)'
    BY <1>1, RequestFields, CallInProgress, PgAssumption DEF TypeOK, VerdictFitsPc, InTx
  <1> QED
    BY <1>1, <1>2, <1>3, <1>4, <1>5, <1>6, <1>7, <1>8

LEMMA AbortIInv ==
  ASSUME IInv, NEW c \in Calls, Abort(c)
  PROVE  IInv'
  <1> USE DEF IInv, vars, tables, locks, Abort, Goto, Release
  <1>1. TypeOK'
    BY RequestFields, CallInProgress, PgAssumption DEF TypeOK, PCs, InTx, Verdicts, VerdictFitsPc, ReadIsCurrent, HoldsRows
  <1>2. RowsHaveOwners'
    BY <1>1, RequestFields, CallInProgress, PgAssumption DEF TypeOK, RowsHaveOwners, HoldsRows, VerdictFitsPc, InTx
  <1>3. AllOrNothing'
    BY <1>1, RequestFields, CallInProgress, PgAssumption DEF TypeOK, RowsHaveOwners, AllOrNothing, HoldsRows, VerdictFitsPc, InTx
  <1>4. WithinCap'
    BY <1>1, CallInProgress, PgAssumption DEF TypeOK, WithinCap, ReadIsCurrent, VerdictFitsPc
  <1>5. ASSUME NEW d \in Calls PROVE HoldsRows(d)'
    BY <1>1, RequestFields, CallInProgress, PgAssumption DEF TypeOK, HoldsRows, VerdictFitsPc, InTx
  <1>6. ASSUME NEW d \in Calls PROVE ReadIsCurrent(d)'
    BY <1>1, RequestFields, CallInProgress, PgAssumption DEF TypeOK, HoldsRows, ReadIsCurrent, VerdictFitsPc, InTx
  <1>7. ASSUME NEW d \in Calls PROVE RejectionIsTrue(d)'
    BY <1>1, RequestFields, CallInProgress, PgAssumption DEF TypeOK, HoldsRows, ReadIsCurrent, RejectionIsTrue, VerdictFitsPc, InTx
  <1>8. ASSUME NEW d \in Calls PROVE VerdictFitsPc(d)'
    BY <1>1, RequestFields, CallInProgress, PgAssumption DEF TypeOK, VerdictFitsPc, InTx
  <1> QED
    BY <1>1, <1>2, <1>3, <1>4, <1>5, <1>6, <1>7, <1>8

LEMMA NextIInv == IInv /\ [Next]_vars => IInv'
  <1> SUFFICES ASSUME IInv, [Next]_vars PROVE IInv'
    OBVIOUS
  <1>1. CASE UNCHANGED vars
    BY <1>1 DEF IInv, vars, tables, locks, TypeOK, RowsHaveOwners, AllOrNothing, WithinCap,
                HoldsRows, ReadIsCurrent, RejectionIsTrue, VerdictFitsPc
  <1>2. CASE Next
    <2>1. PICK c \in Calls : \/ \E r \in Requests : Call(c, r)
                             \/ Step(c)
                             \/ ConnectTimeout(c)
                             \/ Commit(c, "error")
                             \/ Abort(c)
      BY <1>2 DEF Next
    <2>2. CASE \E r \in Requests : Call(c, r)
      BY <2>2, CallIInv
    <2>3. CASE Step(c)
      BY <2>3, ConnectIInv, InsertNonceIInv, InsertJtiIInv, InsertSpendRowIInv,
         LockSpendIInv, DebitIInv, CommitIInv, UndoIInv DEF Step
    <2>4. CASE ConnectTimeout(c)
      BY <2>4, ConnectTimeoutIInv
    <2>5. CASE Commit(c, "error")
      BY <2>5, CommitIInv
    <2>6. CASE Abort(c)
      BY <2>6, AbortIInv
    <2> QED
      BY <2>1, <2>2, <2>3, <2>4, <2>5, <2>6
  <1> QED
    BY <1>1, <1>2

(* The inductive invariant holds for any number of concurrent calls.       *)
THEOREM Inductive == Spec => []IInv
  BY InitIInv, NextIInv, PTL DEF Spec

(* Type correctness of the transaction's state.                            *)
THEOREM TypeCorrect == Spec => []TypeOK
  <1>1. IInv => TypeOK
    BY DEF IInv
  <1> QED
    BY <1>1, Inductive, PTL

(* A reservation's rows stand or fall together, whatever fails and however *)
(* many gateways run it.                                                   *)
THEOREM Atomic == Spec => []AllOrNothing
  <1>1. IInv => AllOrNothing
    BY DEF IInv
  <1> QED
    BY <1>1, Inductive, PTL

(* An intent nonce and an action-token jti reserve at most one execution.  *)
THEOREM AtMostOnce == Spec => []SingleUse
  <1>1. ASSUME IInv, NEW c \in Calls, NEW d \in Calls, c # d,
               pc[c] = "answered", verdict[c] = "ok",
               pc[d] = "answered", verdict[d] = "ok"
        PROVE  req[c].nonce # req[d].nonce /\ req[c].jti # req[d].jti
    <2>1. req[c] # NoRequest /\ req[d] # NoRequest
      BY <1>1 DEF IInv, VerdictFitsPc
    <2>2. nonceRow[req[c].nonce] = c /\ jtiRow[req[c].jti] = c
      BY <1>1, <2>1 DEF IInv, AllOrNothing
    <2>3. nonceRow[req[d].nonce] = d /\ jtiRow[req[d].jti] = d
      BY <1>1, <2>1 DEF IInv, AllOrNothing
    <2> QED
      BY <1>1, <2>2, <2>3
  <1>2. IInv => SingleUse
    BY <1>1 DEF SingleUse
  <1> QED
    BY <1>2, Inductive, PTL

(* No delegation token is ever debited beyond its cap.                     *)
THEOREM Capped == Spec => []WithinCap
  <1>1. IInv => WithinCap
    BY DEF IInv
  <1> QED
    BY <1>1, Inductive, PTL

-----------------------------------------------------------------------------
(* Refinement.  Only Call, the end of a transaction and a failure are      *)
(* visible in the ledger; every other statement maps to a stutter.         *)

Answer == [c \in Calls |-> IF pc[c] = "answered" THEN verdict[c] ELSE "none"]
UsedNonces == {n \in Nonces : nonceRow[n] # Free}
UsedJtis == {j \in Jtis : jtiRow[j] # Free}

LEMMA InitRefines == Init => Ledger!Init
  BY PgAssumption DEF Init, Ledger!Init, Granted

LEMMA StatementStutters ==
  ASSUME IInv, NEW c \in Calls,
         \/ Connect(c) \/ InsertNonce(c) \/ InsertJti(c)
         \/ InsertSpendRow(c) \/ LockSpend(c) \/ Debit(c)
  PROVE  UNCHANGED Ledger!vars
  <1> USE DEF tables, locks, Goto, Reject, Connect, InsertNonce, InsertJti,
              InsertSpendRow, LockSpend, Debit
  <1>1. UNCHANGED <<req, nonceRow, jtiRow, spends>>
    OBVIOUS
  <1>2. Granted' = Granted /\ UsedNonces' = UsedNonces /\ UsedJtis' = UsedJtis
    BY <1>1 DEF Granted, UsedNonces, UsedJtis
  <1>3. ASSUME NEW d \in Calls
        PROVE  (IF pc'[d] = "answered" THEN verdict'[d] ELSE "none")
             = (IF pc[d] = "answered" THEN verdict[d] ELSE "none")
    BY DEF IInv, TypeOK
  <1>4. Answer' = Answer
    BY <1>3 DEF Answer
  <1> QED
    BY <1>1, <1>2, <1>4 DEF Ledger!vars, Answer, UsedNonces, UsedJtis

LEMMA CallSubmits ==
  ASSUME IInv, NEW c \in Calls, NEW r \in Requests, Call(c, r)
  PROVE  \E v \in Ledger!Verdicts : Ledger!Submit(c, r, v)
  <1> DEFINE v == IF ValidArgs(r) THEN "none" ELSE "error"
  <1>1. req[c] = NoRequest /\ req' = [req EXCEPT ![c] = r]
    BY DEF Call, IInv, VerdictFitsPc
  <1>2. UNCHANGED <<nonceRow, jtiRow, spends>>
    BY DEF Call, tables
  <1>3. Granted' = Granted
    <2>1. jtiRow[r.jti] # c
      BY RequestFields DEF Call, IInv, RowsHaveOwners
    <2> QED
      BY <1>1, <1>2, <2>1 DEF Granted, IInv, TypeOK
  <1>4. Answer' = [Answer EXCEPT ![c] = v]
    <2>1. ASSUME NEW d \in Calls
          PROVE  (IF pc'[d] = "answered" THEN verdict'[d] ELSE "none")
               = IF d = c THEN v ELSE IF pc[d] = "answered" THEN verdict[d] ELSE "none"
      BY DEF Call, Goto, IInv, TypeOK
    <2> QED
      BY <2>1 DEF Answer
  <1>5. v \in {"none", "error"} /\ v \in Ledger!Verdicts
    BY DEF Ledger!Verdicts
  <1>6. Ledger!Submit(c, r, v)
    BY <1>1, <1>2, <1>3, <1>4, <1>5 DEF Ledger!Submit, Answer
  <1> QED
    BY <1>5, <1>6

(* The end of a transaction that publishes nothing is a refusal.           *)
LEMMA RefusalRefuses ==
  ASSUME IInv, NEW c \in Calls, ConnectTimeout(c) \/ Abort(c) \/ Undo(c)
  PROVE  \E v \in Ledger!Verdicts : Ledger!Refuse(c, v)
  <1>1. UNCHANGED <<req, nonceRow, jtiRow, spends>>
    BY DEF ConnectTimeout, Abort, Undo, tables
  <1>2. Granted' = Granted /\ UsedNonces' = UsedNonces /\ UsedJtis' = UsedJtis
    BY <1>1 DEF Granted, UsedNonces, UsedJtis
  <1>3. pc[c] # "idle" /\ pc[c] # "answered"
    BY DEF ConnectTimeout, Abort, Undo, InTx
  <1>4. Ledger!Pending(c)
    BY <1>3 DEF Ledger!Pending, IInv, VerdictFitsPc
  <1>5. verdict'[c] \in {"nonce_replay", "jti_replay", "budget_exceeded", "error"}
    BY DEF ConnectTimeout, Abort, Undo, IInv, TypeOK, VerdictFitsPc
  <1>6. PICK v \in {"nonce_replay", "jti_replay", "budget_exceeded", "error"} : v = verdict'[c]
    BY <1>5
  <1>7. Answer' = [Answer EXCEPT ![c] = v]
    <2>1. ASSUME NEW d \in Calls
          PROVE  (IF pc'[d] = "answered" THEN verdict'[d] ELSE "none")
               = IF d = c THEN v ELSE IF pc[d] = "answered" THEN verdict[d] ELSE "none"
      BY <1>6 DEF ConnectTimeout, Abort, Undo, Goto, IInv, TypeOK
    <2> QED
      BY <2>1 DEF Answer
  <1>8. Ledger!Refusable(c, v)
    <2>1. CASE v = "error"
      BY <2>1 DEF Ledger!Refusable
    <2>2. CASE v # "error"
      <3>1. Undo(c) /\ v = verdict[c]
        BY <1>6, <2>2 DEF ConnectTimeout, Abort, Undo, IInv, TypeOK
      <3>2. /\ req[c].nonce \in Nonces /\ req[c].jti \in Jtis
            /\ req[c].token \in Tokens \cup {NoToken} /\ req[c].amount \in Int
        BY <1>3, CallInProgress
      <3>3. RejectionIsTrue(c)
        BY DEF IInv
      <3>4. v = "budget_exceeded" => ~Ledger!Affordable(req[c])
        BY <3>1, <3>2, <3>3, PgAssumption DEF RejectionIsTrue, Ledger!Affordable, IInv, TypeOK
      <3> QED
        BY <3>1, <3>2, <3>3, <3>4 DEF RejectionIsTrue, Ledger!Refusable
    <2> QED
      BY <2>1, <2>2
  <1>9. Ledger!Refuse(c, v)
    <2>1. UsedNonces' = UsedNonces \cup {}
      BY <1>2
    <2> QED
      BY <1>1, <1>2, <1>4, <1>6, <1>7, <1>8, <2>1
      DEF Ledger!Refuse, Answer, UsedNonces, UsedJtis
  <1> QED
    BY <1>6, <1>9 DEF Ledger!Verdicts

(* COMMIT is the one step that reserves: it adds its call to the granted   *)
(* ones and its amount to what its token has spent.                        *)
LEMMA CommitAdds ==
  ASSUME IInv, NEW c \in Calls, NEW v \in {"ok", "error"}, Commit(c, v)
  PROVE  /\ req' = req /\ c \notin Granted /\ Granted' = Granted \cup {c}
         /\ req[c] \in Requests /\ req[c].amount \in Nat
         /\ spends' = IF req[c].token = NoToken THEN spends
                      ELSE [spends EXCEPT ![req[c].token] = @ + req[c].amount]
  <1> DEFINE r == req[c]
  <1>1. /\ r \in Requests /\ r.nonce \in Nonces /\ r.jti \in Jtis
        /\ r.token \in Tokens \cup {NoToken} /\ r.amount \in Nat
    BY CallInProgress DEF Commit, IInv, VerdictFitsPc
  <1>2. jtiRow[r.jti] = Free /\ req' = req
    BY DEF Commit, IInv, HoldsRows
  <1>3. r.token # NoToken => read[c] = spends[r.token] + r.amount
    BY DEF Commit, IInv, ReadIsCurrent
  <1>4. Granted' = Granted \cup {c}
    <2>1. ASSUME NEW d \in Calls, req[d] # NoRequest
          PROVE  jtiRow'[req[d].jti] = d <=> jtiRow[req[d].jti] = d \/ d = c
      BY <1>1, <1>2, <2>1, RequestFields, PgAssumption DEF Commit, IInv, TypeOK
    <2> QED
      BY <1>1, <2>1, PgAssumption DEF Commit, Granted
  <1>5. c \notin Granted
    BY <1>1, <1>2, PgAssumption DEF Granted
  <1>6. spends' = IF r.token = NoToken THEN spends
                  ELSE [spends EXCEPT ![r.token] = @ + r.amount]
    BY <1>1, <1>3 DEF Commit, IInv, TypeOK
  <1> QED
    BY <1>1, <1>2, <1>4, <1>5, <1>6

LEMMA CommitGrants ==
  ASSUME IInv, NEW c \in Calls, NEW v \in {"ok", "error"}, Commit(c, v)
  PROVE  \E w \in Ledger!Verdicts : Ledger!Grant(c, w)
  <1> DEFINE r == req[c]
  <1>1. /\ r \in Requests /\ r.nonce \in Nonces /\ r.jti \in Jtis
        /\ r.token \in Tokens \cup {NoToken} /\ r.amount \in Nat
    BY CallInProgress DEF Commit, IInv, VerdictFitsPc
  <1>2. nonceRow[r.nonce] = Free /\ jtiRow[r.jti] = Free
    BY DEF Commit, IInv, HoldsRows
  <1>3. r.token # NoToken => /\ read[c] = spends[r.token] + r.amount
                             /\ read[c] <= Limit[r.token]
    BY DEF Commit, IInv, ReadIsCurrent
  <1>4. UsedNonces' = UsedNonces \cup {r.nonce}
    BY <1>1, PgAssumption DEF Commit, IInv, TypeOK, UsedNonces
  <1>5. UsedJtis' = UsedJtis \cup {r.jti}
    BY <1>1, PgAssumption DEF Commit, IInv, TypeOK, UsedJtis
  <1>6. /\ Granted' = Granted \cup {c}
        /\ spends' = IF r.token = NoToken THEN spends
                     ELSE [spends EXCEPT ![r.token] = @ + r.amount]
    BY CommitAdds
  <1>7. Answer' = [Answer EXCEPT ![c] = v]
    <2>1. ASSUME NEW d \in Calls
          PROVE  (IF pc'[d] = "answered" THEN verdict'[d] ELSE "none")
               = IF d = c THEN v ELSE IF pc[d] = "answered" THEN verdict[d] ELSE "none"
      BY DEF Commit, Goto, IInv, TypeOK
    <2> QED
      BY <2>1 DEF Answer
  <1>8. Ledger!Affordable(r)
    BY <1>1, <1>3 DEF Ledger!Affordable
  <1>9. Ledger!Pending(c) /\ req' = req
    BY DEF Ledger!Pending, Commit, IInv, VerdictFitsPc
  <1>10. r.nonce \notin UsedNonces /\ r.jti \notin UsedJtis
    BY <1>2 DEF UsedNonces, UsedJtis
  <1>11. Ledger!Grant(c, v)
    BY <1>4, <1>5, <1>6, <1>7, <1>8, <1>9, <1>10
    DEF Ledger!Grant, Answer, UsedNonces, UsedJtis
  <1> QED
    BY <1>11 DEF Ledger!Verdicts

LEMMA StepRefines == IInv /\ [Next]_vars => [Ledger!Next]_(Ledger!vars)
  <1> SUFFICES ASSUME IInv, [Next]_vars PROVE [Ledger!Next]_(Ledger!vars)
    OBVIOUS
  <1>1. CASE UNCHANGED vars
    BY <1>1 DEF vars, Ledger!vars, Granted
  <1>2. CASE Next
    <2>1. PICK c \in Calls : \/ \E r \in Requests : Call(c, r)
                             \/ Step(c)
                             \/ ConnectTimeout(c)
                             \/ Commit(c, "error")
                             \/ Abort(c)
      BY <1>2 DEF Next
    <2>2. CASE \E r \in Requests : Call(c, r)
      BY <2>2, CallSubmits DEF Ledger!Next
    <2>3. CASE \/ Connect(c) \/ InsertNonce(c) \/ InsertJti(c)
               \/ InsertSpendRow(c) \/ LockSpend(c) \/ Debit(c)
      BY <2>3, StatementStutters
    <2>4. CASE Commit(c, "ok") \/ Commit(c, "error")
      BY <2>4, CommitGrants DEF Ledger!Next
    <2>5. CASE ConnectTimeout(c) \/ Abort(c) \/ Undo(c)
      BY <2>5, RefusalRefuses DEF Ledger!Next
    <2> QED
      BY <2>1, <2>2, <2>3, <2>4, <2>5 DEF Step
  <1> QED
    BY <1>1, <1>2

(* The SQL transaction implements the atomic ledger.                       *)
THEOREM Refinement == Spec => ImplementsLedger
  <1>1. Spec => Ledger!Init /\ [][Ledger!Next]_(Ledger!vars)
    BY InitRefines, StepRefines, Inductive, PTL DEF Spec
  <1> QED
    BY <1>1 DEF ImplementsLedger, Ledger!Spec

-----------------------------------------------------------------------------
(* The sum.  The cents of a token are a finite set that only COMMIT        *)
(* extends, by as many cents as it adds to spent_cents.                    *)

SumsFit == \A t \in Tokens :
  IsFiniteSet(GrantedCents(t)) /\ spends[t] = Cardinality(GrantedCents(t))

(* Adding k fresh cents of one call makes a set k larger.                  *)
LEMMA AddCents ==
  ASSUME NEW S, NEW c, NEW k \in Nat, IsFiniteSet(S), S \cap ({c} \X (1..k)) = {}
  PROVE  /\ IsFiniteSet(S \cup ({c} \X (1..k)))
         /\ Cardinality(S \cup ({c} \X (1..k))) = Cardinality(S) + k
  <1>1. IsFiniteSet({c}) /\ Cardinality({c}) = 1
    BY FS_Singleton
  <1>2. IsFiniteSet(1..k) /\ Cardinality(1..k) = k
    BY FS_Interval
  <1>3. IsFiniteSet({c} \X (1..k)) /\ Cardinality({c} \X (1..k)) = k
    <2>1. /\ IsFiniteSet({c} \X (1..k))
          /\ Cardinality({c} \X (1..k)) = Cardinality({c}) * Cardinality(1..k)
      BY <1>1, <1>2, FS_Product
    <2> QED
      BY <1>1, <1>2, <2>1
  <1>4. Cardinality(S) \in Nat
    BY FS_CardinalityType
  <1>5. /\ IsFiniteSet(S \cup ({c} \X (1..k)))
        /\ Cardinality(S \cup ({c} \X (1..k)))
           = Cardinality(S) + Cardinality({c} \X (1..k)) - Cardinality(S \cap ({c} \X (1..k)))
    BY <1>3, FS_Union
  <1>6. Cardinality(S \cap ({c} \X (1..k))) = 0
    BY FS_EmptySet
  <1> QED
    BY <1>3, <1>4, <1>5, <1>6

LEMMA InitSums == Init => SumsFit
  <1> SUFFICES ASSUME Init, NEW t \in Tokens
               PROVE  IsFiniteSet(GrantedCents(t)) /\ spends[t] = Cardinality(GrantedCents(t))
    BY DEF SumsFit
  <1>1. GrantedCents(t) = {} /\ spends[t] = 0
    BY DEF Init, GrantedCents, Granted
  <1> QED
    BY <1>1, FS_EmptySet

(* A step that grants nothing and changes no granted call's request.       *)
LEMMA NothingGranted ==
  ASSUME SumsFit, Granted' = Granted, spends' = spends,
         \A c \in Granted : req'[c] = req[c]
  PROVE  SumsFit'
  <1>1. ASSUME NEW t \in Tokens PROVE GrantedCents(t)' = GrantedCents(t)
    BY DEF GrantedCents
  <1> QED
    BY <1>1 DEF SumsFit

LEMMA CommitSums ==
  ASSUME IInv, SumsFit, NEW c \in Calls, NEW v \in {"ok", "error"}, Commit(c, v)
  PROVE  SumsFit'
  <1> DEFINE r == req[c]
  <1>1. /\ req' = req /\ c \notin Granted /\ Granted' = Granted \cup {c}
        /\ r \in Requests /\ r.amount \in Nat
        /\ spends' = IF r.token = NoToken THEN spends
                     ELSE [spends EXCEPT ![r.token] = @ + r.amount]
    BY CommitAdds
  <1> SUFFICES ASSUME NEW t \in Tokens
               PROVE  /\ IsFiniteSet(GrantedCents(t)')
                      /\ spends'[t] = Cardinality(GrantedCents(t)')
    BY DEF SumsFit
  <1>2. /\ IsFiniteSet(GrantedCents(t)) /\ spends[t] = Cardinality(GrantedCents(t))
        /\ spends \in [Tokens -> Nat]
    BY DEF SumsFit, IInv, TypeOK
  <1>3. CASE r.token = t
    <2>1. spends'[t] = spends[t] + r.amount
      BY <1>1, <1>2, <1>3, PgAssumption
    <2>2. GrantedCents(t)' = GrantedCents(t) \cup ({c} \X (1..r.amount))
      BY <1>1, <1>3 DEF GrantedCents
    <2>3. GrantedCents(t) \cap ({c} \X (1..r.amount)) = {}
      BY <1>1 DEF GrantedCents
    <2> HIDE DEF r
    <2>4. PICK k \in Nat : k = r.amount
      BY <1>1
    <2>5. /\ IsFiniteSet(GrantedCents(t) \cup ({c} \X (1..k)))
          /\ Cardinality(GrantedCents(t) \cup ({c} \X (1..k))) = Cardinality(GrantedCents(t)) + k
      <3>1. PICK S : S = GrantedCents(t)
        OBVIOUS
      <3>2. IsFiniteSet(S) /\ S \cap ({c} \X (1..k)) = {}
        BY <1>2, <2>3, <2>4, <3>1
      <3>3. /\ IsFiniteSet(S \cup ({c} \X (1..k)))
            /\ Cardinality(S \cup ({c} \X (1..k))) = Cardinality(S) + k
        BY ONLY <3>2, k \in Nat, AddCents
      <3> QED
        BY <3>1, <3>3
    <2> QED
      BY ONLY <1>2, <2>1, <2>2, <2>4, <2>5
  <1>4. CASE r.token # t
    <2>1. spends'[t] = spends[t]
      BY <1>1, <1>2, <1>4
    <2>2. GrantedCents(t)' = GrantedCents(t)
      BY <1>1, <1>4 DEF GrantedCents
    <2> QED
      BY <1>2, <2>1, <2>2
  <1> QED
    BY <1>3, <1>4

LEMMA NextSums == IInv /\ SumsFit /\ [Next]_vars => SumsFit'
  <1> SUFFICES ASSUME IInv, SumsFit, [Next]_vars PROVE SumsFit'
    OBVIOUS
  <1>1. CASE UNCHANGED vars
    BY <1>1, NothingGranted DEF vars, Granted
  <1>2. CASE Next
    <2>1. PICK c \in Calls : \/ \E r \in Requests : Call(c, r)
                             \/ Step(c)
                             \/ ConnectTimeout(c)
                             \/ Commit(c, "error")
                             \/ Abort(c)
      BY <1>2 DEF Next
    <2>2. CASE \E r \in Requests : Call(c, r)
      <3>1. PICK r \in Requests : Call(c, r)
        BY <2>2
      <3>2. req[c] = NoRequest /\ req' = [req EXCEPT ![c] = r] /\ UNCHANGED <<jtiRow, spends>>
        BY <3>1 DEF Call, tables, IInv, VerdictFitsPc
      <3>3. jtiRow[r.jti] # c
        BY <3>1, RequestFields DEF Call, IInv, RowsHaveOwners
      <3>4. Granted' = Granted /\ \A d \in Granted : req'[d] = req[d]
        BY <3>2, <3>3 DEF Granted, IInv, TypeOK
      <3> QED
        BY <3>2, <3>4, NothingGranted
    <2>3. CASE \/ Connect(c) \/ InsertNonce(c) \/ InsertJti(c) \/ InsertSpendRow(c)
               \/ LockSpend(c) \/ Debit(c) \/ ConnectTimeout(c) \/ Abort(c) \/ Undo(c)
      <3>1. UNCHANGED <<req, jtiRow, spends>>
        BY <2>3 DEF tables, Connect, InsertNonce, InsertJti, InsertSpendRow, LockSpend,
                    Debit, ConnectTimeout, Abort, Undo
      <3> QED
        BY <3>1, NothingGranted DEF Granted
    <2>4. CASE Commit(c, "ok") \/ Commit(c, "error")
      BY <2>4, CommitSums
    <2> QED
      BY <2>1, <2>2, <2>3, <2>4 DEF Step
  <1> QED
    BY <1>1, <1>2

(* spent_cents of every token is the sum of the amounts of the calls that  *)
(* were granted on it, for any number of calls, gateways and failures.     *)
THEOREM SumIsExact == Spec => []SpendIsSumOfGrants
  <1>1. SumsFit => SpendIsSumOfGrants
    BY DEF SumsFit, SpendIsSumOfGrants
  <1>2. Spec => []SumsFit
    BY InitSums, NextSums, Inductive, PTL DEF Spec
  <1> QED
    BY <1>1, <1>2, PTL

=============================================================================
