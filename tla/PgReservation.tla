---------------------------- MODULE PgReservation ----------------------------
(***************************************************************************)
(* PostgresStore.checkAndDebitExecution: the transaction that reserves an  *)
(* execution, statement by statement, run by attempts of any number of     *)
(* gateways against one database.  The database is modelled at READ        *)
(* COMMITTED: a transaction sees what others committed, the rows it wrote  *)
(* stay locked until COMMIT or ROLLBACK, and an INSERT that meets another  *)
(* transaction's uncommitted row waits for its outcome.                    *)
(***************************************************************************)
EXTENDS Integers, FiniteSets

CONSTANTS
  Calls,      \* calls of checkAndDebitExecution
  Requests,   \* their arguments: records [nonce, jti, token, amount]
  Tokens,     \* delegation tokens (rows of token_spends)
  NoToken,    \* tokenId null: no budget part
  NoRequest,  \* the call has not been made yet
  Limit,      \* Limit[t]: limitCents, fixed when the token is registered
  Free,       \* nobody: an absent row, an unlocked row
  Stores,     \* PostgresStore objects: one per gateway process
  StoreOf,    \* StoreOf[c]: the store call c goes through
  PoolSize    \* connections of one store's pool

ASSUME PgAssumption ==
  /\ NoToken \notin Tokens
  /\ NoRequest \notin Requests
  /\ Free \notin Calls
  /\ Limit \in [Tokens -> Nat]
  /\ \A r \in Requests : r.token \in Tokens \cup {NoToken} /\ r.amount \in Int
  /\ StoreOf \in [Calls -> Stores]
  /\ PoolSize \in Nat \ {0}

Nonces == {r.nonce : r \in Requests}
Jtis == {r.jti : r \in Requests}

VARIABLES
  req,        \* req[c]: the arguments of call c
  pc,         \* pc[c]: the statement call c executes next
  verdict,    \* verdict[c]: the result decided so far
  nonceRow,   \* nonceRow[n]: the call that committed row n of nonces, or Free
  nonceLock,  \* nonceLock[n]: the transaction with an uncommitted row n
  jtiRow,     \* the same for action_jtis
  jtiLock,
  spendRow,   \* the committed rows of token_spends
  spendLock,  \* spendLock[t]: the transaction that holds row t
  spends,     \* spends[t]: committed spent_cents (0 without a row)
  read        \* read[c]: "current", as call c read it

vars == <<req, pc, verdict, nonceRow, nonceLock, jtiRow, jtiLock,
          spendRow, spendLock, spends, read>>
tables == <<nonceRow, jtiRow, spendRow, spends>>
locks == <<nonceLock, jtiLock, spendLock>>

(* The program counters of a call that holds a pooled connection.          *)
InTx == {"nonce", "jti", "row", "lock", "debit", "commit", "undo"}
PCs == {"idle", "connect", "answered"} \cup InTx
Verdicts == {"none", "ok", "nonce_replay", "jti_replay", "budget_exceeded", "error"}

TypeOK ==
  /\ req \in [Calls -> Requests \cup {NoRequest}]
  /\ pc \in [Calls -> PCs]
  /\ verdict \in [Calls -> Verdicts]
  /\ nonceRow \in [Nonces -> Calls \cup {Free}]
  /\ nonceLock \in [Nonces -> Calls \cup {Free}]
  /\ jtiRow \in [Jtis -> Calls \cup {Free}]
  /\ jtiLock \in [Jtis -> Calls \cup {Free}]
  /\ spendRow \subseteq Tokens
  /\ spendLock \in [Tokens -> Calls \cup {Free}]
  /\ spends \in [Tokens -> Nat]
  /\ read \in [Calls -> Nat]

Init ==
  /\ req = [c \in Calls |-> NoRequest]
  /\ pc = [c \in Calls |-> "idle"]
  /\ verdict = [c \in Calls |-> "none"]
  /\ nonceRow = [n \in Nonces |-> Free]
  /\ nonceLock = [n \in Nonces |-> Free]
  /\ jtiRow = [j \in Jtis |-> Free]
  /\ jtiLock = [j \in Jtis |-> Free]
  /\ spendRow = {}
  /\ spendLock = [t \in Tokens |-> Free]
  /\ spends = [t \in Tokens |-> 0]
  /\ read = [c \in Calls |-> 0]

-----------------------------------------------------------------------------
Goto(c, l) == pc' = [pc EXCEPT ![c] = l]

(* Mutant: amount < 0 is not rejected.                                     *)
ValidArgsUnchecked(r) == r.amount \in Int

(* An invalid amount or limit throws before a connection is taken.         *)
ValidArgs(r) == r.amount >= 0

Call(c, r) ==
  /\ pc[c] = "idle"
  /\ req' = [req EXCEPT ![c] = r]
  /\ IF ValidArgs(r)
       THEN Goto(c, "connect") /\ UNCHANGED verdict
       ELSE Goto(c, "answered") /\ verdict' = [verdict EXCEPT ![c] = "error"]
  /\ UNCHANGED <<tables, locks, read>>

Connections(s) == {c \in Calls : StoreOf[c] = s /\ pc[c] \in InTx}

(* pool.connect(), then BEGIN, which reads and locks nothing.              *)
Connect(c) ==
  /\ pc[c] = "connect"
  /\ Cardinality(Connections(StoreOf[c])) < PoolSize
  /\ Goto(c, "nonce")
  /\ UNCHANGED <<req, verdict, tables, locks, read>>

(* connectionTimeoutMillis: pool.connect() throws outside the try block.   *)
ConnectTimeout(c) ==
  /\ pc[c] = "connect"
  /\ Goto(c, "answered")
  /\ verdict' = [verdict EXCEPT ![c] = "error"]
  /\ UNCHANGED <<req, tables, locks, read>>

(* rowCount 0: leave through ROLLBACK with this result.                    *)
Reject(c, v) ==
  /\ Goto(c, "undo")
  /\ verdict' = [verdict EXCEPT ![c] = v]

(* Mutant: rowCount of the nonce INSERT is not looked at.                  *)
InsertNonceUnchecked(c) ==
  LET n == req[c].nonce IN
  /\ pc[c] = "nonce"
  /\ nonceLock[n] = Free
  /\ nonceLock' = [nonceLock EXCEPT ![n] = c]
  /\ Goto(c, "jti")
  /\ UNCHANGED <<req, verdict, tables, jtiLock, spendLock, read>>

(* Mutant: the nonce INSERT runs outside the transaction (no BEGIN).       *)
InsertNonceAutocommit(c) ==
  LET n == req[c].nonce IN
  /\ pc[c] = "nonce"
  /\ IF nonceRow[n] = Free
       THEN /\ nonceRow' = [nonceRow EXCEPT ![n] = c]
            /\ Goto(c, "jti")
            /\ UNCHANGED verdict
       ELSE Reject(c, "nonce_replay") /\ UNCHANGED nonceRow
  /\ UNCHANGED <<req, jtiRow, spendRow, spends, locks, read>>

(* INSERT INTO nonces ... ON CONFLICT DO NOTHING: a row another            *)
(* transaction inserted and has not committed makes the statement wait.    *)
InsertNonce(c) ==
  LET n == req[c].nonce IN
  /\ pc[c] = "nonce"
  /\ nonceLock[n] = Free
  /\ IF nonceRow[n] = Free
       THEN /\ nonceLock' = [nonceLock EXCEPT ![n] = c]
            /\ Goto(c, "jti")
            /\ UNCHANGED verdict
       ELSE Reject(c, "nonce_replay") /\ UNCHANGED nonceLock
  /\ UNCHANGED <<req, tables, jtiLock, spendLock, read>>

InsertJti(c) ==
  LET j == req[c].jti IN
  /\ pc[c] = "jti"
  /\ jtiLock[j] = Free
  /\ IF jtiRow[j] = Free
       THEN /\ jtiLock' = [jtiLock EXCEPT ![j] = c]
            /\ Goto(c, IF req[c].token = NoToken THEN "commit" ELSE "row")
            /\ UNCHANGED verdict
       ELSE Reject(c, "jti_replay") /\ UNCHANGED jtiLock
  /\ UNCHANGED <<req, tables, nonceLock, spendLock, read>>

(* INSERT INTO token_spends ... 0 ON CONFLICT DO NOTHING: it locks the row *)
(* only when it creates it.                                                *)
InsertSpendRow(c) ==
  LET t == req[c].token IN
  /\ pc[c] = "row"
  /\ IF t \in spendRow
       THEN UNCHANGED spendLock
       ELSE spendLock[t] = Free /\ spendLock' = [spendLock EXCEPT ![t] = c]
  /\ Goto(c, "lock")
  /\ UNCHANGED <<req, verdict, tables, nonceLock, jtiLock, read>>

(* Mutant: SELECT without FOR UPDATE.                                      *)
LockSpendPlainSelect(c) ==
  LET t == req[c].token IN
  /\ pc[c] = "lock"
  /\ read' = [read EXCEPT ![c] = spends[t]]
  /\ IF spends[t] + req[c].amount > Limit[t]
       THEN Reject(c, "budget_exceeded")
       ELSE Goto(c, "debit") /\ UNCHANGED verdict
  /\ UNCHANGED <<req, tables, locks>>

(* Mutant: the cap is compared with what is already spent, without the     *)
(* amount.                                                                 *)
LockSpendCapBefore(c) ==
  LET t == req[c].token IN
  /\ pc[c] = "lock"
  /\ spendLock[t] \in {Free, c}
  /\ spendLock' = [spendLock EXCEPT ![t] = c]
  /\ read' = [read EXCEPT ![c] = spends[t]]
  /\ IF spends[t] > Limit[t]
       THEN Reject(c, "budget_exceeded")
       ELSE Goto(c, "debit") /\ UNCHANGED verdict
  /\ UNCHANGED <<req, tables, nonceLock, jtiLock>>

(* SELECT spent_cents ... FOR UPDATE, and the cap.                         *)
LockSpend(c) ==
  LET t == req[c].token IN
  /\ pc[c] = "lock"
  /\ spendLock[t] \in {Free, c}
  /\ spendLock' = [spendLock EXCEPT ![t] = c]
  /\ read' = [read EXCEPT ![c] = spends[t]]
  /\ IF spends[t] + req[c].amount > Limit[t]
       THEN Reject(c, "budget_exceeded")
       ELSE Goto(c, "debit") /\ UNCHANGED verdict
  /\ UNCHANGED <<req, tables, nonceLock, jtiLock>>

(* INSERT ... ON CONFLICT DO UPDATE SET spent_cents: this transaction's    *)
(* own version of the row, current + amount, not yet visible to others.    *)
Debit(c) ==
  /\ pc[c] = "debit"
  /\ read' = [read EXCEPT ![c] = @ + req[c].amount]
  /\ Goto(c, "commit")
  /\ UNCHANGED <<req, verdict, tables, locks>>

Release(c) ==
  /\ nonceLock' = [n \in Nonces |-> IF nonceLock[n] = c THEN Free ELSE nonceLock[n]]
  /\ jtiLock' = [j \in Jtis |-> IF jtiLock[j] = c THEN Free ELSE jtiLock[j]]
  /\ spendLock' = [t \in Tokens |-> IF spendLock[t] = c THEN Free ELSE spendLock[t]]

(* COMMIT publishes every row at once and frees the locks and the          *)
(* connection.  The acknowledgement may be lost: the code then answers     *)
(* with the error although the database has committed.                     *)
Commit(c, v) ==
  LET r == req[c] IN
  /\ pc[c] = "commit"
  /\ v \in {"ok", "error"}
  /\ nonceRow' = [nonceRow EXCEPT ![r.nonce] = c]
  /\ jtiRow' = [jtiRow EXCEPT ![r.jti] = c]
  /\ IF r.token = NoToken
       THEN UNCHANGED <<spendRow, spends>>
       ELSE /\ spendRow' = spendRow \cup {r.token}
            /\ spends' = [spends EXCEPT ![r.token] = read[c]]
  /\ Release(c)
  /\ Goto(c, "answered")
  /\ verdict' = [verdict EXCEPT ![c] = v]
  /\ UNCHANGED <<req, read>>

(* Mutant: the connection goes back to the pool without ROLLBACK.          *)
UndoWithoutRollback(c) ==
  /\ pc[c] = "undo"
  /\ Goto(c, "answered")
  /\ UNCHANGED <<req, verdict, tables, locks, read>>

(* ROLLBACK on a rejected reservation, then the result.                    *)
Undo(c) ==
  /\ pc[c] = "undo"
  /\ Release(c)
  /\ Goto(c, "answered")
  /\ UNCHANGED <<req, verdict, tables, read>>

(* A statement fails (connection lost, gateway killed, server error): the  *)
(* database rolls the transaction back, the catch block throws.            *)
Abort(c) ==
  /\ pc[c] \in InTx
  /\ Release(c)
  /\ Goto(c, "answered")
  /\ verdict' = [verdict EXCEPT ![c] = "error"]
  /\ UNCHANGED <<req, tables, read>>

(* What the database and the driver do for call c without any failure.     *)
Step(c) ==
  \/ Connect(c) \/ InsertNonce(c) \/ InsertJti(c) \/ InsertSpendRow(c)
  \/ LockSpend(c) \/ Debit(c) \/ Commit(c, "ok") \/ Undo(c)

Next ==
  \E c \in Calls :
    \/ \E r \in Requests : Call(c, r)
    \/ Step(c)
    \/ ConnectTimeout(c)
    \/ Commit(c, "error")
    \/ Abort(c)

Spec == Init /\ [][Next]_vars

(* PostgreSQL executes the statements it is sent, and the pool's timer     *)
(* fires; nothing is assumed of callers or of failures.                    *)
Fairness == \A c \in Calls : WF_vars(Step(c)) /\ WF_vars(ConnectTimeout(c))

FairSpec == Spec /\ Fairness

-----------------------------------------------------------------------------
(* Properties.                                                             *)

Granted == {c \in Calls : req[c] # NoRequest /\ jtiRow[req[c].jti] = c}

(* The transaction implements the ledger: the database's tables are the    *)
(* ledger, and a call has its verdict when checkAndDebitExecution returns. *)
Ledger == INSTANCE ExecutionLedger WITH
  request <- req,
  verdict <- [c \in Calls |-> IF pc[c] = "answered" THEN verdict[c] ELSE "none"],
  granted <- Granted,
  nonces  <- {n \in Nonces : nonceRow[n] # Free},
  jtis    <- {j \in Jtis : jtiRow[j] # Free},
  spent   <- spends

(* Every behaviour of the SQL transaction is one of the atomic ledger:     *)
(* whatever the interleaving and the failures, the answers of              *)
(* checkAndDebitExecution are those of a one-step reservation.             *)
ImplementsLedger == Ledger!Spec

(* The rows of one reservation stand or fall together: a committed nonce   *)
(* belongs to the call that committed the jti with it, a successful answer *)
(* means both are there, and a rejected call left neither behind.          *)
AllOrNothing ==
  \A c \in Calls : req[c] # NoRequest =>
    LET owns == nonceRow[req[c].nonce] = c IN
    /\ owns <=> jtiRow[req[c].jti] = c
    /\ pc[c] = "answered" /\ verdict[c] = "ok" => owns
    /\ owns => pc[c] = "answered" /\ verdict[c] \in {"ok", "error"}

(* Two calls that were told "ok" never carried the same intent nonce or    *)
(* the same action-token jti: an authorized action executes at most once.  *)
SingleUse ==
  \A c, d \in Calls :
    /\ c # d
    /\ pc[c] = "answered" /\ verdict[c] = "ok"
    /\ pc[d] = "answered" /\ verdict[d] = "ok"
    => req[c].nonce # req[d].nonce /\ req[c].jti # req[d].jti

(* No interleaving of reservations debits a delegation token beyond its    *)
(* max_spend_cents.                                                        *)
WithinCap == \A t \in Tokens : spends[t] <= Limit[t]

(* The cents granted on a token, one by one: <<c, k>> is cent k of the     *)
(* amount of call c.                                                       *)
GrantedCents(t) ==
  UNION {{c} \X (1..req[c].amount) : c \in {d \in Granted : req[d].token = t}}

(* spent_cents is the sum of what the granted reservations asked for: no   *)
(* debit is lost and none is counted twice, with several gateways debiting *)
(* one delegation token.                                                   *)
SpendIsSumOfGrants == \A t \in Tokens : spends[t] = Cardinality(GrantedCents(t))

(* Every call of checkAndDebitExecution returns: a rejected or failed      *)
(* reservation leaves no row lock or connection that another waits for.    *)
EveryCallReturns ==
  \A c \in Calls : pc[c] = "connect" ~> pc[c] = "answered"

-----------------------------------------------------------------------------
(* The inductive invariant: what a transaction holds at each statement.    *)

HoldsRows(c) ==
  LET r == req[c] IN
  /\ pc[c] \in {"jti", "row", "lock", "debit", "commit"} =>
       nonceLock[r.nonce] = c /\ nonceRow[r.nonce] = Free
  /\ pc[c] \in {"row", "lock", "debit", "commit"} =>
       jtiLock[r.jti] = c /\ jtiRow[r.jti] = Free
  /\ pc[c] \in {"row", "lock", "debit"} => r.token # NoToken
  /\ pc[c] \in {"debit", "commit"} /\ r.token # NoToken =>
       spendLock[r.token] = c

ReadIsCurrent(c) ==
  LET t == req[c].token IN
  /\ pc[c] = "debit" =>
       read[c] = spends[t] /\ read[c] + req[c].amount <= Limit[t]
  /\ pc[c] = "commit" /\ t # NoToken =>
       read[c] = spends[t] + req[c].amount /\ read[c] <= Limit[t]

RejectionIsTrue(c) ==
  LET r == req[c] IN
  /\ verdict[c] = "nonce_replay" => nonceRow[r.nonce] # Free
  /\ verdict[c] = "jti_replay" => jtiRow[r.jti] # Free
  /\ verdict[c] = "budget_exceeded" =>
       r.token # NoToken /\ spends[r.token] + r.amount > Limit[r.token]

VerdictFitsPc(c) ==
  /\ pc[c] = "idle" <=> req[c] = NoRequest
  /\ pc[c] \notin {"idle", "answered"} => req[c].amount >= 0
  /\ pc[c] \notin {"undo", "answered"} => verdict[c] = "none"
  /\ pc[c] = "undo" => verdict[c] \in {"nonce_replay", "jti_replay", "budget_exceeded"}
  /\ pc[c] = "answered" => verdict[c] # "none"

(* A committed row was committed by the call it names, for its own request. *)
RowsHaveOwners ==
  /\ \A n \in Nonces, c \in Calls :
       nonceRow[n] = c => pc[c] = "answered" /\ req[c].nonce = n
  /\ \A j \in Jtis, c \in Calls :
       jtiRow[j] = c => pc[c] = "answered" /\ req[c].jti = j

IInv ==
  /\ TypeOK
  /\ RowsHaveOwners
  /\ AllOrNothing
  /\ WithinCap
  /\ \A c \in Calls : /\ HoldsRows(c)
                       /\ ReadIsCurrent(c)
                       /\ RejectionIsTrue(c)
                       /\ VerdictFitsPc(c)

=============================================================================
