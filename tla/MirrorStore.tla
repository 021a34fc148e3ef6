------------------------------ MODULE MirrorStore ------------------------------
(***************************************************************************)
(* PersistentMirrorStore: every gateway answers from a copy of the         *)
(* database that it reads again before each request, writes back through a *)
(* queue, and flushes before it answers.  One passport and the revocation  *)
(* record of it stand for the collections: the passport's row is replaced  *)
(* whole by whoever writes it, revocations are inserted past the mirror.   *)
(*                                                                         *)
(* get() hands out the object itself and a write serializes the object     *)
(* when its turn comes, so objects are kept apart from the mirror: object  *)
(* n of a gateway is the one its n-th refresh created.  An object's value  *)
(* is the set of requests whose status change it carries.                  *)
(***************************************************************************)
EXTENDS Integers, Sequences

CONSTANTS
  Gateways, Requests,
  kind,          \* kind[r]: whether r suspends, revokes or uses the passport
  NoValue,       \* not read or serialized yet
  NoGateway,
  MaxRefreshes   \* MaxRefreshes[g]: bound on the refreshes and restarts of gateway g

ASSUME MirrorAssumption ==
  /\ kind \in [Requests -> {"suspend", "revoke", "use"}]
  /\ MaxRefreshes \in [Gateways -> Nat]
  /\ Gateways # {} /\ NoGateway \notin Gateways
  /\ \A v \in BOOLEAN \cup SUBSET Requests : v # NoValue

Values == SUBSET Requests
Objects == UNION {0..MaxRefreshes[g] : g \in Gateways}

VARIABLES
  row,       \* the passport's record in the database
  written,   \* every status change a write has brought to the database
  rev,       \* the revocation record is in the database
  objs,      \* objs[g][n]: the object of g's n-th refresh
  last,      \* last[g]: how many objects g created
  mem,       \* mem[g]: the object in g's mirror
  memRev,    \* memRev[g]: the revocation record is in g's mirror
  queue,     \* queue[g]: writeChain, the objects to write; the first may be on its way
  sending,   \* sending[g]: the first one's JSON, or NoValue
  failed,    \* failed[g]: lastWriteError is set
  refresh,   \* refresh[g]: [phase, ahead, row, rev, acked] of `refreshing`
  on,        \* on[r]: the gateway request r went to
  pc,        \* pc[r]: where request r is
  ref,       \* ref[r]: the object that r holds across an await
  ahead,     \* ahead[r]: the writes that r's flush still waits for
  view       \* view[r]: what was acknowledged when r's refresh began, until r acts

db == <<row, written, rev>>
mirror == <<objs, last, mem, memRev>>
writes == <<queue, sending, failed>>
vars == <<db, mirror, writes, refresh, on, pc, ref, ahead, view>>

NotRefreshing == [phase |-> "none", ahead |-> 0, row |-> NoValue, rev |-> NoValue, acked |-> {}]

DatabaseOK == row \in Values /\ written \in Values /\ rev \in BOOLEAN

MirrorOK ==
  /\ objs \in [Gateways -> [Objects -> Values]]
  /\ last \in [Gateways -> Objects] /\ mem \in [Gateways -> Objects]
  /\ \A g \in Gateways : mem[g] <= last[g]
  /\ memRev \in [Gateways -> BOOLEAN]

WritesOK ==
  /\ queue \in [Gateways -> Seq(Objects)]
  /\ sending \in [Gateways -> Values \cup {NoValue}]
  /\ failed \in [Gateways -> BOOLEAN]

Refreshes == [phase : {"none", "flush", "dump"}, ahead : Nat, row : Values \cup {NoValue},
              rev : BOOLEAN \cup {NoValue}, acked : SUBSET Requests]

RequestsOK ==
  /\ on \in [Requests -> Gateways \cup {NoGateway}]
  /\ pc \in [Requests -> {"idle", "refresh", "ready", "sign", "insert", "learn", "touch",
                          "flush", "ok", "error"}]
  /\ ref \in [Requests -> Objects]
  /\ ahead \in [Requests -> Nat]
  /\ \A r \in Requests : pc[r] = "flush" => ahead[r] <= Len(queue[on[r]])
  /\ view \in [Requests -> SUBSET Requests]

TypeOK ==
  /\ DatabaseOK /\ MirrorOK /\ WritesOK /\ RequestsOK
  /\ refresh \in [Gateways -> Refreshes]

Init ==
  /\ row = {} /\ written = {} /\ rev = FALSE
  /\ objs = [g \in Gateways |-> [n \in Objects |-> {}]]
  /\ last = [g \in Gateways |-> 0] /\ mem = [g \in Gateways |-> 0]
  /\ memRev = [g \in Gateways |-> FALSE]
  /\ queue = [g \in Gateways |-> <<>>]
  /\ sending = [g \in Gateways |-> NoValue]
  /\ failed = [g \in Gateways |-> FALSE]
  /\ refresh = [g \in Gateways |-> NotRefreshing]
  /\ on = [r \in Requests |-> NoGateway]
  /\ pc = [r \in Requests |-> "idle"]
  /\ ref = [r \in Requests |-> 0]
  /\ ahead = [r \in Requests |-> 0]
  /\ view = [r \in Requests |-> {}]

Acked == {r \in Requests : pc[r] = "ok"}

(* These requests fail; what they held is forgotten.                       *)
Stop(rs) ==
  /\ pc' = [r \in Requests |-> IF r \in rs THEN "error" ELSE pc[r]]
  /\ ref' = [r \in Requests |-> IF r \in rs THEN 0 ELSE ref[r]]
  /\ ahead' = [r \in Requests |-> IF r \in rs THEN 0 ELSE ahead[r]]
  /\ view' = [r \in Requests |-> IF r \in rs THEN {} ELSE view[r]]

-----------------------------------------------------------------------------
(* refresh(), which every request awaits first.                            *)

(* A refresh under way is joined; otherwise one begins and awaits flush(), *)
(* that is the writes queued by now.                                       *)
Arrive(r, g) ==
  /\ pc[r] = "idle"
  /\ on' = [on EXCEPT ![r] = g]
  /\ pc' = [pc EXCEPT ![r] = "refresh"]
  /\ IF refresh[g].phase = "none"
       THEN /\ last[g] < MaxRefreshes[g]
            /\ refresh' = [refresh EXCEPT ![g] =
                 [phase |-> "flush", ahead |-> Len(queue[g]), row |-> NoValue, rev |-> NoValue,
                  acked |-> Acked]]
       ELSE UNCHANGED refresh
  /\ UNCHANGED <<db, mirror, writes, ref, ahead, view>>

(* The requests that await g's refresh.                                    *)
Joined(g) == {r \in Requests : on[r] = g /\ pc[r] = "refresh"}

RefreshFlushed(g) ==
  /\ refresh[g].phase = "flush" /\ refresh[g].ahead = 0 /\ ~failed[g]
  /\ refresh' = [refresh EXCEPT ![g].phase = "dump"]
  /\ UNCHANGED <<db, mirror, writes, on, pc, ref, ahead, view>>

(* dumpCollection: the collections are read side by side.                  *)
DumpPassports(g) ==
  /\ refresh[g].phase = "dump" /\ refresh[g].row = NoValue
  /\ refresh' = [refresh EXCEPT ![g].row = row]
  /\ UNCHANGED <<db, mirror, writes, on, pc, ref, ahead, view>>

DumpRevocations(g) ==
  /\ refresh[g].phase = "dump" /\ refresh[g].rev = NoValue
  /\ refresh' = [refresh EXCEPT ![g].rev = rev]
  /\ UNCHANGED <<db, mirror, writes, on, pc, ref, ahead, view>>

(* Mutant: the revocations read before are kept in the mirror.             *)
InstallPassportsOnly(g) ==
  /\ refresh[g].row # NoValue /\ refresh[g].rev # NoValue
  /\ last[g] < MaxRefreshes[g]
  /\ last' = [last EXCEPT ![g] = @ + 1]
  /\ mem' = [mem EXCEPT ![g] = last[g] + 1]
  /\ objs' = [objs EXCEPT ![g][last[g] + 1] = refresh[g].row]
  /\ pc' = [r \in Requests |-> IF r \in Joined(g) THEN "ready" ELSE pc[r]]
  /\ view' = [r \in Requests |->
       IF r \in Joined(g) THEN refresh[g].acked ELSE view[r]]
  /\ refresh' = [refresh EXCEPT ![g] = NotRefreshing]
  /\ UNCHANGED <<db, memRev, writes, on, ref, ahead>>

(* The mirror is replaced by what was read, whatever was put in it since.  *)
Install(g) ==
  /\ refresh[g].row # NoValue /\ refresh[g].rev # NoValue
  /\ last[g] < MaxRefreshes[g]
  /\ last' = [last EXCEPT ![g] = @ + 1]
  /\ mem' = [mem EXCEPT ![g] = last[g] + 1]
  /\ objs' = [objs EXCEPT ![g][last[g] + 1] = refresh[g].row]
  /\ memRev' = [memRev EXCEPT ![g] = refresh[g].rev]
  /\ pc' = [r \in Requests |-> IF r \in Joined(g) THEN "ready" ELSE pc[r]]
  /\ view' = [r \in Requests |->
       IF r \in Joined(g) THEN refresh[g].acked ELSE view[r]]
  /\ refresh' = [refresh EXCEPT ![g] = NotRefreshing]
  /\ UNCHANGED <<db, writes, on, ref, ahead>>

(* flush() throws, or a query fails: so do the requests that wait.         *)
RefreshFails(g) ==
  /\ \/ refresh[g].phase = "flush" /\ refresh[g].ahead = 0 /\ failed[g]
     \/ refresh[g].phase = "dump"
  /\ refresh' = [refresh EXCEPT ![g] = NotRefreshing]
  /\ Stop(Joined(g))
  /\ UNCHANGED <<db, mirror, writes, on>>

-----------------------------------------------------------------------------
(* put() and the queue.                                                    *)

(* put(): the object is in the mirror and at the end of the queue.         *)
Put(g, n) ==
  /\ mem' = [mem EXCEPT ![g] = n]
  /\ queue' = [queue EXCEPT ![g] = Append(@, n)]

(* Mutant: one write too many is awaited.                                  *)
FlushNext(r, q) ==
  /\ pc' = [pc EXCEPT ![r] = "flush"]
  /\ ahead' = [ahead EXCEPT ![r] = Len(q) + 1]
  /\ view' = [view EXCEPT ![r] = {}]

(* ok(): the answer awaits the writes that are queued now.                 *)
Flush(r, q) ==
  /\ pc' = [pc EXCEPT ![r] = "flush"]
  /\ ahead' = [ahead EXCEPT ![r] = Len(q)]
  /\ view' = [view EXCEPT ![r] = {}]

(* Mutant: a write waits for the refresh to end.                           *)
SerializeAfterRefresh(g) ==
  /\ queue[g] # <<>> /\ sending[g] = NoValue
  /\ refresh[g].phase = "none"
  /\ sending' = [sending EXCEPT ![g] = objs[g][Head(queue[g])]]
  /\ UNCHANGED <<db, mirror, queue, failed, refresh, on, pc, ref, ahead, view>>

(* setRecord: JSON.stringify of the object as it is by then.               *)
Serialize(g) ==
  /\ queue[g] # <<>> /\ sending[g] = NoValue
  /\ sending' = [sending EXCEPT ![g] = objs[g][Head(queue[g])]]
  /\ UNCHANGED <<db, mirror, queue, failed, refresh, on, pc, ref, ahead, view>>

(* The write ends, well or badly, and every flush has one fewer to await.  *)
Dequeue(g) ==
  /\ sending[g] # NoValue
  /\ sending' = [sending EXCEPT ![g] = NoValue]
  /\ queue' = [queue EXCEPT ![g] = Tail(@)]
  /\ ahead' = [r \in Requests |-> IF on[r] = g /\ ahead[r] > 0 THEN ahead[r] - 1 ELSE ahead[r]]
  /\ refresh' = [refresh EXCEPT ![g].ahead = IF @ > 0 THEN @ - 1 ELSE 0]

Store(value) ==
  /\ row' = value
  /\ written' = written \cup value

Write(g) ==
  /\ Dequeue(g)
  /\ Store(sending[g])
  /\ UNCHANGED <<rev, mirror, failed, on, pc, ref, view>>

(* The error is kept until the process restarts; the database may have     *)
(* stored the record although it was not heard.                            *)
WriteFails(g) ==
  /\ Dequeue(g)
  /\ failed' = [failed EXCEPT ![g] = TRUE]
  /\ Store(sending[g]) \/ UNCHANGED <<row, written>>
  /\ UNCHANGED <<rev, mirror, on, pc, ref, view>>

-----------------------------------------------------------------------------
(* The requests.                                                           *)

(* setPassportStatus: the object is changed, then the signer awaited.      *)
ChangeStatus(r) ==
  LET g == on[r] IN
  /\ pc[r] = "ready" /\ kind[r] \in {"suspend", "revoke"}
  /\ ref' = [ref EXCEPT ![r] = mem[g]]
  /\ objs' = [objs EXCEPT ![g][mem[g]] = @ \cup {r}]
  /\ pc' = [pc EXCEPT ![r] = "sign"]
  /\ UNCHANGED <<db, last, mem, memRev, writes, refresh, on, ahead, view>>

(* The object is put, even if the mirror has a newer one.  A revocation    *)
(* follows unless the mirror already has it.                               *)
Signed(r) ==
  LET g == on[r] IN
  /\ pc[r] = "sign"
  /\ Put(g, ref[r])
  /\ IF kind[r] = "revoke" /\ ~memRev[g]
       THEN pc' = [pc EXCEPT ![r] = "insert"] /\ UNCHANGED <<ahead, view>>
       ELSE Flush(r, queue'[g])
  /\ ref' = [ref EXCEPT ![r] = 0]
  /\ UNCHANGED <<db, objs, last, memRev, sending, failed, refresh, on>>

SignerFails(r) ==
  /\ pc[r] = "sign"
  /\ Stop({r})
  /\ UNCHANGED <<db, mirror, writes, refresh, on>>

(* addRevocation: the remote's own transaction, outside the queue.         *)
Insert(r) ==
  /\ pc[r] = "insert"
  /\ rev' = TRUE
  /\ pc' = [pc EXCEPT ![r] = "learn"]
  /\ UNCHANGED <<row, written, mirror, writes, refresh, on, ref, ahead, view>>

InsertFails(r) ==
  /\ pc[r] = "insert"
  /\ rev' \in {rev, TRUE}
  /\ Stop({r})
  /\ UNCHANGED <<row, written, mirror, writes, refresh, on>>

(* The remote has answered: the record goes into the mirror of the moment. *)
Learn(r) ==
  /\ pc[r] = "learn"
  /\ memRev' = [memRev EXCEPT ![on[r]] = TRUE]
  /\ Flush(r, queue[on[r]])
  /\ UNCHANGED <<db, objs, last, mem, writes, refresh, on, ref>>

(* authorize and execute: assertPassportUsable on the mirror.              *)
Evaluate(r) ==
  LET g == on[r] IN
  /\ pc[r] = "ready" /\ kind[r] = "use"
  /\ IF objs[g][mem[g]] = {} /\ ~memRev[g]
       THEN pc' = [pc EXCEPT ![r] = "touch"] /\ UNCHANGED <<ahead, view>>
       ELSE Flush(r, queue[g])
  /\ UNCHANGED <<db, mirror, writes, refresh, on, ref>>

(* touchLastSeen, after the budget or the reservation was awaited: the     *)
(* whole record is written again.                                          *)
TouchLastSeen(r) ==
  LET g == on[r] IN
  /\ pc[r] = "touch"
  /\ Put(g, mem[g])
  /\ Flush(r, queue'[g])
  /\ UNCHANGED <<db, objs, last, memRev, sending, failed, refresh, on, ref>>

(* Mutant: flush() does not look at lastWriteError.                        *)
AnswerAnyway(r) ==
  /\ pc[r] = "flush" /\ ahead[r] = 0
  /\ pc' = [pc EXCEPT ![r] = "ok"]
  /\ UNCHANGED <<db, mirror, writes, refresh, on, ref, ahead, view>>

Answer(r) ==
  /\ pc[r] = "flush" /\ ahead[r] = 0
  /\ pc' = [pc EXCEPT ![r] = IF failed[on[r]] THEN "error" ELSE "ok"]
  /\ UNCHANGED <<db, mirror, writes, refresh, on, ref, ahead, view>>

(* The process dies: its queue is lost, the write on its way may have been *)
(* stored, and its requests fail.  init() fills the new mirror.            *)
Restart(g) ==
  /\ last[g] < MaxRefreshes[g]
  /\ \/ sending[g] # NoValue /\ Store(sending[g])
     \/ UNCHANGED <<row, written>>
  /\ last' = [last EXCEPT ![g] = @ + 1]
  /\ mem' = [mem EXCEPT ![g] = last[g] + 1]
  /\ objs' = [objs EXCEPT ![g][last[g] + 1] = row']
  /\ memRev' = [memRev EXCEPT ![g] = rev]
  /\ queue' = [queue EXCEPT ![g] = <<>>]
  /\ sending' = [sending EXCEPT ![g] = NoValue]
  /\ failed' = [failed EXCEPT ![g] = FALSE]
  /\ refresh' = [refresh EXCEPT ![g] = NotRefreshing]
  /\ Stop({r \in Requests : on[r] = g /\ pc[r] # "ok"})
  /\ UNCHANGED <<rev, on>>

-----------------------------------------------------------------------------
(* What runs by itself, without a failure.                                 *)
GatewayStep(g) ==
  \/ RefreshFlushed(g) \/ DumpPassports(g) \/ DumpRevocations(g) \/ Install(g)
  \/ Serialize(g) \/ Write(g)

RequestStep(r) ==
  \/ ChangeStatus(r) \/ Signed(r) \/ Insert(r) \/ Learn(r)
  \/ Evaluate(r) \/ TouchLastSeen(r) \/ Answer(r)

Next ==
  \/ \E r \in Requests :
       \/ \E g \in Gateways : Arrive(r, g)
       \/ RequestStep(r) \/ SignerFails(r) \/ InsertFails(r)
  \/ \E g \in Gateways : GatewayStep(g) \/ RefreshFails(g) \/ WriteFails(g) \/ Restart(g)

Spec == Init /\ [][Next]_vars

(* The event loop runs what is ready, and the database and the signer      *)
(* answer; a refresh whose flush threw rejects.                            *)
Fairness ==
  /\ \A g \in Gateways : WF_vars(GatewayStep(g)) /\ WF_vars(RefreshFails(g))
  /\ \A r \in Requests : WF_vars(RequestStep(r))

FairSpec == Spec /\ Fairness

-----------------------------------------------------------------------------
(* Properties.                                                             *)

(* "The gateway waits for persistent-store writes before returning         *)
(* successful responses": an acknowledged status change did reach the      *)
(* database, and an acknowledged revocation is in it for good, whatever    *)
(* objects, refreshes, failures and restarts came between.                 *)
AckedWasWritten ==
  \A r \in Acked :
    /\ kind[r] # "use" => r \in written
    /\ kind[r] = "revoke" => rev

(* A request whose refresh began after a revocation was acknowledged, by   *)
(* any gateway, does not act on a passport that is still alive: another    *)
(* request's refresh or put in the same process cannot hide it again.      *)
FreshRefreshSeesRevoked ==
  \A r \in Requests :
    /\ pc[r] = "touch"
    => \A s \in view[r] : kind[s] # "revoke"

(* Every request is answered: the refresh that waits for the queue, and    *)
(* the queue, never wait for each other.                                   *)
EveryRequestAnswered == \A r \in Requests : pc[r] = "refresh" ~> pc[r] \in {"ok", "error"}

(* "Revoked/suspended/locked entities always denied": an acknowledged      *)
(* suspension stays in the database until it is lifted, and no request     *)
(* here lifts it.                                                          *)
SuspensionStays == \A r \in Acked : kind[r] = "suspend" => row # {}

-----------------------------------------------------------------------------
(* The inductive invariant.                                                *)

GatewayFits(g) ==
  /\ \A i \in 1..Len(queue[g]) : queue[g][i] <= last[g]
  /\ sending[g] # NoValue => queue[g] # <<>>
  /\ refresh[g].phase # "dump" => refresh[g].rev = NoValue
  /\ memRev[g] \/ refresh[g].rev = TRUE => rev

RequestFits(r) ==
  /\ pc[r] # "idle" => on[r] \in Gateways
  /\ pc[r] = "idle" => on[r] = NoGateway
  /\ pc[r] = "sign" => ref[r] <= last[on[r]] /\ kind[r] # "use"
  /\ pc[r] \in {"insert", "learn"} => kind[r] = "revoke"
  /\ pc[r] = "touch" => kind[r] = "use"

(* r's change is in the i-th object to write, and in what is being sent.   *)
Queued(r, i) ==
  LET g == on[r] IN
  /\ r \in objs[g][queue[g][i]]
  /\ i = 1 /\ sending[g] # NoValue => r \in sending[g]

(* Once k writes have ended, r's change is stored or the flush throws.     *)
Carried(r, k) ==
  r \in written \/ failed[on[r]] \/ \E i \in 1..k : Queued(r, i)

Secured(r) ==
  /\ kind[r] # "use" =>
       /\ pc[r] = "sign" => r \in objs[on[r]][ref[r]]
       /\ pc[r] \in {"insert", "learn"} => Carried(r, Len(queue[on[r]]))
       /\ pc[r] = "flush" => Carried(r, ahead[r])
       /\ pc[r] = "ok" => r \in written
  /\ kind[r] = "revoke" /\ pc[r] \in {"learn", "flush", "ok"} => rev

Revokers == {s \in Requests : kind[s] = "revoke"}

(* A refresh that began after a revocation was acknowledged will read it.  *)
RefreshSees(g) ==
  refresh[g].acked \cap Revokers # {} => rev /\ refresh[g].rev # FALSE

(* So will every refresh that replaces the mirror before r acts.           *)
ViewSees(r) ==
  view[r] \cap Revokers # {} =>
    /\ pc[r] # "touch"
    /\ pc[r] = "ready" => rev /\ memRev[on[r]] /\ refresh[on[r]].rev # FALSE

IInv ==
  /\ TypeOK
  /\ \A g \in Gateways : GatewayFits(g) /\ RefreshSees(g)
  /\ \A r \in Requests : RequestFits(r) /\ Secured(r) /\ ViewSees(r)

=============================================================================
