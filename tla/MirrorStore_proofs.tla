------------------------- MODULE MirrorStore_proofs -------------------------
(***************************************************************************)
(* Proofs about the persistent mirror, for any number of gateways,         *)
(* requests, refreshes and restarts: the inductive invariant, what an      *)
(* acknowledgement guarantees, and what a fresh refresh sees.              *)
(***************************************************************************)
EXTENDS MirrorStore, SequenceTheorems, TLAPS


-----------------------------------------------------------------------------
(* The types of the model's data.                                          *)

(* A gateway that may still refresh has a number for its next object.      *)
LEMMA ObjectNumbers ==
  /\ Objects \subseteq Nat
  /\ 0 \in Objects
  /\ \A g \in Gateways, n \in Nat : n < MaxRefreshes[g] => n + 1 \in Objects
  <1>1. Objects \subseteq Nat
    BY MirrorAssumption DEF Objects
  <1>2. 0 \in Objects
    <2>1. PICK g \in Gateways : TRUE
      BY MirrorAssumption
    <2>2. 0 \in 0..MaxRefreshes[g]
      BY MirrorAssumption
    <2> QED
      BY <2>2 DEF Objects
  <1>3. ASSUME NEW g \in Gateways, NEW n \in Nat, n < MaxRefreshes[g]
        PROVE  n + 1 \in Objects
    <2>1. n + 1 \in 0..MaxRefreshes[g]
      BY <1>3, MirrorAssumption
    <2> QED
      BY <2>1 DEF Objects
  <1> QED
    BY <1>1, <1>2, <1>3

(* What a refresh record holds, and what remains one when a field changes. *)
LEMMA RefreshFields ==
  ASSUME NEW f \in Refreshes
  PROVE  /\ f.ahead \in Nat /\ f.acked \subseteq Requests
         /\ f.row \in Values \cup {NoValue} /\ f.rev \in BOOLEAN \cup {NoValue}
         /\ \A p \in {"none", "flush", "dump"} : [f EXCEPT !.phase = p] \in Refreshes
         /\ \A n \in Nat : [f EXCEPT !.ahead = n] \in Refreshes
         /\ \A v \in Values \cup {NoValue} : [f EXCEPT !.row = v] \in Refreshes
         /\ \A v \in BOOLEAN \cup {NoValue} : [f EXCEPT !.rev = v] \in Refreshes
  BY DEF Refreshes

LEMMA NotRefreshingOK == NotRefreshing \in Refreshes
  BY DEF NotRefreshing, Refreshes

(* Requests that fail keep the types, if the others' queues stay.          *)
LEMMA StopOK ==
  ASSUME RequestsOK, NEW rs, Stop(rs), UNCHANGED on,
         \A r \in Requests : pc[r] = "flush" /\ r \notin rs => queue'[on[r]] = queue[on[r]]
  PROVE  RequestsOK'
  <1> USE DEF RequestsOK, Stop
  <1>1. ref' \in [Requests -> Objects]
    BY ObjectNumbers
  <1>2. pc' \in [Requests -> {"idle", "refresh", "ready", "sign", "insert", "learn", "touch",
                              "flush", "ok", "error"}]
    OBVIOUS
  <1>3. ahead' \in [Requests -> Nat] /\ view' \in [Requests -> SUBSET Requests]
    OBVIOUS
  <1>4. ASSUME NEW r \in Requests, pc'[r] = "flush" PROVE ahead'[r] <= Len(queue'[on[r]])
    BY <1>4
  <1> QED
    BY <1>1, <1>2, <1>3, <1>4

-----------------------------------------------------------------------------
(* What keeps a request's change on its way to the database.               *)

(* g's queue only grows, its objects only gain changes, and a write only   *)
(* starts with what its object holds.                                      *)
QueueKept(g) ==
  /\ failed[g] => failed'[g]
  /\ Len(queue'[g]) >= Len(queue[g])
  /\ \A i \in 1..Len(queue[g]) : queue'[g][i] = queue[g][i]
  /\ \A n \in Objects : n <= last[g] => objs[g][n] \subseteq objs'[g][n]
  /\ \/ sending'[g] = sending[g]
     \/ sending[g] = NoValue /\ sending'[g] = objs[g][Head(queue[g])]

(* What r holds: nothing that an await could change.                       *)
Held(r) == <<on[r], pc[r], ref[r], ahead[r]>>

LEMMA QueueFacts ==
  ASSUME IInv, NEW g \in Gateways
  PROVE  /\ queue[g] \in Seq(Objects) /\ Len(queue[g]) \in Nat
         /\ \A i \in 1..Len(queue[g]) : queue[g][i] \in Objects /\ queue[g][i] <= last[g]
         /\ last[g] \in Nat
         /\ queue[g] # <<>> => Head(queue[g]) = queue[g][1] /\ 1 \in 1..Len(queue[g])
  <1>1. queue[g] \in Seq(Objects)
    BY DEF IInv, TypeOK, WritesOK
  <1>2. last[g] \in Nat
    BY ObjectNumbers DEF IInv, TypeOK, MirrorOK
  <1>3. ASSUME NEW i \in 1..Len(queue[g]) PROVE queue[g][i] \in Objects /\ queue[g][i] <= last[g]
    BY <1>1, ElementOfSeq DEF IInv, GatewayFits
  <1>4. ASSUME queue[g] # <<>>
        PROVE Head(queue[g]) = queue[g][1] /\ 1 \in 1..Len(queue[g])
    BY <1>1, <1>4
  <1> QED
    BY <1>1, <1>2, <1>3, <1>4

LEMMA CarriedKept ==
  ASSUME IInv, NEW s \in Requests, on[s] \in Gateways, on'[s] = on[s],
         written \subseteq written', QueueKept(on[s]),
         NEW k \in 0..Len(queue[on[s]]), NEW l \in Nat, k <= l, Carried(s, k)
  PROVE  Carried(s, l)'
  <1> DEFINE g == on[s]
  <1>1. CASE s \in written \/ failed[g]
    BY <1>1 DEF Carried, QueueKept
  <1>2. CASE \E i \in 1..k : Queued(s, i)
    <2>1. PICK i \in 1..k : Queued(s, i)
      BY <1>2
    <2>2. i \in 1..Len(queue[g]) /\ i \in 1..l
      BY QueueFacts
    <2>3. queue'[g][i] = queue[g][i] /\ queue[g][i] \in Objects /\ queue[g][i] <= last[g]
      BY <2>2, QueueFacts DEF QueueKept
    <2>4. s \in objs[g][queue[g][i]] /\ objs[g][queue[g][i]] \subseteq objs'[g][queue'[g][i]]
      BY <2>1, <2>3 DEF Queued, QueueKept
    <2>5. ASSUME i = 1, sending'[g] # NoValue PROVE s \in sending'[g]
      <3>1. Head(queue[g]) = queue[g][1]
        BY <2>2, <2>5, QueueFacts
      <3> QED
        BY <2>1, <2>4, <2>5, <3>1 DEF Queued, QueueKept
    <2>6. Queued(s, i)'
      BY <2>4, <2>5 DEF Queued
    <2> QED
      BY <2>2, <2>6 DEF Carried
  <1> QED
    BY <1>1, <1>2 DEF Carried

LEMMA SecuredKept ==
  ASSUME IInv, NEW s \in Requests, UNCHANGED Held(s), written \subseteq written', rev => rev',
         pc[s] # "idle" => QueueKept(on[s]), TypeOK'
  PROVE  Secured(s)'
  <1>1. CASE pc[s] = "idle"
    BY <1>1 DEF Held, Secured
  <1>2. CASE pc[s] # "idle"
    <2> DEFINE g == on[s]
    <2>1. /\ g \in Gateways /\ QueueKept(g) /\ Secured(s)
          /\ on'[s] = g /\ pc'[s] = pc[s] /\ ref'[s] = ref[s] /\ ahead'[s] = ahead[s]
      BY <1>2 DEF IInv, RequestFits, Held
    <2>2. Len(queue[g]) \in Nat /\ Len(queue'[g]) \in Nat /\ Len(queue'[g]) >= Len(queue[g])
      BY <2>1, QueueFacts DEF QueueKept, TypeOK, WritesOK
    <2>3. ASSUME pc[s] = "sign", kind[s] # "use" PROVE s \in objs'[g][ref[s]]
      BY <2>1, <2>3 DEF Secured, QueueKept, IInv, TypeOK, RequestsOK, RequestFits
    <2>4. ASSUME pc[s] \in {"insert", "learn"}, kind[s] # "use" PROVE Carried(s, Len(queue[g]))'
      BY <2>1, <2>2, <2>4, CarriedKept DEF Secured
    <2>5. ASSUME pc[s] = "flush", kind[s] # "use" PROVE Carried(s, ahead[s])'
      <3>1. ahead[s] \in 0..Len(queue[g]) /\ ahead'[s] \in Nat /\ ahead[s] <= ahead'[s]
        BY <2>1, <2>2, <2>5 DEF IInv, TypeOK, RequestsOK
      <3> QED
        BY <2>1, <2>5, <3>1, CarriedKept DEF Secured
    <2> QED
      BY <2>1, <2>3, <2>4, <2>5 DEF Secured
  <1> QED
    BY <1>1, <1>2

LEMMA QueueUntouched ==
  ASSUME IInv, NEW g \in Gateways, UNCHANGED <<mirror, writes>>
  PROVE  QueueKept(g)
  BY QueueFacts DEF QueueKept, mirror, writes

-----------------------------------------------------------------------------
(* The refresh.                                                            *)

LEMMA ArriveIInv ==
  ASSUME IInv, NEW r \in Requests, NEW g \in Gateways, Arrive(r, g)
  PROVE  IInv'
  <1>1. UNCHANGED <<db, mirror, writes, ref, ahead, view>>
    BY DEF Arrive
  <1>2. pc[r] = "idle" /\ pc' = [pc EXCEPT ![r] = "refresh"] /\ on' = [on EXCEPT ![r] = g]
    BY DEF Arrive
  <1>3. TypeOK'
    <2>1. [phase |-> "flush", ahead |-> Len(queue[g]), row |-> NoValue, rev |-> NoValue,
           acked |-> Acked] \in Refreshes
      BY QueueFacts DEF Acked, Refreshes
    <2>2. refresh' \in [Gateways -> Refreshes]
      BY <2>1 DEF Arrive, IInv, TypeOK
    <2>3. RequestsOK'
      BY <1>1, <1>2 DEF IInv, TypeOK, RequestsOK, writes
    <2> QED
      BY <1>1, <2>2, <2>3
      DEF IInv, TypeOK, DatabaseOK, MirrorOK, WritesOK, db, mirror, writes
  <1>4. ASSUME NEW h \in Gateways
        PROVE  \/ refresh'[h] = refresh[h]
               \/ /\ refresh'[h].phase = "flush" /\ refresh'[h].rev = NoValue
                  /\ refresh'[h].acked = Acked
    BY DEF Arrive, IInv, TypeOK
  <1>5. ASSUME NEW h \in Gateways PROVE GatewayFits(h)'
    BY <1>1, <1>4, MirrorAssumption DEF IInv, GatewayFits, db, mirror, writes
  <1>6. Acked \cap Revokers # {} => rev
    BY DEF IInv, Secured, Acked, Revokers
  <1>7. ASSUME NEW h \in Gateways PROVE RefreshSees(h)'
    BY <1>1, <1>4, <1>6, MirrorAssumption DEF IInv, RefreshSees, db
  <1>8. ASSUME NEW s \in Requests
        PROVE  RequestFits(s)' /\ ViewSees(s)' /\ Secured(s)'
    <2>1. RequestFits(s)'
      BY <1>1, <1>2 DEF IInv, TypeOK, RequestsOK, RequestFits, mirror
    <2>2. ViewSees(s)'
      BY <1>1, <1>2, <1>4, MirrorAssumption
      DEF IInv, TypeOK, RequestsOK, RequestFits, ViewSees, db, mirror
    <2>3. Secured(s)'
      <3>1. CASE s = r
        <4>1. pc'[s] = "refresh"
          BY <1>2, <3>1 DEF IInv, TypeOK, RequestsOK
        <4> QED
          BY <4>1 DEF Secured
      <3>2. CASE s # r
        <4>1. UNCHANGED Held(s)
          BY <1>1, <1>2, <3>2 DEF IInv, TypeOK, RequestsOK, Held
        <4> QED
          BY <1>1, <1>3, <4>1, SecuredKept, QueueUntouched DEF IInv, RequestFits, db
      <3> QED
        BY <3>1, <3>2
    <2> QED
      BY <2>1, <2>2, <2>3
  <1> QED
    BY <1>3, <1>5, <1>7, <1>8 DEF IInv

(* A refresh that goes on changes its own record only.                     *)
LEMMA RefreshGoesOn ==
  ASSUME IInv, NEW g \in Gateways, NEW f \in Refreshes,
         refresh' = [refresh EXCEPT ![g] = f],
         f.acked = refresh[g].acked,
         f.rev \in {refresh[g].rev, rev},
         f.phase # "dump" => f.rev = NoValue,
         UNCHANGED <<db, mirror, writes, on, pc, ref, ahead, view>>
  PROVE  IInv'
  <1>1. TypeOK'
    BY DEF IInv, TypeOK, DatabaseOK, MirrorOK, WritesOK, RequestsOK, db, mirror, writes
  <1>2. ASSUME NEW h \in Gateways
        PROVE  /\ refresh'[h].acked = refresh[h].acked
               /\ refresh'[h].rev = refresh[h].rev \/ (h = g /\ refresh'[h].rev = rev)
               /\ refresh'[h].phase # "dump" => refresh'[h].rev = NoValue
    <2>1. CASE h = g
      <3>1. refresh'[h] = f
        BY <2>1 DEF IInv, TypeOK
      <3> QED
        BY <2>1, <3>1
    <2>2. CASE h # g
      <3>1. refresh'[h] = refresh[h]
        BY <2>2 DEF IInv, TypeOK
      <3> QED
        BY <3>1 DEF IInv, GatewayFits
    <2> QED
      BY <2>1, <2>2
  <1>3. rev \in BOOLEAN
    BY DEF IInv, TypeOK, DatabaseOK
  <1>4. ASSUME NEW h \in Gateways PROVE GatewayFits(h)'
    BY <1>2, <1>3 DEF IInv, GatewayFits, db, mirror, writes
  <1>5. ASSUME NEW h \in Gateways PROVE RefreshSees(h)'
    BY <1>2, <1>3 DEF IInv, RefreshSees, db
  <1>6. ASSUME NEW s \in Requests PROVE RequestFits(s)'
    BY DEF IInv, RequestFits, mirror
  <1>7. ASSUME NEW s \in Requests PROVE ViewSees(s)'
    <2>1. UNCHANGED <<view, pc, on, memRev, rev>>
      BY DEF db, mirror
    <2>2. ViewSees(s) /\ RequestFits(s)
      BY DEF IInv
    <2>3. ASSUME view[s] \cap Revokers # {}, pc[s] = "ready"
          PROVE  rev /\ memRev[on[s]] /\ refresh'[on[s]].rev # FALSE
      <3>1. /\ rev /\ memRev[on[s]] /\ refresh[on[s]].rev # FALSE
            /\ on[s] \in Gateways
        BY <2>2, <2>3 DEF ViewSees, RequestFits
      <3>2. refresh'[on[s]].rev = refresh[on[s]].rev \/ refresh'[on[s]].rev = rev
        BY <1>2, <3>1
      <3>3. rev # FALSE
        BY <3>1
      <3>4. refresh'[on[s]].rev # FALSE
        BY <3>1, <3>2, <3>3, Zenon
      <3> QED
        BY <3>1, <3>4
    <2> QED
      BY <2>1, <2>2, <2>3 DEF ViewSees
  <1>8. ASSUME NEW s \in Requests PROVE Secured(s)'
    BY <1>1, SecuredKept, QueueUntouched DEF IInv, RequestFits, Held, db
  <1> QED
    BY <1>1, <1>4, <1>5, <1>6, <1>7, <1>8 DEF IInv

LEMMA RefreshFlushedIInv ==
  ASSUME IInv, NEW g \in Gateways, RefreshFlushed(g)
  PROVE  IInv'
  <1> DEFINE f == [refresh[g] EXCEPT !.phase = "dump"]
  <1>1. refresh[g] \in Refreshes
    BY DEF IInv, TypeOK
  <1>2. f \in Refreshes /\ f.acked = refresh[g].acked /\ f.rev = refresh[g].rev
        /\ f.phase = "dump"
    BY <1>1 DEF Refreshes
  <1>3. refresh' = [refresh EXCEPT ![g] = f]
    BY DEF RefreshFlushed
  <1> HIDE DEF f
  <1> QED
    BY <1>2, <1>3, RefreshGoesOn DEF RefreshFlushed

LEMMA DumpPassportsIInv ==
  ASSUME IInv, NEW g \in Gateways, DumpPassports(g)
  PROVE  IInv'
  <1> DEFINE f == [refresh[g] EXCEPT !.row = row]
  <1>1. refresh[g] \in Refreshes /\ row \in Values
    BY DEF IInv, TypeOK, DatabaseOK
  <1>2. f \in Refreshes /\ f.acked = refresh[g].acked /\ f.rev = refresh[g].rev
        /\ f.phase = "dump"
    BY <1>1 DEF DumpPassports, Refreshes
  <1>3. refresh' = [refresh EXCEPT ![g] = f]
    BY DEF DumpPassports
  <1> HIDE DEF f
  <1> QED
    BY <1>2, <1>3, RefreshGoesOn DEF DumpPassports

LEMMA DumpRevocationsIInv ==
  ASSUME IInv, NEW g \in Gateways, DumpRevocations(g)
  PROVE  IInv'
  <1> DEFINE f == [refresh[g] EXCEPT !.rev = rev]
  <1>1. refresh[g] \in Refreshes /\ rev \in BOOLEAN \cup {NoValue}
    BY DEF IInv, TypeOK, DatabaseOK
  <1>2. f \in Refreshes /\ f.acked = refresh[g].acked /\ f.rev = rev /\ f.phase = "dump"
    BY <1>1 DEF DumpRevocations, Refreshes
  <1>3. refresh' = [refresh EXCEPT ![g] = f]
    BY DEF DumpRevocations
  <1> HIDE DEF f
  <1> QED
    BY <1>2, <1>3, RefreshGoesOn DEF DumpRevocations

(* The record of a refresh that is not under way.                          *)
LEMMA NotRefreshingFields ==
  NotRefreshing.acked = {} /\ NotRefreshing.rev = NoValue /\ NotRefreshing.phase = "none"
  BY DEF NotRefreshing

LEMMA InstallIInv ==
  ASSUME IInv, NEW g \in Gateways, Install(g)
  PROVE  IInv'
  <1>1. UNCHANGED <<db, writes, on, ref, ahead>>
    BY DEF Install
  <1>2. /\ last[g] + 1 \in Objects /\ last[g] \in Nat
        /\ last' = [last EXCEPT ![g] = last[g] + 1]
        /\ mem' = [mem EXCEPT ![g] = last[g] + 1]
        /\ objs' = [objs EXCEPT ![g][last[g] + 1] = refresh[g].row]
    BY ObjectNumbers DEF Install, IInv, TypeOK, MirrorOK
  <1>3. refresh[g].row \in Values /\ refresh[g].rev \in BOOLEAN
    BY RefreshFields DEF Install, IInv, TypeOK
  <1>4. memRev' = [memRev EXCEPT ![g] = refresh[g].rev]
    BY DEF Install
  <1>5. refresh' = [refresh EXCEPT ![g] = NotRefreshing]
    BY DEF Install
  <1>6. TypeOK'
    <2>1. objs' \in [Gateways -> [Objects -> Values]]
      BY <1>2, <1>3 DEF IInv, TypeOK, MirrorOK
    <2>2. last' \in [Gateways -> Objects] /\ mem' \in [Gateways -> Objects]
      BY <1>2 DEF IInv, TypeOK, MirrorOK
    <2>3. \A h \in Gateways : mem'[h] <= last'[h]
      BY <1>2 DEF IInv, TypeOK, MirrorOK
    <2>4. memRev' \in [Gateways -> BOOLEAN]
      BY <1>3, <1>4 DEF IInv, TypeOK, MirrorOK
    <2>5. RequestsOK'
      <3>1. pc' \in [Requests -> {"idle", "refresh", "ready", "sign", "insert", "learn",
                                  "touch", "flush", "ok", "error"}]
        BY DEF Install, IInv, TypeOK, RequestsOK
      <3>2. view' \in [Requests -> SUBSET Requests]
        BY RefreshFields DEF Install, IInv, TypeOK, RequestsOK
      <3>3. ASSUME NEW s \in Requests, pc'[s] = "flush"
            PROVE  ahead'[s] <= Len(queue'[on'[s]])
        BY <1>1, <3>3 DEF Install, IInv, TypeOK, RequestsOK, writes
      <3> QED
        BY <1>1, <3>1, <3>2, <3>3 DEF IInv, TypeOK, RequestsOK
    <2>6. refresh' \in [Gateways -> Refreshes]
      BY <1>5, NotRefreshingOK DEF IInv, TypeOK
    <2> QED
      BY <1>1, <2>1, <2>2, <2>3, <2>4, <2>5, <2>6
      DEF IInv, TypeOK, DatabaseOK, MirrorOK, WritesOK, db, writes
  <1>7. ASSUME NEW h \in Gateways, h # g
        PROVE  /\ refresh'[h] = refresh[h] /\ memRev'[h] = memRev[h]
               /\ last'[h] = last[h] /\ objs'[h] = objs[h]
    BY <1>2, <1>4, <1>5, <1>7 DEF IInv, TypeOK, MirrorOK
  <1>8. refresh'[g] = NotRefreshing /\ memRev'[g] = refresh[g].rev /\ last'[g] = last[g] + 1
    BY <1>2, <1>4, <1>5 DEF IInv, TypeOK, MirrorOK
  <1>9. ASSUME NEW h \in Gateways PROVE GatewayFits(h)'
    <2>1. CASE h = g
      <3>1. \A i \in 1..Len(queue'[g]) : queue'[g][i] <= last'[g]
        BY <1>1, <1>2, <1>8, QueueFacts, ObjectNumbers DEF writes
      <3>2. memRev'[g] => rev
        BY <1>3, <1>8 DEF IInv, GatewayFits
      <3>3. refresh'[g].rev = NoValue
        BY <1>8, NotRefreshingFields
      <3> QED
        BY <1>1, <2>1, <3>1, <3>2, <3>3, MirrorAssumption
        DEF IInv, GatewayFits, db, writes
    <2>2. CASE h # g
      BY <1>1, <1>7, <2>2 DEF IInv, GatewayFits, db, writes
    <2> QED
      BY <2>1, <2>2
  <1>10. ASSUME NEW h \in Gateways PROVE RefreshSees(h)'
    BY <1>1, <1>7, <1>8, NotRefreshingFields DEF IInv, RefreshSees, db
  <1>11. ASSUME NEW s \in Requests
         PROVE  \/ pc'[s] = pc[s] /\ view'[s] = view[s]
                \/ /\ on[s] = g /\ pc[s] = "refresh" /\ pc'[s] = "ready"
                   /\ view'[s] = refresh[g].acked
    BY DEF Install, Joined
  <1>12. ASSUME NEW s \in Requests PROVE RequestFits(s)'
    <2>1. ASSUME NEW h \in Gateways
          PROVE  last[h] \in Nat /\ last'[h] \in Nat /\ last[h] <= last'[h]
      <3>1. last[h] \in Nat /\ last'[h] = IF h = g THEN last[h] + 1 ELSE last[h]
        BY <1>2, ObjectNumbers DEF IInv, TypeOK, MirrorOK
      <3> QED
        BY <3>1
    <2>2. pc'[s] = "ready" \/ pc'[s] = pc[s]
      BY <1>11
    <2>3. on'[s] = on[s] /\ ref'[s] = ref[s] /\ ref[s] \in Nat
      BY <1>1, ObjectNumbers DEF IInv, TypeOK, RequestsOK
    <2> QED
      BY <1>11, <2>1, <2>2, <2>3 DEF IInv, RequestFits
  <1>13. ASSUME NEW s \in Requests PROVE Secured(s)'
    <2>1. CASE pc'[s] = "ready"
      BY <2>1 DEF Secured
    <2>2. CASE pc'[s] # "ready"
      <3>1. UNCHANGED Held(s)
        BY <1>1, <1>11, <2>2 DEF Held
      <3>2. ASSUME NEW h \in Gateways PROVE QueueKept(h)
        <4>1. ASSUME NEW n \in Objects, n <= last[h] PROVE objs[h][n] \subseteq objs'[h][n]
          BY <1>2, <4>1, ObjectNumbers DEF IInv, TypeOK, MirrorOK
        <4> QED
          BY <1>1, <4>1, QueueFacts DEF QueueKept, writes
      <3> QED
        BY <1>1, <1>6, <3>1, <3>2, SecuredKept DEF IInv, RequestFits, db
    <2> QED
      BY <2>1, <2>2
  <1>14. ASSUME NEW s \in Requests PROVE ViewSees(s)'
    <2>1. CASE on[s] = g
      <3>1. pc'[s] = "ready" /\ view'[s] \cap Revokers # {} => rev /\ refresh[g].rev = TRUE
        BY <1>3, <1>11, <2>1 DEF IInv, RefreshSees, ViewSees, Install
      <3>2. pc'[s] = "touch" => view'[s] \cap Revokers = {}
        BY <1>11 DEF IInv, ViewSees
      <3>3. refresh'[g].rev # FALSE
        BY <1>8, NotRefreshingFields, MirrorAssumption
      <3> QED
        BY <1>1, <1>8, <2>1, <3>1, <3>2, <3>3 DEF ViewSees, Revokers, db
    <2>2. CASE on[s] # g
      <3>1. pc'[s] = pc[s] /\ view'[s] = view[s]
        BY <1>11, <2>2
      <3> QED
        BY <1>1, <1>7, <2>2, <3>1 DEF IInv, RequestFits, ViewSees, Revokers, db
    <2> QED
      BY <2>1, <2>2
  <1> QED
    BY <1>6, <1>9, <1>10, <1>12, <1>13, <1>14 DEF IInv

(* Requests that fail take nothing with them: what is left keeps what it   *)
(* had, and what failed promises nothing.                                  *)
LEMMA StoppedFits ==
  ASSUME IInv, NEW rs, Stop(rs), UNCHANGED on, NEW s \in Requests, s \in rs, pc[s] # "idle"
  PROVE  RequestFits(s)' /\ Secured(s)' /\ ViewSees(s)'
  <1>1. pc'[s] = "error" /\ view'[s] = {} /\ on'[s] = on[s]
    BY DEF Stop
  <1>2. RequestFits(s)'
    BY <1>1 DEF IInv, RequestFits
  <1>3. Secured(s)'
    BY <1>1 DEF Secured
  <1>4. ViewSees(s)'
    BY <1>1 DEF ViewSees
  <1> QED
    BY <1>2, <1>3, <1>4

LEMMA RefreshFailsIInv ==
  ASSUME IInv, NEW g \in Gateways, RefreshFails(g)
  PROVE  IInv'
  <1>1. UNCHANGED <<db, mirror, writes, on>> /\ Stop(Joined(g))
        /\ refresh' = [refresh EXCEPT ![g] = NotRefreshing]
    BY DEF RefreshFails
  <1>2. TypeOK'
    <2>1. RequestsOK'
      BY <1>1, StopOK DEF IInv, TypeOK, writes
    <2> QED
      BY <1>1, <2>1, NotRefreshingOK
      DEF IInv, TypeOK, DatabaseOK, MirrorOK, WritesOK, db, mirror, writes
  <1>3. ASSUME NEW h \in Gateways
        PROVE  refresh'[h] = refresh[h] \/ refresh'[h] = NotRefreshing
    BY <1>1 DEF IInv, TypeOK
  <1>4. ASSUME NEW h \in Gateways PROVE GatewayFits(h)'
    BY <1>1, <1>3, NotRefreshingFields, MirrorAssumption
    DEF IInv, GatewayFits, db, mirror, writes
  <1>5. ASSUME NEW h \in Gateways PROVE RefreshSees(h)'
    BY <1>1, <1>3, NotRefreshingFields DEF IInv, RefreshSees, db
  <1>6. ASSUME NEW s \in Requests PROVE RequestFits(s)' /\ Secured(s)' /\ ViewSees(s)'
    <2>1. CASE s \in Joined(g)
      BY <1>1, <2>1, StoppedFits DEF Joined
    <2>2. CASE s \notin Joined(g)
      <3>1. UNCHANGED <<Held(s), view[s]>>
        BY <1>1, <2>2 DEF Stop, Held
      <3>2. RequestFits(s)'
        BY <1>1, <3>1 DEF IInv, RequestFits, Held, mirror
      <3>3. Secured(s)'
        BY <1>1, <1>2, <3>1, SecuredKept, QueueUntouched DEF IInv, RequestFits, db
      <3>4. ViewSees(s)'
        <4>1. /\ on'[s] = on[s] /\ pc'[s] = pc[s] /\ view'[s] = view[s]
              /\ UNCHANGED <<rev, memRev>>
          BY <1>1, <3>1 DEF Held, db, mirror
        <4>2. on[s] \in Gateways /\ refresh[on[s]].rev # FALSE => refresh'[on[s]].rev # FALSE
          BY <1>3, NotRefreshingFields, MirrorAssumption
        <4> QED
          BY <4>1, <4>2 DEF IInv, RequestFits, ViewSees
      <3> QED
        BY <3>2, <3>3, <3>4
    <2> QED
      BY <2>1, <2>2
  <1> QED
    BY <1>2, <1>4, <1>5, <1>6 DEF IInv

-----------------------------------------------------------------------------
(* The queue.                                                              *)

LEMMA SerializeIInv ==
  ASSUME IInv, NEW g \in Gateways, Serialize(g)
  PROVE  IInv'
  <1>1. UNCHANGED <<db, mirror, queue, failed, refresh, on, pc, ref, ahead, view>>
        /\ queue[g] # <<>> /\ sending[g] = NoValue
        /\ sending' = [sending EXCEPT ![g] = objs[g][Head(queue[g])]]
    BY DEF Serialize
  <1>2. objs[g][Head(queue[g])] \in Values
    BY <1>1, QueueFacts DEF IInv, TypeOK, MirrorOK
  <1>3. TypeOK'
    BY <1>1, <1>2
    DEF IInv, TypeOK, DatabaseOK, MirrorOK, WritesOK, RequestsOK, db, mirror
  <1>4. ASSUME NEW h \in Gateways PROVE GatewayFits(h)' /\ RefreshSees(h)' /\ QueueKept(h)
    <2>1. sending'[h] = sending[h] \/ h = g
      BY <1>1 DEF IInv, TypeOK, WritesOK
    <2>2. GatewayFits(h)'
      BY <1>1, <2>1 DEF IInv, GatewayFits, db, mirror
    <2>3. RefreshSees(h)'
      BY <1>1 DEF IInv, RefreshSees, db
    <2>4. QueueKept(h)
      BY <1>1, QueueFacts DEF QueueKept, IInv, TypeOK, WritesOK, mirror
    <2> QED
      BY <2>2, <2>3, <2>4
  <1>5. ASSUME NEW s \in Requests PROVE RequestFits(s)' /\ Secured(s)' /\ ViewSees(s)'
    <2>1. RequestFits(s)'
      BY <1>1 DEF IInv, RequestFits, mirror
    <2>2. Secured(s)'
      BY <1>1, <1>3, <1>4, SecuredKept DEF IInv, RequestFits, Held, db
    <2>3. ViewSees(s)'
      BY <1>1 DEF IInv, ViewSees, db, mirror
    <2> QED
      BY <2>1, <2>2, <2>3
  <1> QED
    BY <1>3, <1>4, <1>5 DEF IInv

(* What the end of a write does, stored or failed.                         *)
LEMMA DequeueKeeps ==
  ASSUME IInv, NEW g \in Gateways, Dequeue(g), Store(sending[g]) \/ UNCHANGED <<row, written>>,
         failed' = failed \/ failed' = [failed EXCEPT ![g] = TRUE],
         \/ Store(sending[g])
         \/ failed'[g],
         UNCHANGED <<rev, mirror, on, pc, ref, view>>
  PROVE  IInv'
  <1>1. /\ sending[g] # NoValue /\ queue[g] # <<>>
        /\ sending' = [sending EXCEPT ![g] = NoValue]
        /\ queue' = [queue EXCEPT ![g] = Tail(queue[g])]
    BY DEF Dequeue, IInv, GatewayFits
  <1>2. /\ queue[g] \in Seq(Objects) /\ Tail(queue[g]) \in Seq(Objects)
        /\ Len(Tail(queue[g])) = Len(queue[g]) - 1
        /\ \A i \in 1..Len(Tail(queue[g])) : Tail(queue[g])[i] = queue[g][i + 1]
        /\ Len(queue[g]) \in Nat \ {0}
    BY <1>1, QueueFacts, HeadTailProperties
  <1>3. sending[g] \in Values
    BY <1>1 DEF IInv, TypeOK, WritesOK
  <1>4. \A s \in Requests : ahead'[s] = IF on[s] = g /\ ahead[s] > 0 THEN ahead[s] - 1
                                                                     ELSE ahead[s]
    BY DEF Dequeue
  <1>5. ASSUME NEW h \in Gateways
        PROVE  /\ refresh'[h] \in Refreshes /\ refresh'[h].acked = refresh[h].acked
               /\ refresh'[h].phase = refresh[h].phase /\ refresh'[h].rev = refresh[h].rev
    <2>1. refresh[h] \in Refreshes /\ refresh[g] \in Refreshes /\ refresh[g].ahead \in Nat
      BY RefreshFields DEF IInv, TypeOK
    <2> QED
      BY <2>1 DEF Dequeue, Refreshes
  <1>6. TypeOK'
    <2>1. row' \in Values /\ written' \in Values
      BY <1>3 DEF Store, IInv, TypeOK, DatabaseOK, Values
    <2>2. WritesOK'
      BY <1>1, <1>2 DEF IInv, TypeOK, WritesOK
    <2>3. refresh' \in [Gateways -> Refreshes]
      BY <1>5 DEF Dequeue, IInv, TypeOK
    <2>4. ahead' \in [Requests -> Nat]
      BY DEF Dequeue, IInv, TypeOK, RequestsOK
    <2>5. ASSUME NEW s \in Requests, pc[s] = "flush" PROVE ahead'[s] <= Len(queue'[on[s]])
      <3>1. on[s] \in Gateways /\ ahead[s] \in Nat /\ ahead[s] <= Len(queue[on[s]])
        BY <2>5 DEF IInv, TypeOK, RequestsOK, RequestFits
      <3>2. CASE on[s] = g
        <4>1. Len(queue'[on[s]]) = Len(queue[g]) - 1
          BY <1>1, <1>2, <3>2 DEF IInv, TypeOK, WritesOK
        <4> QED
          BY <1>2, <1>4, <3>1, <3>2, <4>1
      <3>3. CASE on[s] # g
        <4>1. queue'[on[s]] = queue[on[s]]
          BY <1>1, <3>1, <3>3 DEF IInv, TypeOK, WritesOK
        <4> QED
          BY <1>4, <3>1, <3>3, <4>1
      <3> QED
        BY <3>2, <3>3
    <2> QED
      BY <2>1, <2>2, <2>3, <2>4, <2>5
      DEF IInv, TypeOK, DatabaseOK, MirrorOK, RequestsOK, mirror
  <1>7. ASSUME NEW h \in Gateways PROVE GatewayFits(h)' /\ RefreshSees(h)'
    <2>1. \A i \in 1..Len(queue'[h]) : queue'[h][i] <= last[h]
      <3>1. CASE h = g
        BY <1>1, <1>2, <3>1, QueueFacts DEF IInv, TypeOK, WritesOK
      <3>2. CASE h # g
        BY <1>1, <3>2, QueueFacts DEF IInv, TypeOK, WritesOK
      <3> QED
        BY <3>1, <3>2
    <2>2. sending'[h] # NoValue => queue'[h] # <<>>
      BY <1>1 DEF IInv, TypeOK, WritesOK, GatewayFits
    <2>3. GatewayFits(h)'
      BY <1>5, <2>1, <2>2 DEF IInv, GatewayFits, mirror
    <2>4. RefreshSees(h)'
      BY <1>5 DEF IInv, RefreshSees
    <2> QED
      BY <2>3, <2>4
  <1>8. written \subseteq written' /\ (sending[g] \subseteq written' \/ failed'[g])
    BY DEF Store
  <1>9. ASSUME NEW s \in Requests, on[s] \in Gateways, NEW k \in 0..Len(queue[on[s]]),
               Carried(s, k),
               NEW l \in Nat, l = (IF on[s] = g /\ k > 0 THEN k - 1 ELSE k)
        PROVE  Carried(s, l)'
    <2>1. CASE s \in written \/ failed[on[s]]
      <3>1. failed[on[s]] => failed'[on[s]]
        BY <1>9 DEF IInv, TypeOK, WritesOK
      <3> QED
        BY <1>8, <2>1, <3>1 DEF Carried
    <2>2. CASE \E i \in 1..k : Queued(s, i)
      <3>1. PICK i \in 1..k : Queued(s, i)
        BY <2>2
      <3>2. CASE on[s] # g
        <4>1. Queued(s, i)'
          BY <1>1, <3>1, <3>2 DEF Queued, IInv, TypeOK, WritesOK, mirror
        <4> QED
          BY <1>9, <3>2, <4>1 DEF Carried
      <3>3. CASE on[s] = g /\ i = 1
        <4>1. s \in sending[g]
          BY <1>1, <3>1, <3>3 DEF Queued
        <4> QED
          BY <1>8, <3>3, <4>1 DEF Carried
      <3>4. CASE on[s] = g /\ i # 1
        <4>1. i - 1 \in 1..l /\ i - 1 \in 1..Len(Tail(queue[g]))
          BY <1>2, <1>9, <3>4
        <4>2. queue'[g][i - 1] = queue[g][i]
          BY <1>1, <1>2, <4>1 DEF IInv, TypeOK, WritesOK
        <4>3. sending'[g] = NoValue
          BY <1>1 DEF IInv, TypeOK, WritesOK
        <4>4. Queued(s, i - 1)'
          BY <3>1, <3>4, <4>2, <4>3 DEF Queued, mirror
        <4> QED
          BY <4>1, <4>4 DEF Carried
      <3> QED
        BY <3>2, <3>3, <3>4
    <2> QED
      BY <1>9, <2>1, <2>2 DEF Carried
  <1>10. ASSUME NEW s \in Requests PROVE Secured(s)'
    <2>1. CASE pc[s] \in {"insert", "learn"} /\ kind[s] # "use"
      <3>1. on[s] \in Gateways /\ Carried(s, Len(queue[on[s]]))
        BY <2>1 DEF IInv, RequestFits, Secured
      <3>2. Len(queue'[on[s]]) = IF on[s] = g /\ Len(queue[on[s]]) > 0
                                   THEN Len(queue[on[s]]) - 1 ELSE Len(queue[on[s]])
        BY <1>1, <1>2, <3>1 DEF IInv, TypeOK, WritesOK
      <3>3. Len(queue'[on[s]]) \in Nat /\ Len(queue[on[s]]) \in 0..Len(queue[on[s]])
        BY <1>6, <3>1, QueueFacts DEF TypeOK, WritesOK
      <3>4. Carried(s, Len(queue[on[s]]))'
        BY <1>9, <3>1, <3>2, <3>3
      <3> QED
        BY <2>1, <3>4 DEF IInv, Secured
    <2>2. CASE pc[s] = "flush" /\ kind[s] # "use"
      <3>1. on[s] \in Gateways /\ Carried(s, ahead[s])
        BY <2>2 DEF IInv, RequestFits, Secured
      <3>2. ahead[s] \in 0..Len(queue[on[s]]) /\ ahead'[s] \in Nat
        BY <1>6, <2>2, <3>1, QueueFacts DEF IInv, TypeOK, RequestsOK
      <3>3. Carried(s, ahead[s])'
        BY <1>4, <1>9, <3>1, <3>2
      <3> QED
        BY <2>2, <3>3 DEF IInv, Secured
    <2>3. CASE kind[s] = "use" \/ pc[s] \notin {"insert", "learn", "flush"}
      BY <1>8, <2>3 DEF IInv, Secured, mirror
    <2> QED
      BY <2>1, <2>2, <2>3
  <1>11. ASSUME NEW s \in Requests PROVE RequestFits(s)' /\ ViewSees(s)'
    <2>1. RequestFits(s)'
      BY DEF IInv, RequestFits, mirror
    <2>2. ViewSees(s)'
      BY <1>5 DEF IInv, RequestFits, ViewSees, mirror
    <2> QED
      BY <2>1, <2>2
  <1> QED
    BY <1>6, <1>7, <1>10, <1>11 DEF IInv

LEMMA WriteIInv ==
  ASSUME IInv, NEW g \in Gateways, Write(g)
  PROVE  IInv'
  BY DequeueKeeps DEF Write

LEMMA WriteFailsIInv ==
  ASSUME IInv, NEW g \in Gateways, WriteFails(g)
  PROVE  IInv'
  <1>1. failed' = [failed EXCEPT ![g] = TRUE] /\ failed'[g]
    BY DEF WriteFails, IInv, TypeOK, WritesOK
  <1> QED
    BY <1>1, DequeueKeeps DEF WriteFails

(* A put adds one object to one queue and disturbs no other write.         *)
LEMMA PutQueues ==
  ASSUME IInv, NEW g \in Gateways, NEW n \in Objects, n <= last[g], Put(g, n),
         UNCHANGED <<objs, last, sending, failed>>
  PROVE  /\ WritesOK'
         /\ \A h \in Gateways :
              /\ QueueKept(h)
              /\ \A i \in 1..Len(queue'[h]) : queue'[h][i] <= last[h]
              /\ sending[h] # NoValue => queue'[h] # <<>>
         /\ Len(queue'[g]) = Len(queue[g]) + 1
         /\ queue'[g][Len(queue[g]) + 1] = n
         /\ sending[g] # NoValue => Len(queue[g]) # 0
  <1>1. /\ queue[g] \in Seq(Objects) /\ Len(queue[g]) \in Nat
        /\ queue' = [queue EXCEPT ![g] = Append(queue[g], n)]
    BY QueueFacts DEF Put
  <1>2. /\ Append(queue[g], n) \in Seq(Objects)
        /\ Len(Append(queue[g], n)) = Len(queue[g]) + 1
        /\ Append(queue[g], n)[Len(queue[g]) + 1] = n
        /\ \A i \in 1..Len(queue[g]) : Append(queue[g], n)[i] = queue[g][i]
    BY <1>1, AppendProperties
  <1>3. queue'[g] = Append(queue[g], n) /\ \A h \in Gateways \ {g} : queue'[h] = queue[h]
    BY <1>1 DEF IInv, TypeOK, WritesOK
  <1>4. WritesOK'
    BY <1>1, <1>2 DEF IInv, TypeOK, WritesOK
  <1>5. ASSUME NEW h \in Gateways PROVE QueueKept(h)
    <2>1. Len(queue'[h]) >= Len(queue[h]) /\ \A i \in 1..Len(queue[h]) : queue'[h][i] = queue[h][i]
      BY <1>1, <1>2, <1>3, QueueFacts
    <2> QED
      BY <2>1 DEF QueueKept
  <1>6. ASSUME NEW h \in Gateways, NEW i \in 1..Len(queue'[h]) PROVE queue'[h][i] <= last[h]
    <2>1. CASE h # g
      BY <1>3, <1>6, <2>1, QueueFacts
    <2>2. CASE h = g
      BY <1>1, <1>2, <1>3, <1>6, <2>2, QueueFacts
    <2> QED
      BY <2>1, <2>2
  <1>7. ASSUME NEW h \in Gateways, sending[h] # NoValue PROVE Len(queue[h]) # 0 /\ queue'[h] # <<>>
    BY <1>1, <1>2, <1>3, <1>7, QueueFacts DEF IInv, GatewayFits
  <1> QED
    BY <1>2, <1>3, <1>4, <1>5, <1>6, <1>7

(* A request that flushes waits for no more writes than are queued.        *)
LEMMA FlushOK ==
  ASSUME IInv, WritesOK', NEW r \in Requests, on[r] \in Gateways, UNCHANGED on,
         ref' \in [Requests -> Objects], Flush(r, queue'[on[r]]),
         \A h \in Gateways : QueueKept(h)
  PROVE  RequestsOK'
  <1>1. Len(queue'[on[r]]) \in Nat
    BY DEF WritesOK
  <1>2. /\ pc' \in [Requests -> {"idle", "refresh", "ready", "sign", "insert", "learn", "touch",
                                 "flush", "ok", "error"}]
        /\ ahead' \in [Requests -> Nat] /\ view' \in [Requests -> SUBSET Requests]
    BY <1>1 DEF Flush, IInv, TypeOK, RequestsOK
  <1>3. ASSUME NEW s \in Requests, pc'[s] = "flush" PROVE ahead'[s] <= Len(queue'[on[s]])
    <2>1. CASE s = r
      BY <1>1, <2>1 DEF Flush, IInv, TypeOK, RequestsOK
    <2>2. CASE s # r
      <3>1. pc[s] = "flush" /\ ahead'[s] = ahead[s]
        BY <1>3, <2>2 DEF Flush, IInv, TypeOK, RequestsOK
      <3>2. /\ on[s] \in Gateways /\ QueueKept(on[s]) /\ ahead[s] \in Nat
            /\ ahead[s] <= Len(queue[on[s]])
        BY <3>1 DEF IInv, TypeOK, RequestsOK, RequestFits
      <3>3. Len(queue'[on[s]]) \in Nat /\ Len(queue[on[s]]) \in Nat
        BY <3>2, QueueFacts DEF WritesOK
      <3> QED
        BY <3>1, <3>2, <3>3 DEF QueueKept
    <2> QED
      BY <2>1, <2>2
  <1> QED
    BY <1>2, <1>3 DEF IInv, TypeOK, RequestsOK

(* Its change is in the object it put, behind what was queued before.      *)
LEMMA PutCarries ==
  ASSUME IInv, NEW r \in Requests, pc[r] = "sign", Put(on[r], ref[r]),
         UNCHANGED <<objs, last, sending, failed, on>>
  PROVE  Carried(r, Len(queue[on[r]]))'
  <1> DEFINE g == on[r]
  <1>1. /\ g \in Gateways /\ ref[r] \in Objects /\ ref[r] <= last[g]
        /\ r \in objs[g][ref[r]]
    BY DEF IInv, RequestFits, Secured, TypeOK, RequestsOK
  <1>2. /\ Len(queue'[g]) = Len(queue[g]) + 1 /\ Len(queue[g]) \in Nat
        /\ queue'[g][Len(queue[g]) + 1] = ref[r]
        /\ sending[g] # NoValue => Len(queue[g]) # 0
    BY <1>1, PutQueues, QueueFacts
  <1>3. PICK i \in Nat : i = Len(queue[g]) + 1
    BY <1>2
  <1>4. i \in 1..Len(queue'[g]) /\ queue'[g][i] = ref[r] /\ (sending[g] # NoValue => i # 1)
    BY <1>2, <1>3
  <1>5. Queued(r, i)'
    BY <1>1, <1>4 DEF Queued
  <1> QED
    BY <1>4, <1>5 DEF Carried

LEMMA ChangeStatusIInv ==
  ASSUME IInv, NEW r \in Requests, ChangeStatus(r)
  PROVE  IInv'
  <1> DEFINE g == on[r]
  <1>1. /\ g \in Gateways /\ mem[g] \in Objects /\ mem[g] <= last[g] /\ kind[r] # "use"
        /\ pc[r] = "ready" /\ pc' = [pc EXCEPT ![r] = "sign"]
        /\ ref' = [ref EXCEPT ![r] = mem[g]]
        /\ objs' = [objs EXCEPT ![g][mem[g]] = @ \cup {r}]
        /\ UNCHANGED <<db, last, mem, memRev, writes, refresh, on, ahead, view>>
    BY DEF ChangeStatus, IInv, TypeOK, MirrorOK, RequestFits
  <1>2. TypeOK'
    <2>1. objs' \in [Gateways -> [Objects -> Values]]
      BY <1>1 DEF IInv, TypeOK, MirrorOK, Values
    <2> QED
      BY <1>1, <2>1 DEF IInv, TypeOK, DatabaseOK, MirrorOK, WritesOK, RequestsOK, db, writes
  <1>3. ASSUME NEW h \in Gateways PROVE GatewayFits(h)' /\ RefreshSees(h)'
    <2>1. GatewayFits(h)'
      BY <1>1 DEF IInv, GatewayFits, db, writes
    <2>2. RefreshSees(h)'
      BY <1>1 DEF IInv, RefreshSees, db
    <2> QED
      BY <2>1, <2>2
  <1>4. ASSUME NEW h \in Gateways PROVE QueueKept(h)
    <2>1. ASSUME NEW n \in Objects PROVE objs[h][n] \subseteq objs'[h][n]
      BY <1>1 DEF IInv, TypeOK, MirrorOK
    <2> QED
      BY <1>1, <2>1, QueueFacts DEF QueueKept, writes
  <1>5. r \in objs'[g][mem[g]] /\ ref'[r] = mem[g] /\ pc'[r] = "sign"
    BY <1>1 DEF IInv, TypeOK, MirrorOK, RequestsOK
  <1>6. ASSUME NEW s \in Requests PROVE RequestFits(s)'
    <2>1. CASE s = r
      BY <1>1, <1>5, <2>1 DEF RequestFits
    <2>2. CASE s # r
      BY <1>1, <2>2 DEF IInv, TypeOK, RequestsOK, RequestFits
    <2> QED
      BY <2>1, <2>2
  <1>7. ASSUME NEW s \in Requests PROVE Secured(s)'
    <2>1. CASE s = r
      BY <1>1, <1>5, <2>1 DEF Secured
    <2>2. CASE s # r
      <3>1. UNCHANGED Held(s)
        BY <1>1, <2>2 DEF IInv, TypeOK, RequestsOK, Held
      <3> QED
        BY <1>1, <1>2, <1>4, <3>1, SecuredKept DEF IInv, RequestFits, db
    <2> QED
      BY <2>1, <2>2
  <1>8. ASSUME NEW s \in Requests PROVE ViewSees(s)'
    BY <1>1 DEF IInv, TypeOK, RequestsOK, ViewSees, db
  <1> QED
    BY <1>2, <1>3, <1>6, <1>7, <1>8 DEF IInv

LEMMA SignedIInv ==
  ASSUME IInv, NEW r \in Requests, Signed(r)
  PROVE  IInv'
  <1> DEFINE g == on[r]
  <1>1. /\ g \in Gateways /\ ref[r] \in Objects /\ ref[r] <= last[g] /\ kind[r] # "use"
        /\ pc[r] = "sign" /\ Put(g, ref[r])
        /\ ref' = [ref EXCEPT ![r] = 0]
        /\ UNCHANGED <<db, objs, last, memRev, sending, failed, refresh, on>>
    BY DEF Signed, IInv, TypeOK, RequestsOK, RequestFits
  <1>2. \/ /\ kind[r] = "revoke" /\ pc' = [pc EXCEPT ![r] = "insert"]
           /\ UNCHANGED <<ahead, view>>
        \/ /\ kind[r] = "revoke" => memRev[g]
           /\ Flush(r, queue'[g])
    BY DEF Signed
  <1>3. WritesOK' /\ \A h \in Gateways : QueueKept(h)
    BY <1>1, PutQueues
  <1>4. ref' \in [Requests -> Objects]
    BY <1>1, ObjectNumbers DEF IInv, TypeOK, RequestsOK
  <1>5. TypeOK'
    <2>1. MirrorOK'
      BY <1>1 DEF Put, IInv, TypeOK, MirrorOK
    <2>2. RequestsOK'
      <3>1. CASE Flush(r, queue'[g])
        BY <1>1, <1>3, <1>4, <3>1, FlushOK
      <3>2. CASE pc' = [pc EXCEPT ![r] = "insert"] /\ UNCHANGED <<ahead, view>>
        <4>1. ASSUME NEW s \in Requests, pc'[s] = "flush" PROVE ahead[s] <= Len(queue'[on[s]])
          <5>1. pc[s] = "flush" /\ s # r
            BY <3>2, <4>1 DEF IInv, TypeOK, RequestsOK
          <5>2. /\ on[s] \in Gateways /\ QueueKept(on[s]) /\ ahead[s] \in Nat
                /\ ahead[s] <= Len(queue[on[s]])
            BY <1>3, <5>1 DEF IInv, TypeOK, RequestsOK, RequestFits
          <5>3. Len(queue'[on[s]]) \in Nat /\ Len(queue[on[s]]) \in Nat
            BY <1>3, <5>2, QueueFacts DEF WritesOK
          <5> QED
            BY <5>2, <5>3 DEF QueueKept
        <4> QED
          BY <1>1, <1>4, <3>2, <4>1 DEF IInv, TypeOK, RequestsOK
      <3> QED
        BY <1>2, <3>1, <3>2
    <2> QED
      BY <1>1, <1>3, <2>1, <2>2 DEF IInv, TypeOK, DatabaseOK, db
  <1>6. ASSUME NEW h \in Gateways PROVE GatewayFits(h)' /\ RefreshSees(h)'
    <2>1. /\ \A i \in 1..Len(queue'[h]) : queue'[h][i] <= last[h]
          /\ sending[h] # NoValue => queue'[h] # <<>>
      BY <1>1, PutQueues
    <2>2. GatewayFits(h)'
      BY <1>1, <2>1 DEF IInv, GatewayFits, db
    <2>3. RefreshSees(h)'
      BY <1>1 DEF IInv, RefreshSees, db
    <2> QED
      BY <2>2, <2>3
  <1>7. Carried(r, Len(queue[g]))'
    BY <1>1, PutCarries
  <1>8. /\ pc'[r] \in {"insert", "flush"}
        /\ pc'[r] = "insert" => kind[r] = "revoke"
        /\ pc'[r] = "flush" =>
             /\ ahead'[r] = Len(queue'[g]) /\ view'[r] = {}
             /\ kind[r] = "revoke" => rev
    BY <1>1, <1>2 DEF Flush, IInv, GatewayFits, TypeOK, RequestsOK
  <1>9. ASSUME NEW s \in Requests, s # r PROVE UNCHANGED <<Held(s), view[s]>>
    BY <1>1, <1>2, <1>9 DEF Flush, IInv, TypeOK, RequestsOK, Held
  <1>10. ASSUME NEW s \in Requests PROVE RequestFits(s)' /\ Secured(s)' /\ ViewSees(s)'
    <2>1. CASE s = r
      <3>1. RequestFits(s)'
        BY <1>1, <1>8, <2>1 DEF RequestFits
      <3>2. Secured(s)'
        BY <1>1, <1>7, <1>8, <2>1 DEF Secured, db
      <3>3. ViewSees(s)'
        BY <1>8, <2>1 DEF ViewSees
      <3> QED
        BY <3>1, <3>2, <3>3
    <2>2. CASE s # r
      <3>1. RequestFits(s)'
        BY <1>1, <1>9, <2>2 DEF IInv, RequestFits, Held
      <3>2. Secured(s)'
        BY <1>1, <1>3, <1>5, <1>9, <2>2, SecuredKept DEF IInv, RequestFits, db
      <3>3. ViewSees(s)'
        BY <1>1, <1>9, <2>2 DEF IInv, ViewSees, Held, db
      <3> QED
        BY <3>1, <3>2, <3>3
    <2> QED
      BY <2>1, <2>2
  <1> QED
    BY <1>5, <1>6, <1>10 DEF IInv

(* One request fails, and the record may have been inserted after all.     *)
LEMMA StopsOne ==
  ASSUME IInv, NEW r \in Requests, pc[r] # "idle", Stop({r}), rev' \in {rev, TRUE},
         UNCHANGED <<row, written, mirror, writes, refresh, on>>
  PROVE  IInv'
  <1>1. TypeOK'
    <2>1. RequestsOK'
      BY StopOK DEF IInv, TypeOK, writes
    <2>2. rev' \in BOOLEAN
      BY DEF IInv, TypeOK, DatabaseOK
    <2> QED
      BY <2>1, <2>2 DEF IInv, TypeOK, DatabaseOK, MirrorOK, WritesOK, mirror, writes
  <1>2. rev => rev'
    BY DEF IInv, TypeOK, DatabaseOK
  <1>3. ASSUME NEW h \in Gateways PROVE GatewayFits(h)' /\ RefreshSees(h)'
    <2>1. GatewayFits(h)'
      BY <1>2 DEF IInv, GatewayFits, mirror, writes
    <2>2. RefreshSees(h)'
      BY <1>2 DEF IInv, RefreshSees
    <2> QED
      BY <2>1, <2>2
  <1>4. ASSUME NEW s \in Requests PROVE RequestFits(s)' /\ Secured(s)' /\ ViewSees(s)'
    <2>1. CASE s = r
      BY <2>1, StoppedFits
    <2>2. CASE s # r
      <3>1. UNCHANGED <<Held(s), view[s]>>
        BY <2>2 DEF Stop, Held
      <3>2. RequestFits(s)'
        BY <3>1 DEF IInv, RequestFits, Held, mirror
      <3>3. Secured(s)'
        BY <1>1, <1>2, <3>1, SecuredKept, QueueUntouched DEF IInv, RequestFits
      <3>4. ViewSees(s)'
        BY <1>2, <3>1 DEF IInv, RequestFits, ViewSees, Held, mirror
      <3> QED
        BY <3>2, <3>3, <3>4
    <2> QED
      BY <2>1, <2>2
  <1> QED
    BY <1>1, <1>3, <1>4 DEF IInv

LEMMA SignerFailsIInv ==
  ASSUME IInv, NEW r \in Requests, SignerFails(r)
  PROVE  IInv'
  <1>1. UNCHANGED <<db, mirror, writes, refresh, on>> /\ Stop({r}) /\ pc[r] # "idle"
    BY DEF SignerFails
  <1> QED
    BY <1>1, StopsOne DEF db

LEMMA InsertIInv ==
  ASSUME IInv, NEW r \in Requests, Insert(r)
  PROVE  IInv'
  <1>1. /\ pc[r] = "insert" /\ pc' = [pc EXCEPT ![r] = "learn"] /\ rev' = TRUE
        /\ UNCHANGED <<row, written, mirror, writes, refresh, on, ref, ahead, view>>
    BY DEF Insert
  <1>2. TypeOK'
    BY <1>1 DEF IInv, TypeOK, DatabaseOK, MirrorOK, WritesOK, RequestsOK, mirror, writes
  <1>3. ASSUME NEW h \in Gateways PROVE GatewayFits(h)' /\ RefreshSees(h)'
    <2>1. GatewayFits(h)'
      BY <1>1 DEF IInv, GatewayFits, mirror, writes
    <2>2. RefreshSees(h)'
      BY <1>1 DEF IInv, RefreshSees
    <2> QED
      BY <2>1, <2>2
  <1>4. ASSUME NEW s \in Requests PROVE RequestFits(s)' /\ Secured(s)' /\ ViewSees(s)'
    <2>1. RequestFits(s)'
      BY <1>1 DEF IInv, TypeOK, RequestsOK, RequestFits, mirror
    <2>2. Secured(s)'
      <3>1. CASE s = r
        <4>1. /\ kind[r] # "use" /\ pc'[r] = "learn"
              /\ on[r] \in Gateways /\ Carried(r, Len(queue[on[r]]))
          BY <1>1 DEF IInv, TypeOK, RequestsOK, RequestFits, Secured
        <4>2. Carried(r, Len(queue[on[r]]))'
          BY <1>1, <4>1, CarriedKept, QueueUntouched, QueueFacts DEF writes
        <4> QED
          BY <1>1, <3>1, <4>1, <4>2 DEF Secured
      <3>2. CASE s # r
        <4>1. UNCHANGED Held(s)
          BY <1>1, <3>2 DEF IInv, TypeOK, RequestsOK, Held
        <4> QED
          BY <1>1, <1>2, <4>1, SecuredKept, QueueUntouched DEF IInv, RequestFits
      <3> QED
        BY <3>1, <3>2
    <2>3. ViewSees(s)'
      BY <1>1 DEF IInv, TypeOK, RequestsOK, ViewSees, mirror
    <2> QED
      BY <2>1, <2>2, <2>3
  <1> QED
    BY <1>2, <1>3, <1>4 DEF IInv

LEMMA InsertFailsIInv ==
  ASSUME IInv, NEW r \in Requests, InsertFails(r)
  PROVE  IInv'
  <1>1. /\ UNCHANGED <<row, written, mirror, writes, refresh, on>> /\ Stop({r})
        /\ pc[r] # "idle" /\ rev' \in {rev, TRUE}
    BY DEF InsertFails
  <1> QED
    BY <1>1, StopsOne

(* A request that reaches its flush, after nothing was put.                *)
LEMMA FlushIInv ==
  ASSUME IInv, NEW r \in Requests, pc[r] # "idle", Flush(r, queue[on[r]]),
         UNCHANGED <<db, objs, last, mem, writes, refresh, on, ref>>,
         memRev' = memRev \/ (rev /\ memRev' = [memRev EXCEPT ![on[r]] = TRUE]),
         kind[r] # "use" => Carried(r, Len(queue[on[r]])),
         kind[r] = "revoke" => rev
  PROVE  IInv'
  <1>1. on[r] \in Gateways
    BY DEF IInv, RequestFits
  <1>2. \A h \in Gateways : QueueKept(h)
    BY QueueFacts DEF QueueKept, writes
  <1>3. TypeOK'
    <2>1. MirrorOK'
      <3>1. memRev' \in [Gateways -> BOOLEAN]
        BY DEF IInv, TypeOK, MirrorOK
      <3> QED
        BY <3>1 DEF IInv, TypeOK, MirrorOK
    <2>2. RequestsOK'
      BY <1>1, <1>2, FlushOK DEF IInv, TypeOK, WritesOK, RequestsOK, writes
    <2> QED
      BY <2>1, <2>2 DEF IInv, TypeOK, DatabaseOK, WritesOK, db, writes
  <1>4. ASSUME NEW h \in Gateways
        PROVE  (memRev'[h] => memRev[h] \/ rev) /\ (memRev[h] => memRev'[h])
    BY DEF IInv, TypeOK, MirrorOK
  <1>5. ASSUME NEW h \in Gateways PROVE GatewayFits(h)' /\ RefreshSees(h)'
    <2>1. GatewayFits(h)'
      BY <1>4 DEF IInv, GatewayFits, db, writes
    <2>2. RefreshSees(h)'
      BY DEF IInv, RefreshSees, db
    <2> QED
      BY <2>1, <2>2
  <1>6. pc'[r] = "flush" /\ view'[r] = {} /\ ahead'[r] = Len(queue[on[r]])
    BY DEF Flush, IInv, TypeOK, RequestsOK
  <1>7. ASSUME NEW s \in Requests, s # r PROVE UNCHANGED <<Held(s), view[s]>>
    BY <1>7 DEF Flush, IInv, TypeOK, RequestsOK, Held
  <1>8. ASSUME NEW s \in Requests PROVE RequestFits(s)' /\ Secured(s)' /\ ViewSees(s)'
    <2>1. CASE s = r
      <3>1. RequestFits(s)'
        BY <1>1, <1>6, <2>1 DEF RequestFits
      <3>2. kind[r] # "use" => Carried(r, ahead[r])'
        BY <1>1, <1>2, <1>6, CarriedKept, QueueFacts DEF db
      <3>3. Secured(s)'
        BY <1>6, <2>1, <3>2 DEF Secured, db
      <3>4. ViewSees(s)'
        BY <1>6, <2>1 DEF ViewSees
      <3> QED
        BY <3>1, <3>3, <3>4
    <2>2. CASE s # r
      <3>1. RequestFits(s)'
        BY <1>7, <2>2 DEF IInv, RequestFits, Held
      <3>2. Secured(s)'
        BY <1>2, <1>3, <1>7, <2>2, SecuredKept DEF IInv, RequestFits, db
      <3>3. ViewSees(s)'
        BY <1>4, <1>7, <2>2 DEF IInv, RequestFits, ViewSees, Held, db
      <3> QED
        BY <3>1, <3>2, <3>3
    <2> QED
      BY <2>1, <2>2
  <1> QED
    BY <1>3, <1>5, <1>8 DEF IInv

LEMMA LearnIInv ==
  ASSUME IInv, NEW r \in Requests, Learn(r)
  PROVE  IInv'
  <1>1. /\ kind[r] = "revoke" /\ rev /\ pc[r] # "idle"
        /\ Carried(r, Len(queue[on[r]]))
    BY DEF Learn, IInv, RequestFits, Secured
  <1> QED
    BY <1>1, FlushIInv DEF Learn

(* The step from ready to touch, of a request that saw no revocation.      *)
LEMMA EvaluateIInv ==
  ASSUME IInv, NEW r \in Requests, Evaluate(r)
  PROVE  IInv'
  <1>1. CASE Flush(r, queue[on[r]])
    BY <1>1, FlushIInv DEF Evaluate, mirror
  <1>2. CASE ~memRev[on[r]] /\ pc' = [pc EXCEPT ![r] = "touch"] /\ UNCHANGED <<ahead, view>>
    <2>1. /\ pc[r] = "ready" /\ kind[r] = "use" /\ pc' = [pc EXCEPT ![r] = "touch"]
          /\ UNCHANGED <<db, mirror, writes, refresh, on, ref, ahead, view>>
      BY <1>2 DEF Evaluate
    <2>2. TypeOK'
      BY <2>1 DEF IInv, TypeOK, DatabaseOK, MirrorOK, WritesOK, RequestsOK, db, mirror, writes
    <2>3. ASSUME NEW h \in Gateways PROVE GatewayFits(h)' /\ RefreshSees(h)'
      <3>1. GatewayFits(h)'
        BY <2>1 DEF IInv, GatewayFits, db, mirror, writes
      <3>2. RefreshSees(h)'
        BY <2>1 DEF IInv, RefreshSees, db
      <3> QED
        BY <3>1, <3>2
    <2>4. ASSUME NEW s \in Requests PROVE RequestFits(s)'
      BY <2>1 DEF IInv, TypeOK, RequestsOK, RequestFits, mirror
    <2>5. ASSUME NEW s \in Requests PROVE Secured(s)'
      <3>1. CASE s = r
        BY <2>1, <3>1 DEF Secured
      <3>2. CASE s # r
        <4>1. UNCHANGED Held(s)
          BY <2>1, <3>2 DEF IInv, TypeOK, RequestsOK, Held
        <4> QED
          BY <2>1, <2>2, <4>1, SecuredKept, QueueUntouched DEF IInv, RequestFits, db
      <3> QED
        BY <3>1, <3>2
    <2>6. view[r] \cap Revokers = {}
      BY <1>2, <2>1 DEF IInv, ViewSees
    <2>7. ASSUME NEW s \in Requests PROVE ViewSees(s)'
      BY <2>1, <2>6 DEF IInv, TypeOK, RequestsOK, ViewSees, Revokers, db, mirror
    <2> QED
      BY <2>2, <2>3, <2>4, <2>5, <2>7 DEF IInv
  <1> QED
    BY <1>1, <1>2 DEF Evaluate

LEMMA TouchLastSeenIInv ==
  ASSUME IInv, NEW r \in Requests, TouchLastSeen(r)
  PROVE  IInv'
  <1> DEFINE g == on[r]
  <1>1. /\ g \in Gateways /\ mem[g] \in Objects /\ mem[g] <= last[g] /\ kind[r] = "use"
        /\ pc[r] = "touch" /\ Put(g, mem[g]) /\ Flush(r, queue'[g])
        /\ UNCHANGED <<db, objs, last, memRev, sending, failed, refresh, on, ref>>
    BY DEF TouchLastSeen, IInv, TypeOK, MirrorOK, RequestFits
  <1>2. WritesOK' /\ \A h \in Gateways : QueueKept(h)
    BY <1>1, PutQueues
  <1>3. TypeOK'
    <2>1. MirrorOK'
      BY <1>1 DEF Put, IInv, TypeOK, MirrorOK
    <2>2. RequestsOK'
      BY <1>1, <1>2, FlushOK DEF IInv, TypeOK, RequestsOK
    <2> QED
      BY <1>1, <1>2, <2>1, <2>2 DEF IInv, TypeOK, DatabaseOK, db
  <1>4. ASSUME NEW h \in Gateways PROVE GatewayFits(h)' /\ RefreshSees(h)'
    <2>1. /\ \A i \in 1..Len(queue'[h]) : queue'[h][i] <= last[h]
          /\ sending[h] # NoValue => queue'[h] # <<>>
      BY <1>1, PutQueues
    <2>2. GatewayFits(h)'
      BY <1>1, <2>1 DEF IInv, GatewayFits, db
    <2>3. RefreshSees(h)'
      BY <1>1 DEF IInv, RefreshSees, db
    <2> QED
      BY <2>2, <2>3
  <1>5. pc'[r] = "flush" /\ view'[r] = {}
    BY <1>1 DEF Flush, IInv, TypeOK, RequestsOK
  <1>6. ASSUME NEW s \in Requests, s # r PROVE UNCHANGED <<Held(s), view[s]>>
    BY <1>1, <1>6 DEF Flush, IInv, TypeOK, RequestsOK, Held
  <1>7. ASSUME NEW s \in Requests PROVE RequestFits(s)' /\ Secured(s)' /\ ViewSees(s)'
    <2>1. CASE s = r
      BY <1>1, <1>5, <2>1 DEF RequestFits, Secured, ViewSees
    <2>2. CASE s # r
      <3>1. RequestFits(s)'
        BY <1>1, <1>6, <2>2 DEF IInv, RequestFits, Held
      <3>2. Secured(s)'
        BY <1>1, <1>2, <1>3, <1>6, <2>2, SecuredKept DEF IInv, RequestFits, db
      <3>3. ViewSees(s)'
        BY <1>1, <1>6, <2>2 DEF IInv, ViewSees, Held, db
      <3> QED
        BY <3>1, <3>2, <3>3
    <2> QED
      BY <2>1, <2>2
  <1> QED
    BY <1>3, <1>4, <1>7 DEF IInv

(* With no write left to await and no write failed, the change is stored.  *)
LEMMA AnswerIInv ==
  ASSUME IInv, NEW r \in Requests, Answer(r)
  PROVE  IInv'
  <1>1. /\ pc[r] = "flush" /\ ahead[r] = 0
        /\ pc' = [pc EXCEPT ![r] = IF failed[on[r]] THEN "error" ELSE "ok"]
        /\ UNCHANGED <<db, mirror, writes, refresh, on, ref, ahead, view>>
    BY DEF Answer
  <1>2. TypeOK'
    BY <1>1 DEF IInv, TypeOK, DatabaseOK, MirrorOK, WritesOK, RequestsOK, db, mirror, writes
  <1>3. ASSUME NEW h \in Gateways PROVE GatewayFits(h)' /\ RefreshSees(h)'
    <2>1. GatewayFits(h)'
      BY <1>1 DEF IInv, GatewayFits, db, mirror, writes
    <2>2. RefreshSees(h)'
      BY <1>1 DEF IInv, RefreshSees, db
    <2> QED
      BY <2>1, <2>2
  <1>4. pc'[r] \in {"ok", "error"} /\ (pc'[r] = "ok" => ~failed[on[r]])
    BY <1>1 DEF IInv, TypeOK, RequestsOK
  <1>5. kind[r] # "use" /\ ~failed[on[r]] => r \in written
    BY <1>1 DEF IInv, Secured, Carried
  <1>6. ASSUME NEW s \in Requests PROVE RequestFits(s)'
    BY <1>1 DEF IInv, TypeOK, RequestsOK, RequestFits, mirror
  <1>7. ASSUME NEW s \in Requests PROVE Secured(s)'
    <2>1. CASE s = r
      BY <1>1, <1>4, <1>5, <2>1 DEF IInv, Secured, db
    <2>2. CASE s # r
      <3>1. UNCHANGED Held(s)
        BY <1>1, <2>2 DEF IInv, TypeOK, RequestsOK, Held
      <3> QED
        BY <1>1, <1>2, <3>1, SecuredKept, QueueUntouched DEF IInv, RequestFits, db
    <2> QED
      BY <2>1, <2>2
  <1>8. ASSUME NEW s \in Requests PROVE ViewSees(s)'
    BY <1>1, <1>4 DEF IInv, TypeOK, RequestsOK, ViewSees, db, mirror
  <1> QED
    BY <1>2, <1>3, <1>6, <1>7, <1>8 DEF IInv

-----------------------------------------------------------------------------
(* The restart.                                                            *)

LEMMA RestartIInv ==
  ASSUME IInv, NEW g \in Gateways, Restart(g)
  PROVE  IInv'
  <1> DEFINE dead == {r \in Requests : on[r] = g /\ pc[r] # "ok"}
  <1>1. /\ last[g] + 1 \in Objects /\ last[g] \in Nat
        /\ last' = [last EXCEPT ![g] = last[g] + 1]
        /\ mem' = [mem EXCEPT ![g] = last[g] + 1]
        /\ objs' = [objs EXCEPT ![g][last[g] + 1] = row']
    BY ObjectNumbers DEF Restart, IInv, TypeOK, MirrorOK
  <1>2. /\ memRev' = [memRev EXCEPT ![g] = rev]
        /\ queue' = [queue EXCEPT ![g] = <<>>]
        /\ sending' = [sending EXCEPT ![g] = NoValue]
        /\ failed' = [failed EXCEPT ![g] = FALSE]
        /\ refresh' = [refresh EXCEPT ![g] = NotRefreshing]
        /\ Stop(dead) /\ UNCHANGED <<rev, on>>
    BY DEF Restart
  <1> HIDE DEF dead
  <1>3. row' \in Values /\ written' \in Values /\ written \subseteq written'
    BY DEF Restart, Store, IInv, TypeOK, DatabaseOK, WritesOK, Values
  <1>4. ASSUME NEW h \in Gateways, h # g
        PROVE  /\ last'[h] = last[h] /\ objs'[h] = objs[h] /\ memRev'[h] = memRev[h]
               /\ queue'[h] = queue[h] /\ sending'[h] = sending[h] /\ failed'[h] = failed[h]
               /\ refresh'[h] = refresh[h]
    BY <1>1, <1>2, <1>4 DEF IInv, TypeOK, MirrorOK, WritesOK
  <1>5. /\ queue'[g] = <<>> /\ sending'[g] = NoValue /\ refresh'[g] = NotRefreshing
        /\ memRev'[g] = rev
    BY <1>2 DEF IInv, TypeOK, MirrorOK, WritesOK
  <1>6. TypeOK'
    <2>1. objs' \in [Gateways -> [Objects -> Values]]
      BY <1>1, <1>3 DEF IInv, TypeOK, MirrorOK
    <2>2. last' \in [Gateways -> Objects] /\ mem' \in [Gateways -> Objects]
      BY <1>1 DEF IInv, TypeOK, MirrorOK
    <2>3. \A h \in Gateways : mem'[h] <= last'[h]
      BY <1>1 DEF IInv, TypeOK, MirrorOK
    <2>4. memRev' \in [Gateways -> BOOLEAN]
      BY <1>2 DEF IInv, TypeOK, DatabaseOK, MirrorOK
    <2>5. WritesOK'
      BY <1>2 DEF IInv, TypeOK, WritesOK
    <2>6. ASSUME NEW s \in Requests, pc[s] = "flush", s \notin dead
          PROVE  queue'[on[s]] = queue[on[s]]
      BY <1>4, <2>6 DEF dead, IInv, RequestFits
    <2>7. RequestsOK'
      BY <1>2, <2>6, StopOK DEF IInv, TypeOK
    <2>8. refresh' \in [Gateways -> Refreshes]
      BY <1>2, NotRefreshingOK DEF IInv, TypeOK
    <2> QED
      BY <1>2, <1>3, <2>1, <2>2, <2>3, <2>4, <2>5, <2>7, <2>8
      DEF IInv, TypeOK, DatabaseOK, MirrorOK
  <1>7. ASSUME NEW h \in Gateways PROVE GatewayFits(h)' /\ RefreshSees(h)'
    <2>1. GatewayFits(h)'
      <3>1. CASE h = g
        <4>1. 1..Len(queue'[g]) = {}
          BY <1>5
        <4>2. refresh'[g].rev = NoValue /\ NoValue # TRUE
          BY <1>5, NotRefreshingFields, MirrorAssumption
        <4> QED
          BY <1>2, <1>5, <3>1, <4>1, <4>2 DEF GatewayFits
      <3>2. CASE h # g
        BY <1>2, <1>4, <3>2 DEF IInv, GatewayFits
      <3> QED
        BY <3>1, <3>2
    <2>2. RefreshSees(h)'
      BY <1>2, <1>4, <1>5, NotRefreshingFields DEF IInv, RefreshSees
    <2> QED
      BY <2>1, <2>2
  <1>8. ASSUME NEW s \in Requests, s \in dead, pc[s] # "idle"
        PROVE  RequestFits(s)' /\ Secured(s)' /\ ViewSees(s)'
    BY <1>2, <1>8, StoppedFits
  <1>9. ASSUME NEW s \in Requests, s \notin dead
        PROVE  UNCHANGED <<Held(s), view[s]>> /\ (pc[s] = "ok" \/ on[s] # g)
    BY <1>2, <1>9 DEF Stop, Held, dead
  <1>10. ASSUME NEW s \in Requests, s \notin dead
         PROVE  RequestFits(s)' /\ Secured(s)' /\ ViewSees(s)'
    <2>1. CASE pc[s] = "ok" \/ pc[s] = "idle"
      BY <1>2, <1>3, <1>9, <1>10, <2>1
      DEF IInv, RequestFits, Secured, ViewSees, Held
    <2>2. CASE pc[s] \notin {"ok", "idle"}
      <3>1. on[s] \in Gateways /\ on[s] # g
        BY <1>9, <1>10, <2>2 DEF IInv, RequestFits
      <3>2. RequestFits(s)'
        BY <1>4, <1>9, <1>10, <3>1 DEF IInv, RequestFits, Held
      <3>3. QueueKept(on[s])
        BY <1>4, <3>1, QueueFacts DEF QueueKept
      <3>4. Secured(s)'
        BY <1>2, <1>3, <1>6, <1>9, <1>10, <3>3, SecuredKept
      <3>5. ViewSees(s)'
        <4>1. /\ on'[s] = on[s] /\ pc'[s] = pc[s] /\ view'[s] = view[s] /\ rev' = rev
              /\ refresh'[on[s]] = refresh[on[s]] /\ memRev'[on[s]] = memRev[on[s]]
          BY <1>2, <1>4, <1>9, <1>10, <3>1 DEF Held
        <4> QED
          BY <4>1 DEF IInv, ViewSees
      <3> QED
        BY <3>2, <3>4, <3>5
    <2> QED
      BY <2>1, <2>2
  <1>11. ASSUME NEW s \in Requests, pc[s] = "idle" PROVE s \notin dead
    BY <1>11, MirrorAssumption DEF dead, IInv, RequestFits
  <1> QED
    BY <1>6, <1>7, <1>8, <1>10, <1>11 DEF IInv

-----------------------------------------------------------------------------
(* The specification.                                                      *)

LEMMA InitIInv == Init => IInv
  <1> SUFFICES ASSUME Init PROVE IInv
    OBVIOUS
  <1>1. TypeOK
    <2>1. DatabaseOK
      BY DEF Init, DatabaseOK, Values
    <2>2. queue \in [Gateways -> Seq(Objects)] /\ sending \in [Gateways -> Values \cup {NoValue}]
      BY DEF Init
    <2>3. failed \in [Gateways -> BOOLEAN]
      BY DEF Init
    <2>4. MirrorOK /\ RequestsOK
      BY ObjectNumbers DEF Init, MirrorOK, RequestsOK, Values
    <2>5. refresh \in [Gateways -> Refreshes]
      BY NotRefreshingOK DEF Init
    <2> QED
      BY <2>1, <2>2, <2>3, <2>4, <2>5 DEF TypeOK, WritesOK
  <1>2. ASSUME NEW g \in Gateways PROVE GatewayFits(g) /\ RefreshSees(g)
    <2>1. /\ queue[g] = <<>> /\ sending[g] = NoValue /\ refresh[g] = NotRefreshing
          /\ ~memRev[g]
      BY DEF Init
    <2>2. refresh[g].rev = NoValue /\ NoValue # TRUE /\ refresh[g].acked = {}
      BY <2>1, NotRefreshingFields, MirrorAssumption
    <2>3. 1..Len(queue[g]) = {}
      BY <2>1
    <2> QED
      BY <2>1, <2>2, <2>3 DEF GatewayFits, RefreshSees
  <1>3. ASSUME NEW r \in Requests PROVE RequestFits(r) /\ Secured(r) /\ ViewSees(r)
    <2>1. pc[r] = "idle" /\ on[r] = NoGateway /\ view[r] = {}
      BY DEF Init
    <2> QED
      BY <2>1 DEF RequestFits, Secured, ViewSees
  <1> QED
    BY <1>1, <1>2, <1>3 DEF IInv

LEMMA StutterIInv == IInv /\ UNCHANGED vars => IInv'
  <1> SUFFICES ASSUME IInv, UNCHANGED vars PROVE IInv'
    OBVIOUS
  <1>1. TypeOK'
    BY DEF vars, db, mirror, writes, IInv, TypeOK, DatabaseOK, MirrorOK, WritesOK, RequestsOK
  <1>2. ASSUME NEW g \in Gateways PROVE GatewayFits(g)' /\ RefreshSees(g)'
    BY DEF vars, db, mirror, writes, IInv, GatewayFits, RefreshSees
  <1>3. ASSUME NEW r \in Requests PROVE RequestFits(r)' /\ Secured(r)' /\ ViewSees(r)'
    BY DEF vars, db, mirror, writes, IInv, RequestFits, Secured, Carried, Queued, ViewSees
  <1> QED
    BY <1>1, <1>2, <1>3 DEF IInv

LEMMA NextIInv == IInv /\ [Next]_vars => IInv'
  <1> SUFFICES ASSUME IInv, [Next]_vars PROVE IInv'
    OBVIOUS
  <1>1. ASSUME NEW r \in Requests, NEW g \in Gateways, Arrive(r, g) PROVE IInv'
    BY <1>1, ArriveIInv
  <1>2. ASSUME NEW r \in Requests, RequestStep(r) PROVE IInv'
    BY <1>2, ChangeStatusIInv, SignedIInv, InsertIInv, LearnIInv, EvaluateIInv,
       TouchLastSeenIInv, AnswerIInv DEF RequestStep
  <1>3. ASSUME NEW r \in Requests, SignerFails(r) \/ InsertFails(r) PROVE IInv'
    BY <1>3, SignerFailsIInv, InsertFailsIInv
  <1>4. ASSUME NEW g \in Gateways, GatewayStep(g) PROVE IInv'
    BY <1>4, RefreshFlushedIInv, DumpPassportsIInv, DumpRevocationsIInv, InstallIInv,
       SerializeIInv, WriteIInv DEF GatewayStep
  <1>5. ASSUME NEW g \in Gateways, RefreshFails(g) \/ WriteFails(g) \/ Restart(g) PROVE IInv'
    BY <1>5, RefreshFailsIInv, WriteFailsIInv, RestartIInv
  <1>6. CASE UNCHANGED vars
    BY <1>6, StutterIInv
  <1> QED
    BY <1>1, <1>2, <1>3, <1>4, <1>5, <1>6 DEF Next

(* What the mirror, its queue and its refreshes keep true at every moment, *)
(* whatever objects, failures and restarts come between.                   *)
THEOREM Inductive == Spec => []IInv
  BY InitIInv, NextIInv, PTL DEF Spec

(* A status change that was acknowledged is in the database, and so is an  *)
(* acknowledged revocation record.                                         *)
THEOREM AcknowledgedIsStored == Spec => []AckedWasWritten
  <1>1. IInv => AckedWasWritten
    BY DEF IInv, Secured, Acked, AckedWasWritten
  <1> QED
    BY <1>1, Inductive, PTL

(* A request whose refresh began after a revocation was acknowledged never *)
(* goes on as if the passport were alive.                                  *)
THEOREM FreshRefreshIsEnough == Spec => []FreshRefreshSeesRevoked
  <1>1. IInv => FreshRefreshSeesRevoked
    BY DEF IInv, ViewSees, Revokers, TypeOK, RequestsOK, FreshRefreshSeesRevoked
  <1> QED
    BY <1>1, Inductive, PTL

=============================================================================
