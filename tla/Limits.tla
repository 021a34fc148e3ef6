-------------------------------- MODULE Limits --------------------------------
(***************************************************************************)
(* What a gateway keeps in memory: the buckets of the rate limiter, the    *)
(* cache of (passport, resource) pairs that were asked about before, the   *)
(* settings it reads when it starts, and an organization's own thresholds. *)
(* Each is an algorithm over the calls that were made, one after another,  *)
(* at times that do not decrease.                                          *)
(***************************************************************************)
EXTENDS Integers, SequencesExt

CONSTANTS
  Minute,       \* the length of a bucket
  SEEN_TTL_MS,  \* how long a pair counts as seen
  SEEN_MAX,     \* how many pairs are kept
  Unset         \* a threshold that was never given

ASSUME MinuteAssumption == Minute \in Nat

-----------------------------------------------------------------------------
(* rateLimit, for one address and route: the first call after a bucket has *)
(* run out starts the next, and every call counts, refused or not.         *)

NoBucket == [count |-> 0, reset |-> -1]

Bucket(b, now) ==
  LET current == IF now > b.reset THEN [count |-> 0, reset |-> now + Minute] ELSE b IN
  [current EXCEPT !.count = current.count + 1]

(* The bucket after each of the calls, given by their times, and the calls *)
(* that limitPerMin lets through.                                          *)
Buckets(times) ==
  LET bucket[i \in 0..Len(times)] ==
        IF i = 0 THEN NoBucket ELSE Bucket(bucket[i - 1], times[i])
  IN  bucket

Admitted(times, limitPerMin) == {i \in DOMAIN times : Buckets(times)[i].count <= limitPerMin}

AdmittedWithin(times, limitPerMin, from) ==
  {i \in Admitted(times, limitPerMin) : times[i] \in from..from + Minute}

-----------------------------------------------------------------------------
(* The cache: pairs with the times they were marked, in the order of a     *)
(* JavaScript Map.                                                         *)

Without(seen, key) == SelectSeq(seen, LAMBDA entry : entry.key # key)

markSeen(seen, key, now) ==
  LET marked == Append(Without(seen, key), [key |-> key, at |-> now]) IN
  IF Len(marked) > SEEN_MAX THEN Tail(marked) ELSE marked

isSeen(seen, key, now) ==
  \E entry \in ToSet(seen) : entry.key = key /\ now - entry.at <= SEEN_TTL_MS

(* A look at a pair whose time is up takes it out.                         *)
Looked(seen, key, now) == IF isSeen(seen, key, now) THEN seen ELSE Without(seen, key)

(* The cache after a sequence of calls.                                    *)
Cache(calls) ==
  FoldLeft(LAMBDA seen, c : IF c.op = "mark" THEN markSeen(seen, c.key, c.now)
                            ELSE Looked(seen, c.key, c.now), <<>>, calls)

-----------------------------------------------------------------------------
boundedIntEnv(n, fallback, min, max) == IF n \in min..max THEN n ELSE fallback

RiskCeilingDefault(n) == boundedIntEnv(n, 85, 1, 100)
RiskStepupDefault(n, ceiling) ==
  LET stepup == boundedIntEnv(n, 30, 0, 99) IN IF stepup < ceiling THEN stepup ELSE ceiling - 1

-----------------------------------------------------------------------------
(* The thresholds of an organization, in the record that the store holds   *)
(* in memory and in the record that it saved.                              *)

Percent == 0..100
NewThresholds ==
  LET none == [risk_ceiling |-> Unset, risk_stepup |-> Unset] IN [mem |-> none, saved |-> none]

(* PUT /v1/orgs/:id/risk.  A threshold that is given is checked and put in *)
(* the record before the other is looked at, and what is refused then is   *)
(* not taken back.  One that is not set is below and above everything.     *)
PutRisk(org, asked) ==
  LET set(field, record) ==
        IF asked[field] \in Percent THEN [record EXCEPT ![field] = asked[field]] ELSE record
      fine(field) == asked[field] \in Percent \cup {Unset}
      ceiling == set("risk_ceiling", org.mem)
      both == set("risk_stepup", ceiling)
  IN  IF ~fine("risk_ceiling") THEN org
      ELSE IF ~fine("risk_stepup") THEN [org EXCEPT !.mem = ceiling]
      ELSE IF Unset \in {both.risk_ceiling, both.risk_stepup} \/ both.risk_stepup < both.risk_ceiling
           THEN [mem |-> both, saved |-> both]
           ELSE [org EXCEPT !.mem = both]

(* What locks or unlocks the organization saves the record as it is.       *)
SaveOrg(org) == [org EXCEPT !.saved = org.mem]

-----------------------------------------------------------------------------
(* What must hold of them, for calls that a model lists.                   *)

(* However calls are timed, a minute admits less than two buckets of them  *)
(* (the call that started the first bucket is outside, or the second has   *)
(* not started), and a minute across two buckets admits one call less.     *)
LessThanTwoBuckets(traffic, limit) ==
  /\ \A times \in traffic, from \in 0..Minute * 3 :
       Cardinality(AdmittedWithin(times, limit, from)) < 2 * limit
  /\ \E times \in traffic, from \in 0..Minute * 3 :
       Cardinality(AdmittedWithin(times, limit, from)) = 2 * limit - 1

(* A pair is seen if and only if it was marked recently and fewer than     *)
(* SEEN_MAX other pairs were marked since.                                 *)
SeenIsRecent(histories, keys) ==
  \A calls \in histories, key \in keys :
    LET now == IF calls = <<>> THEN 0 ELSE Last(calls).now
        marks == {i \in DOMAIN calls : calls[i].op = "mark"}
    IN  isSeen(Cache(calls), key, now) <=>
          \E i \in marks :
            /\ calls[i].key = key /\ now - calls[i].now <= SEEN_TTL_MS
            /\ Cardinality({calls[k].key : k \in {k \in marks : k > i}} \ {key}) < SEEN_MAX

(* Whatever the environment says, the step-up band of an organization with *)
(* no settings of its own lies below its ceiling.                          *)
StepUpIsBelowCeiling(numbers) ==
  \A c, s \in numbers : RiskStepupDefault(s, RiskCeilingDefault(c)) < RiskCeilingDefault(c)

Ordered(record) ==
  Unset \notin {record.risk_ceiling, record.risk_stepup} => record.risk_stepup < record.risk_ceiling

(* "risk_stepup must be below risk_ceiling": whatever was asked for, and   *)
(* refused, before, the requests to change them save no other pair.        *)
SavedIsOrdered(requests) ==
  \A r \in requests : Ordered(FoldLeft(PutRisk, NewThresholds, r).saved)

=============================================================================
