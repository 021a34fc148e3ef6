------------------------------ MODULE MCAuthorize ------------------------------
(* Two agents, chains of up to three tokens, two requests for the same     *)
(* payment to two destinations, one execution of either, and gateways      *)
(* whose clocks are further apart than execute() tolerates.                *)
EXTENDS Authorize, Intent, Limits, TLC

CONSTANTS p1, p2, j1, j2, j3, i1, i2, r1, r2

Pay == <<"payments", ".", "charge">>
Read == <<"data", ".", "read">>
Invoice == <<"invoice">>
Shop == <<"shop">>
Bank == <<"bank">>

MCPatterns == {<<Star>>, <<"payments", ".", Star>>, Shop, Bank}
MCValues == {Pay, Read, Invoice, Shop, Bank}
MCCharacters == UNION {ToSet(t) : t \in MCPatterns \cup MCValues}

Unsaid == [field \in Fields |-> Absent]
Payments == [Unsaid EXCEPT !.scope = {<<"payments", ".", Star>>}, !.resources = {<<Star>>}]
(* A root that is narrow in every way, and children: one that says nothing *)
(* at all, one that leaves out a target and half of the time, and two that *)
(* may be refused: the root's own, and one that names no targets.          *)
MCConstraints ==
  {[Payments EXCEPT !.allowed_targets = {Shop, Bank}, !.max_spend_cents = 1, !.not_after = 2],
   Unsaid,
   [Unsaid EXCEPT !.allowed_targets = {Shop}, !.not_after = 1],
   [Unsaid EXCEPT !.allowed_targets = {}]}

Payment(to) ==
  [sub |-> p1, action |-> Pay, resource |-> Invoice, destination |-> to, amount_cents |-> 1]
MCIntents == {i1, i2}
MCIntent == (i1 :> Payment(Shop)) @@ (i2 :> Payment(Bank))

Allowing == <<Seed(1, "allow", {<<Star>>}, 0, NoCondition)>>
MCRules == {[policies |-> p, ceiling |-> 85, stepup |-> 30] : p \in {Allowing, seedPolicies}}

(* One revocation, suspension or lost key at a time, before the last       *)
(* moment; the key is the payer's.                                         *)
OneOutage ==
  LET outages == Cardinality(revoked) + Cardinality(dead) + Cardinality(Passports \ usable)
                   + Cardinality(Kids \ keys[p1])
  IN  outages + now <= Horizon /\ keys[p2] = Kids

(* Registrations and requests: three tokens and no request of them, a chain *)
(* of two and one request, or one token and two requests.                  *)
ThreeCalls ==
  Cardinality(Registered) + Cardinality({r \in Requests : asked[r].pc # "idle"}) <= 3

(* Neither the jtis nor the requests are told apart.                       *)
Twins == Permutations(Jtis) \cup Permutations(Requests)

-----------------------------------------------------------------------------
(* The algorithms, over short texts, few policies and round numbers.       *)

Texts(characters, n) == UNION {[1..k -> characters] : k \in 0..n}

(* globMatch, regular expression or not, is "some text for every *": for   *)
(* any text of one line, and for no other text does it match more.         *)
ASSUME GlobIsText ==
  \A p \in Texts({"a", LineSeparator, Star}, 3), v \in Texts({"a", LineSeparator}, 3) :
    /\ globMatch(p, v) => Stands(p, v)
    /\ OneLine(v) /\ Stands(p, v) => globMatch(p, v)

(* A pattern that globSubset accepts under another matches no more.        *)
ASSUME SubsetIsSoundHere == SubsetIsSound(Texts({"a", "b", Star}, 3), Texts({"a", "b"}, 4))

(* Policies as they are made, and as a body changes them.                  *)
Bodies ==
  [effect : ToSet(Effects), actions : {{}, {Pay}, {<<"payments", ".", Star>>}},
   resources : {{<<Star>>}}]
Changes == {[priority |-> 1], [condition |-> [max_spend_cents |-> 1]], [actions |-> {<<Star>>}]}
Policies ==
  LET made == {newPolicy(1, b) : b \in Bodies}
      changed == {updatePolicy(p, c) : p \in made, c \in Changes}
  IN  {p \in made \cup changed : validatePolicyBody(p)}

ASSUME DenyWinsHere ==
  \A p, q, s \in Policies, cents \in {1, 2} :
    DenyWins(<<p, q, s>>, [action |-> Pay, resource |-> Invoice,
                           context |-> [spend_cents |-> cents, depth |-> 0]], 0)

ASSUME ConflictsAreRealHere == \A p, q \in Policies : ConflictsAreReal(<<p, q>>, MCValues)

ASSUME ScoreIsMonotoneHere ==
  ScoreIsMonotone({Pay, Read, <<"admin", ".", "x">>, <<"code", ".", "exec">>, Shop},
                  {0, 49, 50, 100, 2999, 3000, 5000}, 0..MAX_DEPTH)

(* Buckets, the cache and the settings.                                    *)
Rising(s) == \A i \in 1..Len(s) - 1 : s[i] <= s[i + 1]
ASSUME LessThanTwoBucketsHere == LessThanTwoBuckets({t \in Texts(0..4, 6) : Rising(t)}, 2)

ASSUME SeenIsRecentHere ==
  SeenIsRecent({calls \in Texts([op : {"mark", "look"}, key : {"a", "b", "c"}, now : 0..2], 4) :
                  Rising([i \in DOMAIN calls |-> calls[i].now])}, {"a", "b", "c"})

ASSUME StepUpIsBelowCeilingHere == StepUpIsBelowCeiling({-1, 0, 1, 2, 30, 85, 99, 100, 101})

Thresholds == {Unset, -1, 0, 30, 60, 101}
RiskRequests == Texts([risk_ceiling : Thresholds, risk_stepup : Thresholds], 2)
ASSUME SavedIsOrderedHere == SavedIsOrdered(RiskRequests)

(* Intents: bodies with repeated keys, resources, and requests that differ *)
(* in one field each.                                                      *)
Holding(values) ==
  {Arr(<<v>>) : v \in values} \cup {Obj(m) : m \in Texts({<<"a">>, <<"b">>} \X values, 2)}
Shallow == {Num(1)} \cup Holding({Num(1)})
ASSUME DuplicatesAreFoundHere == DuplicatesAreFound(Holding(Shallow))

ASSUME ResourcesAreFlatHere == ResourcesAreFlat(Texts({"a", "/", ".", "\\"}, 5))

Asking(params, resource, amount) ==
  [passport_id |-> Str(<<"p">>), action |-> Str(<<"e", "'">>), resource |-> Str(resource),
   params |-> params, amount_cents |-> amount, destination |-> Null, nonce |-> Str(<<"n">>),
   aud |-> Null]
Asked ==
  {Asking(params, resource, amount) :
     params \in {Null, Num(1)} \cup {Obj(m) : m \in
       Texts({<<"E">>, <<"e", "'">>, <<"b">>} \X {Num(1), Str(<<"e", "'">>), Str(<<"hidden">>)}, 2)},
     resource \in {<<"a">>, <<"a", "/">>, <<"/">>, <<".", ".">>},
     amount \in {Null, Num(0), Num(1), Num(-1), Num(MaxAmount + 1), Str(<<"1">>)}}
ASSUME NormalizesOnceHere == NormalizesOnce(Asked)

Kept == {i \in Asked : canonicalIntent(i) # Bad /\ i.resource # Str(<<"a", "/">>)}
ASSUME HashTellsApartHere ==
  HashTellsApart({i \in Kept : i.params.kind = "obj" => Len(i.params.members) <= 1})

ASSUME SeedsAreValid == \A i \in DOMAIN seedPolicies : validatePolicyBody(seedPolicies[i])

-----------------------------------------------------------------------------
(* What the code does that its documents do not say.                       *)

(* A first payment scores 70, past the step-up band and below the ceiling, *)
(* and is allowed; the same payment again scores 60 and needs an approval. *)
ASSUME RepeatStepsUp ==
  LET rules == [policies |-> Allowing, ceiling |-> 85, stepup |-> 30] IN
  /\ Decision(i1, 0, rules, FALSE, 720) = "allow"
  /\ Decision(i1, 0, rules, TRUE, 720) = "step_up"

(* "iat <= now <= exp (with clock skew tolerance)": execute() tolerates a  *)
(* credential whose iat is still to come, verifyOffline does not.          *)
ASSUME SkewIsNotVerified ==
  \A kid \in Kids :
    LET c == ActionToken(r1, i1, NoJti, kid, FALSE, Skew) IN
    c.iat - Skew <= 0 /\ ~verifyOffline(c, 0) /\ verifyOffline(c, c.iat)

(* "risk_stepup must be below risk_ceiling": a pair that was refused is in *)
(* force in memory all the same, and is saved when the organization is     *)
(* locked; one given alone is not compared with the default of the other.  *)
ASSUME RefusedThresholdsStay ==
  \E r \in RiskRequests : ~Ordered(SaveOrg(FoldLeft(PutRisk, NewThresholds, r)).saved)
ASSUME LoneThresholdPasses ==
  LET org == PutRisk(NewThresholds, [risk_ceiling |-> Unset, risk_stepup |-> 99]) IN
  org.saved.risk_stepup > RiskCeilingDefault(Unset)

(* "child <= parent (glob)": a * stands for no text with a line separator, *)
(* but a pattern that names one passes under it.                           *)
ASSUME SeparatorIsNotCovered ==
  LET parent == <<"a", Star>>
      child == <<"a", LineSeparator, Star>>
      v == <<"a", LineSeparator>>
  IN  globSubset(parent, child) /\ globMatch(child, v) /\ ~globMatch(parent, v)

(* "Detect conflicting policies: same action/resource overlap with         *)
(* different effects" misses two patterns that overlap where neither is    *)
(* matched by the other.                                                   *)
ASSUME CrossedConflictIsMissed ==
  LET p == Seed(1, "allow", {<<"payments", ".", Star>>}, 0, NoCondition)
      q == Seed(2, "deny", {<<Star, "charge">>}, 0, NoCondition)
  IN  /\ anyMatch(p.actions, Pay) /\ anyMatch(q.actions, Pay)
      /\ detectConflicts(<<p, q>>) = {}

(* A time window that runs past midnight is open at no time.               *)
ASSUME NightIsNever == \A minute \in 0..1439 : ~inWindow([start |-> 1320, end |-> 360], minute)

(* "Detect duplicate JSON object keys in a raw body string": not in a body *)
(* that is nested deeper than the search goes.                             *)
ASSUME DeepDuplicatesAreMissed ==
  \E v \in Shallow :
    LET body == Obj(<<<<<<"a">>, Arr(<<v>>)>>, <<<<"a">>, Num(1)>>>>) IN
    Repeats(body) /\ ~hasDuplicateKeys(body)

(* A parameter named "signature" is part of the intent and not of its      *)
(* hash.                                                                   *)
ASSUME SignatureIsNotHashed ==
  LET Signing(n) == canonicalIntent(
        Asking(Obj(<<<<<<"signature">>, Num(n)>>>>), <<"a">>, Null))
  IN  Signing(0) # Signing(1) /\ intentHash(Signing(0)) = intentHash(Signing(1))

=============================================================================
