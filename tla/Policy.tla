--------------------------------- MODULE Policy ---------------------------------
(***************************************************************************)
(* The policy engine and the risk score: what authorize() computes from    *)
(* the policies of an organization, a request and what was seen before.    *)
(*                                                                         *)
(* An action, a resource or a tool is a sequence of the parts that         *)
(* patterns tell apart, such as <<"payments", ".", "charge">>.  A policy's *)
(* condition is a record that has only the keys it was given, and times of *)
(* day are minutes since midnight, UTC.                                    *)
(***************************************************************************)
EXTENDS Glob, FiniteSetsExt

Effects == <<"deny", "require_approval", "allow">>

-----------------------------------------------------------------------------
(* Conditions.  All that are given must hold.                              *)

(* Both ends belong to the window.  One that runs past midnight is never   *)
(* open.                                                                   *)
inWindow(window, minute) == window.start <= minute /\ minute <= window.end

(* The keys that list what they accept, and what of the request they read. *)
(* An empty list is no condition.                                          *)
OneOf == [environments |-> "environment", blueprint_ids |-> "blueprint_id",
          agent_ids |-> "passport_id", audiences |-> "aud"]

conditionMatches(cond, ctx, minute) ==
  LET holds(key, test) == key \in DOMAIN cond => test IN
  /\ holds("time_window", inWindow(cond.time_window, minute))
  /\ holds("max_spend_cents", ctx.spend_cents <= cond.max_spend_cents)
  /\ holds("min_spend_cents", ctx.spend_cents >= cond.min_spend_cents)
  /\ holds("max_depth", ctx.depth <= cond.max_depth)
  /\ holds("min_depth", ctx.depth >= cond.min_depth)
  /\ \A key \in DOMAIN OneOf :
       holds(key, cond[key] = {} \/ ctx[OneOf[key]] \in cond[key])
  /\ holds("tools", cond.tools = {} \/ anyMatch(cond.tools, ctx.tool))

-----------------------------------------------------------------------------
(* evaluate(): of the policies that match, the highest priority first and  *)
(* the older first among equals, the first that denies, else the first     *)
(* that requires an approval, else the first that allows.                  *)

matches(p, req, minute) ==
  /\ anyMatch(p.actions, req.action)
  /\ anyMatch(p.resources, req.resource)
  /\ conditionMatches(p.condition, req.context, minute)

Verdict(provisional, id) == [provisional |-> provisional, policy_id |-> id]
DefaultDeny == Verdict("deny", 0)

Matching(policies, effect, req, minute) ==
  {i \in DOMAIN policies : policies[i].effect = effect /\ matches(policies[i], req, minute)}

Before(policies, i, j) ==
  \/ policies[i].priority > policies[j].priority
  \/ policies[i].priority = policies[j].priority /\ i <= j

evaluate(policies, req, minute) ==
  LET matched(effect) == Matching(policies, effect, req, minute)
      first(effect) ==
        CHOOSE i \in matched(effect) : \A j \in matched(effect) : Before(policies, i, j)
      found == SelectInSeq(Effects, LAMBDA effect : matched(effect) # {})
  IN  IF found = 0 THEN DefaultDeny
      ELSE Verdict(Effects[found], policies[first(Effects[found])].id)

simulate(policies, req, minute) ==
  CASE evaluate(policies, req, minute).provisional = "allow"            -> "ALLOW"
    [] evaluate(policies, req, minute).provisional = "require_approval" -> "STEP-UP"
    [] OTHER                                                            -> "DENY"

(* Two policies of one priority and different effects, each with a pattern *)
(* that matches a pattern of the other, as if it were a value.             *)
detectConflicts(policies) ==
  LET overlap(xs, ys) == \E x \in xs, y \in ys : globMatch(x, y) \/ globMatch(y, x) IN
  {pair \in (DOMAIN policies) \X (DOMAIN policies) :
     LET p == policies[pair[1]]  q == policies[pair[2]] IN
     /\ pair[1] < pair[2]
     /\ p.effect # q.effect
     /\ p.priority = q.priority
     /\ overlap(p.actions, q.actions)
     /\ overlap(p.resources, q.resources)}

MaxPriority == 1000000
MaxPatterns == 256

validatePolicyBody(p) ==
  /\ p.effect \in ToSet(Effects)
  /\ \A ps \in {p.actions, p.resources} :
       Cardinality(ps) <= MaxPatterns /\ <<>> \notin ps
  /\ p.priority \in -MaxPriority..MaxPriority
  /\ "min_approvals" \in DOMAIN p.condition => p.condition.min_approvals \in 1..32

(* A policy made of a body, which may leave out some of it, and one that a *)
(* body changes.  Both are kept only if they are valid.                    *)
NoCondition == <<>>

newPolicy(id, body) ==
  LET given(field, default) == IF field \in DOMAIN body THEN body[field] ELSE default IN
  [id |-> id, effect |-> body.effect, actions |-> body.actions, resources |-> body.resources,
   condition |-> given("condition", NoCondition), priority |-> given("priority", 0),
   version |-> 1]

updatePolicy(cur, body) ==
  [field \in DOMAIN cur |->
     CASE field = "id"                                      -> cur.id
       [] field = "version"                                 -> cur.version + 1
       [] field \in DOMAIN body \ {"id", "version"}         -> body[field]
       [] OTHER                                             -> cur[field]]

(* The policies of a new organization.                                     *)
Seed(id, effect, actions, priority, condition) ==
  [id |-> id, effect |-> effect, actions |-> actions, resources |-> {<<Star>>},
   priority |-> priority, condition |-> condition, version |-> 1]

seedPolicies ==
  << Seed(1, "allow", {<<"data", ".", "read">>, <<"search", ".", Star>>, <<"browser", ".", "read">>},
          10, NoCondition),
     Seed(2, "allow", {<<"data", ".", "write">>, <<"browser", ".", "click">>},
          10, [max_spend_cents |-> 0]),
     Seed(3, "require_approval", {<<"payments", ".", Star>>}, 50, NoCondition),
     Seed(4, "deny", {<<"admin", ".", Star>>}, 100, NoCondition) >>

-----------------------------------------------------------------------------
(* The risk score.                                                         *)

Clamp(n) == Min({100, Max({0, n})})

(* The first family that the action begins with.                           *)
Base ==
  << <<<<"admin", ".">>, 80>>, <<<<"payments", ".">>, 60>>, <<<<"code", ".", "exec">>, 50>>,
     <<<<"external", ".", "send">>, 40>>, <<<<"data", ".", "write">>, 25>>,
     <<<<"browser", ".">>, 20>>, <<<<"data", ".", "read">>, 5>>, <<<<"search", ".">>, 5>> >>

baseFor(action) ==
  LET i == SelectInSeq(Base, LAMBDA b : IsPrefix(b[1], action)) IN
  IF i = 0 THEN 15 ELSE Base[i][2]

(* The other expressions fit anywhere in the action.                       *)
Mentions(action, texts) ==
  \E t \in texts, i \in DOMAIN action : IsPrefix(t, SubSeq(action, i, Len(action)))

SpendRisk(cents) == Min({30, (cents + 50) \div 100})

score(action, spend, depth, seen, hour) ==
  LET novel == ~seen /\ Mentions(action, {<<"payments", ".">>, <<"admin", ".">>, <<"external", ".">>})
      deep == /\ depth >= 2
              /\ Mentions(action, {<<"payments", ".">>, <<"admin", ".">>, <<"code", ".", "exec">>})
  IN  Clamp(baseFor(action) + SpendRisk(spend) + 5 * depth
            + (IF novel THEN 10 ELSE 0) + (IF hour < 6 THEN 5 ELSE 0) + (IF deep THEN 15 ELSE 0))

band(s) == IF s < 30 THEN "auto" ELSE IF s < 70 THEN "step_up" ELSE "deny_candidate"

-----------------------------------------------------------------------------
(* What these functions are for.                                           *)

(* "Deny overrides allow": whatever the priorities, one matching deny      *)
(* denies, one matching require_approval allows nothing by itself, and     *)
(* what no policy names is denied.                                         *)
DenyWins(policies, req, minute) ==
  LET has(effect) == \E i \in DOMAIN policies :
                       policies[i].effect = effect /\ matches(policies[i], req, minute)
      verdict == evaluate(policies, req, minute).provisional
  IN  /\ verdict = "deny" <=> (has("deny") \/ ~(has("allow") \/ has("require_approval")))
      /\ verdict = "allow" <=> (has("allow") /\ ~has("deny") /\ ~has("require_approval"))

(* A reported pair does overlap: some action and some resource are matched *)
(* by both.                                                                *)
ConflictsAreReal(policies, values) ==
  \A pair \in detectConflicts(policies) :
    LET p == policies[pair[1]]  q == policies[pair[2]] IN
    /\ \E v \in values : anyMatch(p.actions, v) /\ anyMatch(q.actions, v)
    /\ \E v \in values : anyMatch(p.resources, v) /\ anyMatch(q.resources, v)

(* More money, a longer chain or a new target never lowers the score.      *)
ScoreIsMonotone(actions, spends, depths) ==
  \A a \in actions, hour \in {0, 5, 6, 23} :
    \A m1, m2 \in spends, d1, d2 \in depths :
      m1 <= m2 /\ d1 <= d2 =>
        /\ score(a, m1, d1, TRUE, hour) <= score(a, m2, d2, TRUE, hour)
        /\ score(a, m1, d1, TRUE, hour) <= score(a, m1, d1, FALSE, hour)
        /\ score(a, m2, d2, FALSE, hour) \in 0..100

=============================================================================
