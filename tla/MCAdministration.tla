--------------------------- MODULE MCAdministration ---------------------------
(* Three keys, one thing else to revoke, one checkpoint; and callers that  *)
(* an OIDC provider vouches for in place of a key.                         *)
EXTENDS Administration, Oidc

Alike == Permutations(Keys)

-----------------------------------------------------------------------------
(* Tokens of two applications, and what a provider answers when it is      *)
(* asked for its keys: no answer, none, or some.                           *)

IdToken(aud, azp, exp, iat) ==
  [kid |-> "k", key |-> "k", iss |-> Issuer, sub |-> "someone", aud |-> aud, azp |-> azp,
   exp |-> exp, iat |-> iat, nonce |-> Missing, org |-> "org", roles |-> {"owner"}]
Fresh == IdToken(<<"app">>, Missing, 9, 0)

Holding(audience) == init(Constructed(audience), Issuer, {"k"}).verifier
Apps == {"app", "other"}
IdTokens ==
  {IdToken(aud, azp, exp, iat) :
     aud \in UNION {[1..n -> Apps] : n \in 0..2}, azp \in Apps \cup {Missing},
     exp \in {0, 5, Missing}, iat \in {0, 9}}

ASSUME OneAudienceHere ==
  \A a, b \in Apps, now \in 0..9 : OneAudience(Holding(a), Holding(b), IdTokens, now)

Answers == {Failed, Missing, {}, {"k"}, {"other", "k"}}
ASSUME KeysAreTheLastHere ==
  \A start \in Answers \ {Failed} :
    KeysAreTheLast(start, UNION {[1..n -> Answers] : n \in 0..3}, Fresh, 0)

Claims == UNION {entry.accepted : entry \in ToSet(DefaultRoleMap)}
ASSUME MoreRolesNeverLessHere == MoreRolesNeverLess(DefaultRoleMap, Claims)

(* A map that names a lesser role first makes less of who has both.        *)
ASSUME OrderOfRolesDecides == ~MoreRolesNeverLess(Reverse(DefaultRoleMap), Claims)

(* A refresh that fails for what the keys look like has replaced them      *)
(* already: nobody is let in until the next.                               *)
ASSUME BadRefreshForgetsKeys ==
  LET config == [roleMap |-> DefaultRoleMap, defaultRole |-> "reporter", org |-> Missing]
      answer == init(Holding("app"), Failed, Missing)
  IN  /\ principal(Holding("app"), config, Fresh, 0) = [org_id |-> "org", role |-> "admin"]
      /\ ~answer.ok /\ principal(answer.verifier, config, Fresh, 0) = Missing

=============================================================================
