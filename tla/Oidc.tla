---------------------------------- MODULE Oidc ----------------------------------
(***************************************************************************)
(* Callers that an OIDC provider vouches for: the verifier's refresh of    *)
(* the provider's keys, the checks of an ID token, and the role that its   *)
(* claims map to.  A token is a record of its header and claims and of the *)
(* key that made its signature; a key has one algorithm.                   *)
(***************************************************************************)
EXTENDS Integers, SequencesExt

CONSTANTS
  Issuer,    \* the provider that the gateway was configured with
  Skew,      \* clockSkewSec
  Missing,   \* a claim or document that is not there
  Failed     \* an answer that is not 200, or not JSON, or late

-----------------------------------------------------------------------------
(* The verifier: the documents it holds, and whom its tokens are for.      *)

Constructed(audience) == [audience |-> audience, discovery |-> Missing, jwks |-> Missing]

(* The first discovery document that arrives is kept for good; the keys    *)
(* replace those before them, and are looked at after.                     *)
init(v, discovery, jwks) ==
  LET found == IF v.discovery = Missing THEN discovery ELSE v.discovery IN
  CASE found = Failed       -> [ok |-> FALSE, verifier |-> v]
    [] found # Issuer       -> [ok |-> FALSE, verifier |-> [v EXCEPT !.discovery = found]]
    [] jwks = Failed        -> [ok |-> FALSE, verifier |-> [v EXCEPT !.discovery = found]]
    [] OTHER                -> [ok |-> jwks # Missing,
                                verifier |-> [v EXCEPT !.discovery = found, !.jwks = jwks]]

(* A refresh that fails is only logged: the answers of the provider, one   *)
(* after another, to a gateway that started.                               *)
Refreshed(v, answers) ==
  FoldLeft(LAMBDA w, jwks : init(w, Failed, jwks).verifier, v, answers)

(* The key that a token is checked with: its kid is among the keys.        *)
KeyFor(v, token) ==
  IF v.jwks \in {Missing, Failed} \/ token.kid \notin v.jwks THEN Missing ELSE token.kid

verifyJwt(v, token, nonce, now) ==
  /\ token.key = KeyFor(v, token) /\ token.key # Missing
  /\ token.iss = Issuer
  /\ token.sub # Missing
  /\ v.audience \in ToSet(token.aud)
  /\ Len(token.aud) > 1 => token.azp = v.audience
  /\ token.exp # Missing /\ now <= token.exp + Skew
  /\ token.iat # Missing /\ token.iat <= now + Skew
  /\ nonce # Missing => token.nonce = nonce

-----------------------------------------------------------------------------
(* principal.  The role map lists each role with what it accepts, and the  *)
(* first entry that accepts any of the token's roles decides.              *)

Ranks == <<"reporter", "executor", "approver", "admin">>

role(roleMap, defaultRole, roles) ==
  LET i == SelectInSeq(roleMap, LAMBDA entry : entry.accepted \cap roles # {}) IN
  IF i = 0 THEN defaultRole ELSE roleMap[i].role

organization(staticOrgId, claim) == IF staticOrgId # Missing THEN staticOrgId ELSE claim

(* The organization and role of a caller, or Missing.                      *)
principal(v, config, token, now) ==
  LET org == organization(config.org, token.org)
      granted == role(config.roleMap, config.defaultRole, token.roles)
  IN  IF verifyJwt(v, token, Missing, now) /\ granted \in ToSet(Ranks) /\ org # Missing
      THEN [org_id |-> org, role |-> granted] ELSE Missing

(* The map of a gateway that was given none.                               *)
DefaultRoleMap ==
  << [role |-> "admin", accepted |-> {"admin", "owner"}],
     [role |-> "approver", accepted |-> {"approver"}],
     [role |-> "executor", accepted |-> {"executor"}],
     [role |-> "reporter", accepted |-> {"reporter", "viewer"}] >>

-----------------------------------------------------------------------------
(* What must hold of them.                                                 *)

Rank(r) == SelectInSeq(Ranks, LAMBDA x : x = r)

(* A claim more never makes less of a caller.                              *)
MoreRolesNeverLess(roleMap, claims) ==
  \A few, many \in SUBSET claims :
    few \subseteq many =>
      Rank(role(roleMap, "reporter", few)) <= Rank(role(roleMap, "reporter", many))

(* After any answers, a caller is let in if and only if the key is in the  *)
(* last document of keys that arrived: a key that the provider withdrew is *)
(* good for no longer than that.                                           *)
KeysAreTheLast(start, histories, token, now) ==
  \A answers \in histories :
    LET arrived == SelectSeq(<<start>> \o answers, LAMBDA a : a # Failed)
        v == Refreshed(init(Constructed(Head(token.aud)), Issuer, start).verifier, answers)
    IN  verifyJwt(v, token, Missing, now) <=>
          Last(arrived) # Missing /\ token.key \in Last(arrived)

(* Of two applications of one provider, a token lets its caller into one.  *)
OneAudience(v, w, tokens, now) ==
  v.audience # w.audience =>
    \A t \in tokens : ~(verifyJwt(v, t, Missing, now) /\ verifyJwt(w, t, Missing, now))

=============================================================================
