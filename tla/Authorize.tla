------------------------------- MODULE Authorize -------------------------------
(***************************************************************************)
(* From an intent to its execution: authorize() weighs an intent against a *)
(* delegation token, the policies and the risk, and answers with a         *)
(* credential or opens an approval; execute() takes the credential, checks *)
(* everything again and reserves the execution; verify says whether a      *)
(* credential is good.  Delegation.tla has the tokens, Policy.tla the      *)
(* verdict.                                                                *)
(*                                                                         *)
(* An intent's name is its hash.  Requests of several gateways interleave  *)
(* at every await; the reservation is one step, which is what              *)
(* ExecutionLedger.tla asks of the stores.  Admins edit policies and       *)
(* thresholds at any time, and what was seen is forgotten at any time, so  *)
(* an evaluation meets any of Rules and either answer of the cache.        *)
(***************************************************************************)
EXTENDS Policy, Delegation

CONSTANTS
  Intents, intent,   \* intent[i]: [sub, action, resource, destination, amount_cents]
  Minutes,           \* times of day
  Rules,             \* what an organization may be set to: [policies, ceiling, stepup]
  Requests,          \* calls of authorize
  Executions,        \* calls of execute
  Nothing,           \* no intent, no credential
  ActionTtl, ApprovalTtl,
  Skew               \* how long before its iat execute() takes a credential

TokenJtis == Jtis \cup {NoJti}

ActionCredentials ==
  [kind : {"action"}, jti : Requests, kid : Kids, sub : Passports, intent_hash : Intents, token_jti : TokenJtis,
   requires_approval : BOOLEAN, iat : Nat, exp : Nat]

ApprovalCredentials ==
  [kind : {"approval"}, jti : Requests, approval_id : Requests, sub : Passports,
   intent_hash : Intents, action_jti : Requests, decision : {"approved"}, exp : Nat]

Decided == [intent : Intents, token : TokenJtis, verdict : {"allow", "step_up"}]

(* A jti names a token or a credential, never one of each.                 *)
ASSUME AuthorizeAssumption ==
  /\ intent \in [Intents -> [sub : Passports, action : Values, resource : Values,
                             destination : Values, amount_cents : Nat]]
  /\ Requests \cap Jtis = {}
  /\ Nothing \notin Intents \cup Requests
  /\ Nothing \notin ActionCredentials \cup ApprovalCredentials \cup Decided
  /\ ActionTtl \in Nat \ {0} /\ ApprovalTtl \in Nat \ {0} /\ Skew \in Nat

VARIABLES
  asked,     \* asked[r]: [pc, intent, token, kid] of request r
  action,    \* action[r]: the action credential that r's decision led to
  approval,  \* approval[r]: the approval credential
  exec,      \* exec[x]: [pc, intent, jti, at, gone] of execution x, with the time
             \* and what had been revoked when it was checked
  dead,      \* the action credentials revoked
  spent,     \* spent[j]: cents debited from token j
  decided,   \* decided[r]: [intent, token, verdict], if r was allowed or stepped up
  runs       \* every execution: [intent, jti, token, at, gone]

credentials == <<action, approval, dead>>
history == <<decided, runs>>
vars == <<delegation, asked, credentials, exec, spent, history>>

Idle == [pc |-> "idle", intent |-> Nothing, token |-> NoJti, kid |-> Nothing]
Answered == [Idle EXCEPT !.pc = "done"]
NotRun == [pc |-> "idle", intent |-> Nothing, jti |-> Nothing, at |-> 0,
           gone |-> {}]

Init ==
  /\ DelegationInit
  /\ asked = [r \in Requests |-> Idle]
  /\ action = [r \in Requests |-> Nothing] /\ approval = [r \in Requests |-> Nothing]
  /\ exec = [x \in Executions |-> NotRun]
  /\ decided = [r \in Requests |-> Nothing]
  /\ dead = {} /\ runs = {}
  /\ spent = [j \in Jtis |-> 0]

-----------------------------------------------------------------------------
(* Credentials.                                                            *)

(* buildActionToken.                                                       *)
ActionToken(r, i, token, kid, requires_approval, t) ==
  [kind |-> "action", jti |-> r, kid |-> kid, sub |-> intent[i].sub, intent_hash |-> i,
   token_jti |-> token, requires_approval |-> requires_approval, iat |-> t, exp |-> t + ActionTtl]

(* buildApproval: it is given no iat.                                      *)
ApprovalCredential(r, i, t) ==
  [kind |-> "approval", jti |-> r, approval_id |-> r, sub |-> intent[i].sub, intent_hash |-> i,
   action_jti |-> r, decision |-> "approved", exp |-> t + ApprovalTtl]

checkEnvelopeShape(c) ==
  /\ {"jti", "iat", "exp", "sub", "intent_hash"} \subseteq DOMAIN c
  /\ c.iat < c.exp
  /\ c.kind = "approval" => c.decision = "approved"

(* Mutant: the credential is over in the last moment of its life.          *)
verifyOfflineEarly(c, t) == checkEnvelopeShape(c) /\ t < c.exp /\ c.iat <= t

verifyOffline(c, t) == checkEnvelopeShape(c) /\ t <= c.exp /\ c.iat <= t

NotRevoked(c) == c.jti \notin dead /\ c.token_jti \notin revoked

(* POST /v1/verify of an envelope: the chain of its token is not followed. *)
doVerify(c, t) ==
  /\ verifyOffline(c, t)
  /\ c.sub \in usable
  /\ c.kind = "action" => c.kid \in keys[c.sub] /\ NotRevoked(c)

-----------------------------------------------------------------------------
(* authorize().                                                            *)

(* Mutant: any passport may use a token.                                   *)
TokenFitsAnyone(i, j, t) ==
  LET it == intent[i] IN
  /\ tokens[j] # NoToken /\ TokenUsable(j, t)
  /\ Covers(tokens[j].granted, it.action, it.resource, it.destination)

TokenFits(i, j, t) ==
  LET it == intent[i] IN
  /\ tokens[j] # NoToken /\ TokenUsable(j, t)
  /\ tokens[j].sub = it.sub
  /\ Covers(tokens[j].granted, it.action, it.resource, it.destination)

WithinBudget(i, j) == spent[j] + intent[i].amount_cents <= tokens[j].granted.max_spend_cents

(* What the policies read of intent i at a depth.                          *)
Asks(i, depth) ==
  LET it == intent[i] IN
  [action |-> it.action, resource |-> it.resource,
   context |-> [spend_cents |-> it.amount_cents, depth |-> depth, passport_id |-> it.sub]]

(* What the policies and the score make of it.  The step-up band ends at   *)
(* 70, wherever the ceiling is.                                            *)
Decision(i, depth, rules, seen, minute) ==
  LET it == intent[i]
      verdict == evaluate(rules.policies, Asks(i, depth), minute).provisional
      risk == score(it.action, it.amount_cents, depth, seen, minute \div 60)
  IN  IF verdict = "deny" \/ risk >= rules.ceiling THEN "deny"
      ELSE IF verdict = "require_approval" \/ (rules.stepup <= risk /\ risk < 70) THEN "step_up"
      ELSE "allow"

(* What may become of it: any rules, seen or not; a dry run is answered    *)
(* and leads to nothing.                                                   *)
Decisions ==
  [i \in Intents |-> [depth \in 0..MAX_DEPTH |->
     {"dry_run"} \cup {Decision(i, depth, rules, seen, minute) :
                       rules \in Rules, seen \in BOOLEAN, minute \in Minutes}]]

(* The credential carries the time at which it was asked for, whenever the *)
(* signer answers.                                                         *)
Evaluate(r, i, token, kid) ==
  \E decision \in Decisions[i][IF token = NoJti THEN 0 ELSE tokens[token].depth], t \in Clocks :
    /\ asked' = [asked EXCEPT ![r] =
         CASE decision = "allow"   -> [Idle EXCEPT !.pc = "sign"]
           [] decision = "step_up" -> [pc |-> "pending", intent |-> i, token |-> token, kid |-> kid]
           [] OTHER                -> Answered]
    /\ action' = IF decision = "allow"
                   THEN [action EXCEPT ![r] = ActionToken(r, i, token, kid, FALSE, t)] ELSE action
    /\ decided' = IF decision \in {"allow", "step_up"}
         THEN [decided EXCEPT ![r] = [intent |-> i, token |-> token, verdict |-> decision]]
         ELSE decided
    /\ UNCHANGED <<approval, dead>>

Denied(r) ==
  /\ asked' = [asked EXCEPT ![r] = Answered]
  /\ UNCHANGED <<credentials, decided>>

(* Up to the first await: the budget of the token, if there is one.  An    *)
(* intent is signed with a key that keyFor accepts, or comes with an       *)
(* executor's API key and the name of any key.                             *)
Authorize(r, i, token, kid, t) ==
  /\ asked[r].pc = "idle"
  /\ IF intent[i].sub \notin usable \/ (token # NoJti /\ ~TokenFits(i, token, t))
       THEN Denied(r)
       ELSE IF token = NoJti
       THEN Evaluate(r, i, token, kid)
       ELSE /\ asked' = [asked EXCEPT ![r] =
                 [pc |-> "budget", intent |-> i, token |-> token, kid |-> kid]]
            /\ UNCHANGED <<credentials, decided>>
  /\ UNCHANGED <<delegation, exec, spent, runs>>

BudgetAnswered(r) ==
  LET a == asked[r] IN
  /\ a.pc = "budget"
  /\ IF WithinBudget(a.intent, a.token)
       THEN Evaluate(r, a.intent, a.token, a.kid)
       ELSE Denied(r)
  /\ UNCHANGED <<delegation, exec, spent, runs>>

Signed(r) ==
  /\ asked[r].pc = "sign"
  /\ asked' = [asked EXCEPT ![r] = Answered]
  /\ UNCHANGED <<delegation, credentials, exec, spent, history>>

(* The signer throws: nobody has the credential.                           *)
SignerFails(r) ==
  /\ asked[r].pc = "sign"
  /\ asked' = [asked EXCEPT ![r] = Answered]
  /\ action' = [action EXCEPT ![r] = Nothing]
  /\ UNCHANGED <<delegation, approval, dead, exec, spent, history>>

(* The approval reaches its quorum: Approvals.tla has the steps.           *)
Approve(r, t) ==
  LET a == asked[r] IN
  /\ a.pc = "pending"
  /\ asked' = [asked EXCEPT ![r] = Answered]
  /\ action' = [action EXCEPT ![r] = ActionToken(r, a.intent, a.token, a.kid, TRUE, t)]
  /\ approval' = [approval EXCEPT ![r] = ApprovalCredential(r, a.intent, t)]
  /\ UNCHANGED <<delegation, dead, exec, spent, history>>

-----------------------------------------------------------------------------
(* execute(), under the credentials that were handed out.                  *)

Issued == {action[r] : r \in {q \in Requests : asked[q].pc = "done"}}
            \cup {approval[r] : r \in Requests}

(* Mutant: the operation is compared, the intent's hash is not.            *)
ActionFitsOperation(c, i, t) ==
  LET it == intent[i]  was == intent[c.intent_hash] IN
  /\ c.kind = "action"
  /\ c.sub = it.sub
  /\ <<was.action, was.resource, was.amount_cents>> = <<it.action, it.resource, it.amount_cents>>
  /\ t <= c.exp /\ c.iat - Skew <= t
  /\ NotRevoked(c)

ActionFits(c, i, t) ==
  /\ c.kind = "action"
  /\ c.sub = intent[i].sub
  /\ c.intent_hash = i
  /\ t <= c.exp /\ c.iat - Skew <= t
  /\ NotRevoked(c)

ApprovalFits(a, c, i, t) ==
  /\ a # Nothing /\ a.kind = "approval" /\ a.decision = "approved"
  /\ a.intent_hash = i
  /\ a.action_jti = c.jti
  /\ t <= a.exp

(* The subject of the token was compared by authorize().                   *)
Accepts(c, a, i, t) ==
  LET it == intent[i] IN
  /\ ActionFits(c, i, t)
  /\ c.requires_approval => ApprovalFits(a, c, i, t)
  /\ it.sub \in usable /\ c.kid \in keys[it.sub]
  /\ c.token_jti # NoJti =>
       /\ tokens[c.token_jti] # NoToken /\ TokenUsable(c.token_jti, t)
       /\ Covers(tokens[c.token_jti].granted, it.action, it.resource, it.destination)

(* A call that does not pass leaves a receipt and no trace here.           *)
Execute(x, c, a, i, t) ==
  /\ exec[x].pc = "idle"
  /\ c # Nothing /\ Accepts(c, a, i, t)
  /\ exec' = [exec EXCEPT ![x] = [pc |-> "reserve", intent |-> i, jti |-> c.jti, at |-> t,
                                    gone |-> revoked \cup dead]]
  /\ UNCHANGED <<delegation, asked, credentials, spent, history>>

(* The reservation was awaited, the checks are not repeated after it.  The *)
(* budget, which was also read before it, only shrinks.                    *)
Reserve(x) ==
  LET e == exec[x]
      token == action[e.jti].token_jti
      free == /\ \A run \in runs : run.intent # e.intent /\ run.jti # e.jti
              /\ token # NoJti => WithinBudget(e.intent, token)
  IN
  /\ e.pc = "reserve"
  /\ exec' = [exec EXCEPT ![x] = [NotRun EXCEPT !.pc = "done"]]
  /\ runs' = IF free THEN runs \cup {[intent |-> e.intent, jti |-> e.jti, token |-> token,
                                      at |-> e.at, gone |-> e.gone]} ELSE runs
  /\ spent' = IF free /\ token # NoJti
                THEN [spent EXCEPT ![token] = @ + intent[e.intent].amount_cents] ELSE spent
  /\ UNCHANGED <<delegation, asked, credentials, decided>>

RevokeCredential(r) ==
  /\ action[r] # Nothing
  /\ dead' = dead \cup {r}
  /\ UNCHANGED <<delegation, asked, action, approval, exec, spent, history>>

Next ==
  \/ \E r \in Requests :
       \/ \E i \in Intents, token \in TokenJtis, kid \in Kids, t \in Clocks :
            Authorize(r, i, token, kid, t)
       \/ BudgetAnswered(r) \/ Signed(r) \/ SignerFails(r) \/ RevokeCredential(r)
       \/ \E t \in Clocks : Approve(r, t)
  \/ \E x \in Executions :
       \/ \E c, a \in Issued, i \in Intents, t \in Clocks : Execute(x, c, a, i, t)
       \/ Reserve(x)
  \/ /\ DelegationNext
     /\ UNCHANGED <<asked, credentials, exec, spent, history>>

Spec == Init /\ [][Next]_vars

-----------------------------------------------------------------------------
(* Properties.                                                             *)

RequestsTypeOK ==
  /\ asked \in [Requests -> [pc : {"idle", "budget", "sign", "pending", "done"},
                             intent : Intents \cup {Nothing}, token : TokenJtis,
                             kid : Kids \cup {Nothing}]]
  /\ action \in [Requests -> ActionCredentials \cup {Nothing}]
  /\ approval \in [Requests -> ApprovalCredentials \cup {Nothing}]
  /\ decided \in [Requests -> Decided \cup {Nothing}]

TypeOK ==
  /\ TokensTypeOK /\ Linked /\ RequestsTypeOK
  /\ exec \in [Executions -> [pc : {"idle", "reserve", "done"}, intent : Intents \cup {Nothing},
                              jti : Requests \cup {Nothing}, at : Nat,
                              gone : SUBSET (Jtis \cup Requests)]]
  /\ dead \subseteq Requests
  /\ spent \in [Jtis -> Nat]
  /\ runs \subseteq [intent : Intents, jti : Requests, token : TokenJtis, at : Nat,
                     gone : SUBSET (Jtis \cup Requests)]

(* "The exact action, or nothing": what runs is the intent that was        *)
(* weighed, under the token it was weighed with, and it was allowed, or    *)
(* approved for that very intent; whatever credentials, approvals and      *)
(* intents are combined afterwards.                                        *)
RunsWereDecided ==
  \A run \in runs :
    LET d == decided[run.jti] IN
    /\ d # Nothing /\ d.intent = run.intent /\ d.token = run.token
    /\ d.verdict = "allow" \/ (d.verdict = "step_up" /\ approval[run.jti] # Nothing)

(* A delegated action stays within every grant above it: it is the token   *)
(* subject's own, each ancestor covers it and could pay for it alone, and  *)
(* none had expired or been revoked when it was checked, nor had its       *)
(* credential; and no token paid for more than its cap.                    *)
RunsWithinAuthority ==
  /\ \A run \in runs :
       LET it == intent[run.intent] IN
       run.token # NoJti =>
         /\ tokens[run.token].sub = it.sub
         /\ \A a \in {run.token} \cup above[run.token] :
              /\ Covers(tokens[a].granted, it.action, it.resource, it.destination)
              /\ it.amount_cents <= tokens[a].granted.max_spend_cents
              /\ run.at <= tokens[a].granted.not_after
              /\ a \notin run.gone
  /\ \A run \in runs : run.jti \notin run.gone
  /\ \A j \in Registered : spent[j] <= tokens[j].granted.max_spend_cents

(* execute() and /v1/verify check a credential by code of their own, and    *)
(* say the same of it, by any clock: what execute() would accept, verify   *)
(* calls valid, but for the time before its iat, which execute() tolerates *)
(* and verify does not; and what verify calls valid, execute() accepts for *)
(* the intent it was made for, with the approval made for it, as long as   *)
(* that approval lives and every token above may be used.                  *)
VerifyAgrees ==
  \A c \in Issued \ {Nothing}, t \in Clocks :
    /\ \/ c.kind = "action" /\ (doVerify(c, t) <=> c.iat <= t)
       \/ ~\E a \in Issued, i \in Intents : Accepts(c, a, i, t)
    /\ /\ doVerify(c, t)
       /\ c.requires_approval => t <= approval[c.jti].exp
       /\ c.token_jti # NoJti => TokenUsable(c.token_jti, t)
       => Accepts(c, approval[c.jti], c.intent_hash, t)

-----------------------------------------------------------------------------
(* The inductive invariant.                                                *)

(* authorize() compared the token's subject and grant with the intent.     *)
OwnToken(i, token) ==
  LET it == intent[i] IN
  token # NoJti =>
    /\ token \in Registered /\ tokens[token].sub = it.sub
    /\ Covers(tokens[token].granted, it.action, it.resource, it.destination)

AskedFits(r) ==
  LET a == asked[r] IN
  /\ a.pc \in {"idle", "budget", "pending"} => action[r] = Nothing /\ approval[r] = Nothing
  /\ a.pc \in {"budget", "pending"} =>
       a.intent \in Intents /\ a.kid \in Kids /\ OwnToken(a.intent, a.token)
  /\ a.pc = "pending" =>
       decided[r] = [intent |-> a.intent, token |-> a.token, verdict |-> "step_up"]

(* A credential says what was decided, and when.                           *)
CredentialFits(r) ==
  LET c == action[r] IN
  c # Nothing =>
    /\ c.jti = r
    /\ c.sub = intent[c.intent_hash].sub /\ c.iat < c.exp
    /\ OwnToken(c.intent_hash, c.token_jti)
    /\ decided[r] = [intent |-> c.intent_hash, token |-> c.token_jti,
                     verdict |-> IF c.requires_approval THEN "step_up" ELSE "allow"]
    /\ c.requires_approval =>
         /\ approval[r] # Nothing
         /\ approval[r].intent_hash = c.intent_hash /\ approval[r].action_jti = r

(* Credential j was handed out, for intent i under a token.                *)
Handed(j, i, token) ==
  /\ j \in Requests /\ asked[j].pc = "done" /\ action[j] # Nothing
  /\ action[j].intent_hash = i /\ action[j].token_jti = token

(* What execute() found of every token above, when it looked.              *)
Checked(i, token, at, gone) ==
  LET it == intent[i] IN
  token # NoJti =>
    \A a \in {token} \cup above[token] :
      /\ Covers(tokens[a].granted, it.action, it.resource, it.destination)
      /\ at <= tokens[a].granted.not_after
      /\ a \notin gone

ReservationFits(x) ==
  LET e == exec[x]
      token == action[e.jti].token_jti
  IN
  e.pc = "reserve" =>
    /\ Handed(e.jti, e.intent, token)
    /\ Checked(e.intent, token, e.at, e.gone)
    /\ e.jti \notin e.gone

RunFits(run) ==
  /\ Handed(run.jti, run.intent, run.token)
  /\ Checked(run.intent, run.token, run.at, run.gone)
  /\ run.jti \notin run.gone
  /\ run.token # NoJti =>
       \A a \in {run.token} \cup above[run.token] :
         intent[run.intent].amount_cents <= tokens[a].granted.max_spend_cents

SpendFits(j) ==
  IF j \in Registered THEN spent[j] <= tokens[j].granted.max_spend_cents ELSE spent[j] = 0

IInv ==
  /\ TypeOK /\ WithinEveryAncestor
  /\ \A r \in Requests : AskedFits(r) /\ CredentialFits(r)
  /\ \A x \in Executions : ReservationFits(x)
  /\ \A run \in runs : RunFits(run)
  /\ \A j \in Jtis : SpendFits(j)

=============================================================================
