------------------------------ MODULE Delegation ------------------------------
(***************************************************************************)
(* Delegation tokens: a passport hands a part of its authority on, by a    *)
(* token that names what is covered, how much may be spent, until when and *)
(* how deep it may be delegated further.  A child is compared with its     *)
(* parent once, when it is registered; tokens are never changed after.     *)
(*                                                                         *)
(* An envelope's signature is taken to be the delegator's.  Every handler   *)
(* reads the clock of its gateway, and these are not the same: a reading is *)
(* one of Clocks.                                                          *)
(***************************************************************************)
EXTENDS Glob, FiniteSets

CONSTANTS
  Passports, Jtis,
  Characters,   \* what patterns and values are written with
  Patterns, Values,
  Constraints,  \* what an envelope may ask for: records like AskedFor, below
  NoJti,        \* no parent
  NoToken,      \* nothing is registered under a jti
  Absent,       \* the envelope does not have the field
  MAX_DEPTH,
  MaxSafe,      \* Number.MAX_SAFE_INTEGER
  Kids,         \* names of keys
  Ahead,        \* how far ahead of the slowest a gateway's clock may be
  Horizon,      \* bound on the clock
  Never         \* not_after null: later than any time

Fields == {"scope", "resources", "allowed_targets", "max_spend_cents", "not_after",
           "max_depth", "require_approval"}

Granted == [scope : SUBSET Patterns, resources : SUBSET Patterns,
            allowed_targets : SUBSET Patterns, max_spend_cents : 0..MaxSafe,
            not_after : Nat, max_depth : 0..MAX_DEPTH, require_approval : BOOLEAN]

(* What an envelope may name, once the lists are lists of strings and the *)
(* time is a number.                                                       *)
AskedFor == [scope : (SUBSET Patterns) \cup {Absent}, resources : (SUBSET Patterns) \cup {Absent},
             allowed_targets : (SUBSET Patterns) \cup {Absent},
             max_spend_cents : Int \cup {Absent}, not_after : Nat \cup {Absent},
             max_depth : Int \cup {Absent}, require_approval : BOOLEAN \cup {Absent}]

ASSUME DelegationAssumption ==
  /\ Constraints \subseteq AskedFor
  /\ NoJti \notin Jtis
  /\ MAX_DEPTH \in Nat /\ MaxSafe \in Nat /\ Horizon \in Nat
  /\ Ahead \subseteq Nat
  /\ Never \in Nat /\ \A d \in Ahead : Never > Horizon + d

(* What is asked for has no line separator in it: globSubset is wrong about *)
(* values that have one (Glob.tla).                                        *)
ASSUME TextAssumption ==
  /\ Patterns \subseteq Seq(Characters) /\ Values \subseteq Seq(Characters)
  /\ \A v \in Values : OneLine(v)

VARIABLES
  tokens,   \* tokens[j]: the token registered under j, or NoToken
  above,    \* above[j]: j's parent, its parent, and so on
  revoked,  \* the tokens that were revoked
  usable,   \* the passports that assertPassportUsable accepts
  keys,     \* keys[p]: the keys of passport p that keyFor accepts
  now       \* the slowest clock

delegation == <<tokens, above, revoked, usable, keys, now>>

Clocks == {now + d : d \in Ahead}

Registered == {j \in Jtis : tokens[j] # NoToken}

DelegationInit ==
  /\ tokens = [j \in Jtis |-> NoToken]
  /\ above = [j \in Jtis |-> {}]
  /\ revoked = {}
  /\ usable = Passports
  /\ keys = [p \in Passports |-> Kids]
  /\ now = 0

-----------------------------------------------------------------------------
(* Using a token.                                                          *)

(* The values a pattern matches, and the patterns that pass under it.      *)
Matches == [p \in Patterns |-> {v \in Values : globMatch(p, v)}]
Narrower == [p \in Patterns |-> {c \in Patterns : globSubset(p, c)}]

AnyMatch(patterns, v) == \E p \in patterns : v \in Matches[p]

Targeted(targets, v) == targets = {} \/ AnyMatch(targets, v)

(* tokenCovers: no targets is any target.                                  *)
Covers(granted, action, resource, destination) ==
  /\ AnyMatch(granted.scope, action)
  /\ AnyMatch(granted.resources, resource)
  /\ Targeted(granted.allowed_targets, destination)

(* assertTokenUsable goes up the chain: a token is as dead as any of its   *)
(* ancestors, or their subjects.                                           *)
TokenUsable(j, t) ==
  \A a \in {j} \cup above[j] :
    /\ a \notin revoked
    /\ t <= tokens[a].granted.not_after
    /\ tokens[a].sub \in usable
    /\ tokens[a].parent # NoJti => tokens[tokens[a].parent].sub = tokens[a].issuer

-----------------------------------------------------------------------------
(* Registering a token.                                                    *)

PatternsSubset(child, parent) ==
  \A c \in child : \E p \in parent : c \in Narrower[p]

(* A field that the envelope does not have is the parent's.                *)
Given(asked, inherited) == IF asked = Absent THEN inherited ELSE asked

RootDefaults ==
  [scope |-> {}, resources |-> {}, allowed_targets |-> {}, max_spend_cents |-> MaxSafe,
   not_after |-> Never, max_depth |-> MAX_DEPTH, require_approval |-> FALSE]

Effective(asked, up) ==
  [scope |-> Given(asked.scope, up.scope),
   resources |-> Given(asked.resources, up.resources),
   allowed_targets |-> Given(asked.allowed_targets, up.allowed_targets),
   max_spend_cents |-> Given(asked.max_spend_cents, up.max_spend_cents),
   not_after |-> Given(asked.not_after, up.not_after),
   max_depth |-> Given(asked.max_depth, up.max_depth),
   require_approval |-> Given(asked.require_approval, up.require_approval)]

(* Mutant: a child that names no targets asks for no more than its parent. *)
AttenuatesAnyTarget(child, parent) ==
  /\ PatternsSubset(child.scope, parent.scope)
  /\ PatternsSubset(child.resources, parent.resources)
  /\ parent.allowed_targets # {} => PatternsSubset(child.allowed_targets, parent.allowed_targets)
  /\ child.max_spend_cents \in 0..parent.max_spend_cents
  /\ child.not_after <= parent.not_after
  /\ child.max_depth \in 0..parent.max_depth
  /\ parent.require_approval => child.require_approval

(* What a child may not widen.                                             *)
Attenuates(child, parent) ==
  /\ PatternsSubset(child.scope, parent.scope)
  /\ PatternsSubset(child.resources, parent.resources)
  /\ parent.allowed_targets # {} =>
       child.allowed_targets # {} /\ PatternsSubset(child.allowed_targets, parent.allowed_targets)
  /\ child.max_spend_cents \in 0..parent.max_spend_cents
  /\ child.not_after <= parent.not_after
  /\ child.max_depth \in 0..parent.max_depth
  /\ parent.require_approval => child.require_approval

(* The checks that a root and a child both pass.                           *)
WellFormed(granted, t) ==
  /\ granted.scope # {} /\ granted.resources # {}
  /\ granted.max_spend_cents \in 0..MaxSafe
  /\ granted.max_depth \in 0..MAX_DEPTH
  /\ granted.not_after > t

Register(j, issuer, sub, parent, depth, granted, t) ==
  /\ tokens[j] = NoToken
  /\ {issuer, sub} \subseteq usable
  /\ keys[issuer] # {}
  /\ WellFormed(granted, t)
  /\ tokens' = [tokens EXCEPT ![j] =
       [sub |-> sub, issuer |-> issuer, parent |-> parent, depth |-> depth, granted |-> granted]]
  /\ above' = [above EXCEPT ![j] = IF parent = NoJti THEN {} ELSE {parent} \cup above[parent]]
  /\ UNCHANGED <<revoked, usable, keys, now>>

(* An agent delegates to itself only, unless an admin's key comes with it. *)
RegisterRoot(j, issuer, sub, asked, admin, t) ==
  /\ admin \/ sub = issuer
  /\ Register(j, issuer, sub, NoJti, 0, Effective(asked, RootDefaults), t)

(* The subject of the parent hands it on.                                  *)
RegisterChild(j, issuer, sub, parent, asked, t) ==
  LET up == tokens[parent]
      granted == Effective(asked, up.granted)
  IN
  /\ up # NoToken /\ up.sub = issuer
  /\ TokenUsable(parent, t)
  /\ Attenuates(granted, up.granted)
  /\ up.depth + 1 <= granted.max_depth
  /\ Register(j, issuer, sub, parent, up.depth + 1, granted, t)

-----------------------------------------------------------------------------
(* What the rest of the gateway does to tokens and passports.              *)

RevokeToken(j) ==
  /\ tokens[j] # NoToken
  /\ revoked' = revoked \cup {j}
  /\ UNCHANGED <<tokens, above, usable, keys, now>>

(* suspend, revoke or activate.                                            *)
SetPassportStatus(p) ==
  /\ usable' = IF p \in usable THEN usable \ {p} ELSE usable \cup {p}
  /\ UNCHANGED <<tokens, above, revoked, keys, now>>

(* Keys are rotated, revoked and outlived; one that was revoked may be     *)
(* accepted again after a rotation (Revocation.tla).                       *)
ChangeKeys(p) ==
  /\ \E accepted \in SUBSET Kids : keys' = [keys EXCEPT ![p] = accepted]
  /\ UNCHANGED <<tokens, above, revoked, usable, now>>

Tick ==
  /\ now < Horizon
  /\ now' = now + 1
  /\ UNCHANGED <<tokens, above, revoked, usable, keys>>

DelegationNext ==
  \/ \E j \in Jtis, issuer, sub \in Passports, asked \in Constraints, t \in Clocks :
       \/ \E admin \in BOOLEAN : RegisterRoot(j, issuer, sub, asked, admin, t)
       \/ \E parent \in Jtis : RegisterChild(j, issuer, sub, parent, asked, t)
  \/ \E j \in Jtis : RevokeToken(j)
  \/ \E p \in Passports : SetPassportStatus(p) \/ ChangeKeys(p)
  \/ Tick

DelegationSpec == DelegationInit /\ [][DelegationNext]_delegation

-----------------------------------------------------------------------------
(* Properties.                                                             *)

Token == [sub : Passports, issuer : Passports, parent : Jtis \cup {NoJti}, depth : 0..MAX_DEPTH,
          granted : Granted]

TokensTypeOK ==
  /\ tokens \in [Jtis -> Token \cup {NoToken}]
  /\ above \in [Jtis -> SUBSET Jtis]
  /\ revoked \subseteq Jtis /\ usable \subseteq Passports
  /\ keys \in [Passports -> SUBSET Kids]
  /\ now \in 0..Horizon

(* Every chain is whole and ends: the parent of a token is registered, is  *)
(* one level up and belongs to the token's issuer, and what is above a     *)
(* token is its parent and what is above that.                             *)
Linked ==
  \A j \in Registered :
    LET t == tokens[j] IN
    /\ t.depth <= t.granted.max_depth
    /\ t.parent = NoJti => above[j] = {} /\ t.depth = 0
    /\ t.parent # NoJti =>
         /\ t.parent \in Registered
         /\ above[j] = {t.parent} \cup above[t.parent]
         /\ tokens[t.parent].sub = t.issuer
         /\ t.depth = tokens[t.parent].depth + 1

(* A grant stays within another.                                           *)
Within(child, parent) ==
  /\ \A v \in Values :
       /\ AnyMatch(child.scope, v) => AnyMatch(parent.scope, v)
       /\ AnyMatch(child.resources, v) => AnyMatch(parent.resources, v)
       /\ Targeted(child.allowed_targets, v) => Targeted(parent.allowed_targets, v)
  /\ child.max_spend_cents <= parent.max_spend_cents
  /\ child.not_after <= parent.not_after
  /\ child.max_depth <= parent.max_depth
  /\ parent.require_approval => child.require_approval

(* "Delegation attenuates only": however long the chain, whichever fields  *)
(* were inherited and whichever were named, a token covers no action that  *)
(* one of its ancestors does not cover, and spends no more, lives no       *)
(* longer and is passed on no further than any of them; and no token is    *)
(* above itself.                                                           *)
WithinEveryAncestor ==
  \A j \in Registered : \A a \in above[j] :
    /\ a \in Registered
    /\ Within(tokens[j].granted, tokens[a].granted)
    /\ tokens[a].depth < tokens[j].depth
    /\ tokens[j].depth <= tokens[a].granted.max_depth

DelegationInv == TokensTypeOK /\ Linked /\ WithinEveryAncestor

=============================================================================
