-------------------------------- MODULE Intent --------------------------------
(***************************************************************************)
(* From the body of a request to the hash that an approval, a credential   *)
(* and an execution are bound to: the body is searched for repeated keys,  *)
(* each field of the intent is checked and normalized, and the canonical   *)
(* form is hashed.                                                         *)
(*                                                                         *)
(* A text is a sequence of characters, a JSON value a tree.  Of Unicode    *)
(* there is an e with an accent that may be written as one character or as *)
(* two, and a character that is not allowed.                               *)
(***************************************************************************)
EXTENDS Integers, SequencesExt

CONSTANTS
  MaxText,      \* longest text of a field
  MaxItems,     \* most items of an array and keys of an object in params
  MaxAmount,    \* Number.MAX_SAFE_INTEGER
  MaxNesting    \* how deep the search for repeated keys goes

Null == [kind |-> "null"]
Bad == [kind |-> "bad_intent"]
Str(text) == [kind |-> "str", text |-> text]
Num(n) == [kind |-> "num", n |-> n]
Arr(items) == [kind |-> "arr", items |-> items]
Obj(members) == [kind |-> "obj", members |-> members]   \* pairs <<key, value>>

-----------------------------------------------------------------------------
(* The search for repeated keys.                                           *)

(* What the second pass meets: a key twice in one object, or more nesting  *)
(* than it follows.  An object counts twice, as a value and as an object.  *)
RECURSIVE Met(_, _)
Met(v, depth) ==
  (IF depth > MaxNesting THEN {"too deep"} ELSE {}) \cup
  CASE v.kind = "obj" ->
         (IF depth + 1 > MaxNesting THEN {"too deep"} ELSE {})
         \cup (IF \E i, k \in DOMAIN v.members : i # k /\ v.members[i][1] = v.members[k][1]
               THEN {"duplicate"} ELSE {})
         \cup UNION {Met(v.members[i][2], depth + 2) : i \in DOMAIN v.members}
    [] v.kind = "arr" -> UNION {Met(v.items[i], depth + 1) : i \in DOMAIN v.items}
    [] OTHER -> {}

(* Whatever the pass throws is caught, and there is no duplicate then.     *)
hasDuplicateKeys(v) == Met(v, 0) = {"duplicate"}

-----------------------------------------------------------------------------
(* Normalization.                                                          *)

NFC(text) ==
  FoldLeft(LAMBDA done, c : IF c = "'" /\ done # <<>> /\ Last(done) = "e"
                            THEN Append(Front(done), "E") ELSE Append(done, c), <<>>, text)

Disallowed(text) == "hidden" \in ToSet(text)

normStr(v, required) ==
  IF v = Null THEN IF required THEN Bad ELSE Str(<<>>)
  ELSE IF v.kind # "str" THEN Bad
  ELSE IF Len(v.text) > MaxText \/ Disallowed(v.text) THEN Bad
  ELSE Str(NFC(v.text))

(* A segment that is "..".                                                 *)
Climbs(text) ==
  \E i \in 1..Len(text) - 1 :
    /\ text[i] = "." /\ text[i + 1] = "."
    /\ i = 1 \/ text[i - 1] = "/"
    /\ i + 1 = Len(text) \/ text[i + 2] = "/"

OneSlash(text) ==
  FoldLeft(LAMBDA done, c : IF c = "/" /\ done # <<>> /\ Last(done) = "/"
                            THEN done ELSE Append(done, c), <<>>, text)

NoLastSlash(text) == IF Len(text) > 1 /\ Last(text) = "/" THEN Front(text) ELSE text

normResource(v) ==
  LET s == normStr(v, TRUE) IN
  IF s = Bad THEN Bad
  ELSE IF "\\" \in ToSet(s.text) \/ Climbs(s.text) THEN Bad
  ELSE Str(NoLastSlash(OneSlash(s.text)))

normAmount(v) ==
  IF v = Null THEN Num(0)
  ELSE IF v.kind = "num" /\ v.n \in 0..MaxAmount THEN v ELSE Bad

(* Inside params: texts, arrays and objects, however nested.               *)
RECURSIVE norm(_)
norm(x) ==
  CASE x.kind = "str" -> IF Disallowed(x.text) THEN Bad ELSE Str(NFC(x.text))
    [] x.kind = "arr" ->
         LET items == [i \in DOMAIN x.items |-> norm(x.items[i])] IN
         IF Len(items) > MaxItems \/ Bad \in ToSet(items) THEN Bad ELSE Arr(items)
    [] x.kind = "obj" ->
         LET members == [i \in DOMAIN x.members |-> <<NFC(x.members[i][1]), norm(x.members[i][2])>>]
             keys == {members[i][1] : i \in DOMAIN members}
         IN  IF \/ Len(members) > MaxItems \/ Cardinality(keys) # Len(members)
                \/ \E i \in DOMAIN members : members[i][2] = Bad
             THEN Bad ELSE Obj(members)
    [] OTHER -> x

normParams(v) ==
  IF v = Null THEN Obj(<<>>)
  ELSE IF v.kind = "obj" THEN norm(v) ELSE Bad

(* The fields that name the request; iat and exp are taken as they are.    *)
canonicalIntent(i) ==
  LET ci == [passport_id |-> normStr(i.passport_id, TRUE), action |-> normStr(i.action, TRUE),
             resource |-> normResource(i.resource), params |-> normParams(i.params),
             amount_cents |-> normAmount(i.amount_cents),
             destination |-> normStr(i.destination, FALSE), nonce |-> normStr(i.nonce, TRUE),
             aud |-> IF i.aud = Null THEN Str(<<"authragen">>) ELSE normStr(i.aud, TRUE)]
  IN  IF \E field \in DOMAIN ci : ci[field] = Bad THEN Bad ELSE ci

-----------------------------------------------------------------------------
(* The canonical form: keys sorted, texts composed, and no "signature" on  *)
(* any level.                                                              *)
RECURSIVE canonical(_)
canonical(v) ==
  CASE v.kind = "str" -> Str(NFC(v.text))
    [] v.kind = "arr" -> Arr([i \in DOMAIN v.items |-> canonical(v.items[i])])
    [] v.kind = "obj" ->
         Obj({<<NFC(m[1]), canonical(m[2])>> : m \in {k \in ToSet(v.members) : k[1] # <<"signature">>}})
    [] OTHER -> v

(* SHA-256 collides on nothing.                                            *)
intentHash(ci) == [field \in DOMAIN ci |-> canonical(ci[field])]

-----------------------------------------------------------------------------
(* What must hold of them, for inputs that a model lists.                  *)

RECURSIVE Repeats(_), Depth(_)
Repeats(v) ==
  CASE v.kind = "obj" ->
         \/ Cardinality({v.members[i][1] : i \in DOMAIN v.members}) < Len(v.members)
         \/ \E i \in DOMAIN v.members : Repeats(v.members[i][2])
    [] v.kind = "arr" -> \E i \in DOMAIN v.items : Repeats(v.items[i])
    [] OTHER -> FALSE
Depth(v) ==
  CASE v.kind = "obj" -> 1 + Max({0} \cup {Depth(v.members[i][2]) : i \in DOMAIN v.members})
    [] v.kind = "arr" -> 1 + Max({0} \cup {Depth(v.items[i]) : i \in DOMAIN v.items})
    [] OTHER -> 0

(* A repeated key is found as long as the value is half as deep as the     *)
(* search may go.                                                          *)
DuplicatesAreFound(bodies) ==
  \A v \in bodies : 2 * Depth(v) <= MaxNesting => (hasDuplicateKeys(v) <=> Repeats(v))

(* What authorize stored and execute receives again is the same intent:    *)
(* normalizing twice is normalizing once.                                  *)
NormalizesOnce(intents) ==
  \A i \in intents : LET ci == canonicalIntent(i) IN ci # Bad => canonicalIntent(ci) = ci

(* No normalized resource leaves its folder, and none has two names.       *)
ResourcesAreFlat(texts) ==
  \A t \in texts :
    LET s == normResource(Str(t)) IN
    s # Bad =>
      /\ ~Climbs(s.text)
      /\ \A i \in 1..Len(s.text) - 1 : ~(s.text[i] = "/" /\ s.text[i + 1] = "/")
      /\ Len(s.text) > 1 => Last(s.text) # "/"

(* Equal hashes are equal requests, where no key is "signature".           *)
HashTellsApart(intents) ==
  \A a, b \in intents :
    LET x == canonicalIntent(a)
        y == canonicalIntent(b)
    IN  x # Bad /\ y # Bad /\ intentHash(x) = intentHash(y) => x = y

=============================================================================
