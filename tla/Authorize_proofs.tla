---------------------------- MODULE Authorize_proofs ----------------------------
(***************************************************************************)
(* Proofs about delegation and about what is executed under it.            *)
(*                                                                         *)
(* Patterns: globMatch is what a pattern is meant to be, and globSubset is *)
(* right about every pair it accepts, for texts of one line and any        *)
(* length.                                                                 *)
(*                                                                         *)
(* Delegation: a token never covers more than any token above it, for any  *)
(* number of tokens, passports and levels.                                 *)
(* Registration compares a child with its parent only, once, and what it   *)
(* compares are patterns.  The argument goes from there to what the        *)
(* patterns match (AttenuatesIsWithin), up the chain because Within is     *)
(* transitive, and over time because a registered token does not change    *)
(* and nothing is registered above it later (Linked).                      *)
(*                                                                         *)
(* Execution: whatever the policies and the risk score decide, what runs   *)
(* is what was decided, within every grant above it.  A credential carries *)
(* the decision it came from and is not changed once it is handed out, so  *)
(* what execute() compared with it still holds when the reservation ends.  *)
(* The decision itself is one that some rules make (Weighed), so that what *)
(* they all deny does not run.                                             *)
(*                                                                         *)
(* Policies, score and limits: what evaluate() decides for any policies,   *)
(* and what the score, the buckets of the rate limiter and the thresholds  *)
(* of an organization are for any numbers.                                 *)
(***************************************************************************)
EXTENDS Authorize, Limits, WellFoundedInduction, FiniteSetTheorems, SequenceTheorems, TLAPS

-----------------------------------------------------------------------------
(* Patterns.                                                               *)

(* Induction over the naturals, for a set.                                 *)
LEMMA NatsInSet ==
  ASSUME NEW S, 0 \in S, \A n \in Nat : n \in S => n + 1 \in S
  PROVE  Nat \subseteq S
<1> DEFINE R == OpToRel(<, Nat)
           T == Nat \ S
<1>1. SUFFICES ASSUME T # {} PROVE FALSE
  OBVIOUS
<1>2. IsWellFoundedOn(R, Nat)
  BY NatLessThanWellFounded
<1>3. T \subseteq Nat
  OBVIOUS
<1> HIDE DEF R, T
<1>4. PICK x \in T : \A y \in T : ~ (<<y, x>> \in R)
  BY <1>1, <1>2, <1>3, WFMin
<1>5. x \in Nat /\ x - 1 \in Nat /\ x - 1 \in T
  BY <1>4 DEF T
<1>6. <<x - 1, x>> \in R
  BY <1>5 DEF R, OpToRel
<1> QED
  BY <1>4, <1>5, <1>6

(* And the least of some naturals.                                        *)
LEMMA LeastExists ==
  ASSUME NEW I \in SUBSET Nat, I # {}
  PROVE  \E x \in I : \A y \in I : x <= y
<1>1. PICK R : R = OpToRel(<, Nat)
  OBVIOUS
<1>2. IsWellFoundedOn(R, Nat)
  BY <1>1, NatLessThanWellFounded
<1>3. PICK x \in I : \A y \in I : ~ (<<y, x>> \in R)
  BY <1>2, WFMin
<1>4. \A y \in I : ~ (y < x)
  BY <1>1, <1>3 DEF OpToRel
<1> QED
  BY <1>4

(* The recursive function is defined.                                      *)
LEMMA EndsDefined ==
  ASSUME NEW p, NEW v, Len(p) \in Nat
  PROVE  ends(p, v) = [i \in 0..Len(p) |-> IF i = 0 THEN {0} ELSE after(ends(p, v)[i - 1], p[i], v)]
<1> DEFINE Good(f, n) == f = [i \in 0..n |-> IF i = 0 THEN {0} ELSE after(f[i - 1], p[i], v)]
           S == {n \in Nat : \E f : Good(f, n)}
<1>1. 0 \in S
  <2>1. PICK f : f = [i \in 0..0 |-> {0}]
    OBVIOUS
  <2>2. Good(f, 0)
    BY <2>1
  <2> QED
    BY <2>2
<1>2. ASSUME NEW n \in Nat, n \in S PROVE n + 1 \in S
  <2>1. PICK f : Good(f, n)
    BY <1>2
  <2>2. PICK g : g = [i \in 0..n + 1 |-> IF i = n + 1 THEN after(f[n], p[n + 1], v) ELSE f[i]]
    OBVIOUS
  <2>3. ASSUME NEW i \in 0..n + 1
        PROVE  g[i] = IF i = 0 THEN {0} ELSE after(g[i - 1], p[i], v)
    <3>1. CASE i = n + 1
      BY <3>1, <2>2
    <3>2. CASE i # n + 1
      <4>1. i \in 0..n /\ g[i] = f[i]
        BY <3>2, <2>2
      <4>2. i # 0 => g[i - 1] = f[i - 1]
        BY <4>1, <2>2
      <4>3. f[i] = IF i = 0 THEN {0} ELSE after(f[i - 1], p[i], v)
        BY <2>1, <4>1
      <4> QED
        BY <4>1, <4>2, <4>3
    <3> QED
      BY <3>1, <3>2
  <2>4. Good(g, n + 1)
    BY <2>2, <2>3
  <2> QED
    BY <2>4
<1>3. Len(p) \in S
  <2> HIDE DEF S
  <2> QED
    BY <1>1, <1>2, NatsInSet
<1>4. \E f : Good(f, Len(p))
  BY <1>3
<1>5. ends(p, v) = CHOOSE f : Good(f, Len(p))
  BY DEF ends
<1> HIDE DEF Good
<1>6. Good(ends(p, v), Len(p))
  BY <1>4, <1>5
<1> QED
  BY <1>6 DEF Good

(* The text of character c of a pattern can be what is between positions   *)
(* j and k of v.                                                           *)
Spans(c, v, j, k) == IF c = Star THEN j <= k ELSE k = j + 1 /\ v[k] = c

(* at shows how the first i characters of p stand for the first k of v.    *)
Shows(at, p, v, i, k) ==
  /\ at \in [0..i -> 0..Len(v)] /\ at[0] = 0 /\ at[i] = k
  /\ \A n \in 1..i : Spans(p[n], v, at[n - 1], at[n])

LEMMA AfterSpans ==
  ASSUME NEW v, Len(v) \in Nat, OneLine(v), NEW S \in SUBSET (0..Len(v)), NEW c, NEW k
  PROVE  /\ after(S, c, v) \subseteq 0..Len(v)
         /\ k \in after(S, c, v) <=> k \in 0..Len(v) /\ \E j \in S : Spans(c, v, j, k)
<1>1. CASE c = Star
  <2>1. \A j \in S : \A i \in 0..Len(v) : \A n \in j + 1..i : v[n] # LineSeparator
    BY DEF OneLine
  <2> QED
    BY <1>1, <2>1 DEF after, Spans
<1>2. CASE c # Star
  <2>1. k \in after(S, c, v) <=> k \in 1..Len(v) /\ k - 1 \in S /\ v[k] = c
    BY <1>2 DEF after
  <2>2. after(S, c, v) \subseteq 0..Len(v)
    BY <1>2 DEF after
  <2>3. k \in 1..Len(v) /\ k - 1 \in S /\ v[k] = c
        => k \in 0..Len(v) /\ \E j \in S : Spans(c, v, j, k)
    <3> HAVE k \in 1..Len(v) /\ k - 1 \in S /\ v[k] = c
    <3>1. k = (k - 1) + 1 /\ k \in 0..Len(v)
      OBVIOUS
    <3>2. Spans(c, v, k - 1, k)
      BY <1>2, <3>1 DEF Spans
    <3> QED
      BY ONLY <3>1, <3>2, k - 1 \in S
  <2>4. ASSUME k \in 0..Len(v), NEW j \in S, Spans(c, v, j, k)
        PROVE  k \in 1..Len(v) /\ k - 1 \in S /\ v[k] = c
    BY <1>2, <2>4 DEF Spans
  <2>5. k \in 0..Len(v) /\ (\E j \in S : Spans(c, v, j, k))
        => k \in 1..Len(v) /\ k - 1 \in S /\ v[k] = c
    BY ONLY <2>4
  <2> QED
    BY ONLY <2>1, <2>2, <2>3, <2>5
<1> QED
  BY <1>1, <1>2

(* The positions where the first i characters of p can end are those their *)
(* text can reach.                                                         *)
LEMMA EndsAreTexts ==
  ASSUME NEW p, NEW v, Len(p) \in Nat, Len(v) \in Nat, OneLine(v)
  PROVE  \A i \in 0..Len(p) : /\ ends(p, v)[i] \subseteq 0..Len(v)
                              /\ \A k : k \in ends(p, v)[i] <=> \E at : Shows(at, p, v, i, k)
<1> DEFINE Right(i) == /\ ends(p, v)[i] \subseteq 0..Len(v)
                       /\ \A k : k \in ends(p, v)[i] <=> \E at : Shows(at, p, v, i, k)
           S == {n \in Nat : n \in 0..Len(p) => Right(n)}
<1>1. Right(0)
  <2>1. ends(p, v)[0] = {0}
    BY EndsDefined
  <2>2. ASSUME NEW k, NEW at, Shows(at, p, v, 0, k) PROVE k = 0
    BY <2>2 DEF Shows
  <2>3. PICK at : at = [n \in 0..0 |-> 0]
    OBVIOUS
  <2>4. Shows(at, p, v, 0, 0)
    BY <2>3 DEF Shows
  <2> QED
    BY <2>1, <2>2, <2>4
<1>2. ASSUME NEW n \in Nat, n + 1 \in 0..Len(p), Right(n) PROVE Right(n + 1)
  <2>1. n \in 0..Len(p) /\ n + 1 \in 1..Len(p)
    BY <1>2
  <2>2. PICK E : E = ends(p, v)[n]
    OBVIOUS
  <2>3. ends(p, v)[n + 1] = after(E, p[n + 1], v)
    BY <2>1, <2>2, EndsDefined
  <2>4. E \in SUBSET (0..Len(v))
    BY <1>2, <2>2
  <2>5. ends(p, v)[n + 1] \subseteq 0..Len(v)
    BY <2>3, <2>4, AfterSpans
  <2>6. ASSUME NEW k, k \in ends(p, v)[n + 1] PROVE \E at : Shows(at, p, v, n + 1, k)
    <3>1. PICK j \in E : Spans(p[n + 1], v, j, k) /\ k \in 0..Len(v)
      BY <2>3, <2>4, <2>6, AfterSpans
    <3>2. PICK f : Shows(f, p, v, n, j)
      BY <1>2, <2>2, <3>1
    <3>3. PICK at : at = [i \in 0..n + 1 |-> IF i = n + 1 THEN k ELSE f[i]]
      OBVIOUS
    <3>4. at \in [0..n + 1 -> 0..Len(v)] /\ at[0] = 0 /\ at[n + 1] = k
      BY <3>1, <3>2, <3>3 DEF Shows
    <3>5. ASSUME NEW i \in 1..n + 1 PROVE Spans(p[i], v, at[i - 1], at[i])
      <4>1. CASE i = n + 1
        <5>1. at[i - 1] = j /\ at[i] = k
          BY <4>1, <3>2, <3>3 DEF Shows
        <5> QED
          BY <4>1, <5>1, <3>1
      <4>2. CASE i # n + 1
        <5>1. i \in 1..n /\ at[i - 1] = f[i - 1] /\ at[i] = f[i]
          BY <4>2, <3>3
        <5> QED
          BY <5>1, <3>2 DEF Shows
      <4> QED
        BY <4>1, <4>2
    <3> QED
      BY <3>4, <3>5 DEF Shows
  <2>7. ASSUME NEW k, NEW at, Shows(at, p, v, n + 1, k) PROVE k \in ends(p, v)[n + 1]
    <3>1. PICK j : j = at[n]
      OBVIOUS
    <3>2. Spans(p[n + 1], v, j, k) /\ k \in 0..Len(v) /\ j \in 0..Len(v)
      BY <2>7, <3>1 DEF Shows
    <3>3. PICK f : f = [i \in 0..n |-> at[i]]
      OBVIOUS
    <3>4. f \in [0..n -> 0..Len(v)] /\ f[0] = 0 /\ f[n] = j
      BY <2>7, <3>1, <3>3 DEF Shows
    <3>5. ASSUME NEW i \in 1..n PROVE Spans(p[i], v, f[i - 1], f[i])
      <4>1. f[i - 1] = at[i - 1] /\ f[i] = at[i] /\ i \in 1..n + 1
        BY <3>3
      <4> QED
        BY <4>1, <2>7 DEF Shows
    <3>6. j \in E
      BY <3>4, <3>5, <1>2, <2>2 DEF Shows
    <3> QED
      BY <2>3, <2>4, <3>2, <3>6, AfterSpans
  <2> QED
    BY <2>5, <2>6, <2>7
<1>3. 0 \in S
  BY <1>1
<1>4. ASSUME NEW n \in Nat, n \in S PROVE n + 1 \in S
  <2> HIDE DEF Right
  <2> QED
    BY <1>2, <1>4
<1>5. Nat \subseteq S
  <2> HIDE DEF S
  <2> QED
    BY <1>3, <1>4, NatsInSet
<1> QED
  BY <1>5

(* "*" and "**" stand for every text.                                      *)
LEMMA AnyTextShows ==
  ASSUME NEW p \in AnyText, NEW v, Len(v) \in Nat
  PROVE  \E at : Shows(at, p, v, Len(p), Len(v))
<1>1. Len(p) \in Nat /\ Len(p) > 0 /\ \A i \in 1..Len(p) : p[i] = Star
  <2>1. PICK x : x = Star
    OBVIOUS
  <2>2. CASE p = <<x>>
    <3>1. Len(p) = 1 /\ p[1] = x
      BY ONLY <2>2
    <3> QED
      BY <2>1, <3>1
  <2>3. CASE p = <<x, x>>
    <3>1. Len(p) = 2 /\ p[1] = x /\ p[2] = x
      BY ONLY <2>3
    <3> QED
      BY <2>1, <3>1
  <2> QED
    BY <2>1, <2>2, <2>3 DEF AnyText
<1>2. PICK a : a = [i \in 0..Len(p) |-> IF i = 0 THEN 0 ELSE Len(v)]
  OBVIOUS
<1>3. a \in [0..Len(p) -> 0..Len(v)] /\ a[0] = 0 /\ a[Len(p)] = Len(v)
  BY <1>1, <1>2
<1>4. ASSUME NEW i \in 1..Len(p) PROVE a[i - 1] <= a[i]
  BY <1>1, <1>2
<1>5. Shows(a, p, v, Len(p), Len(v))
  BY <1>1, <1>3, <1>4 DEF Shows, Spans
<1> QED
  BY <1>5

LEMMA MatchShows ==
  ASSUME NEW p, NEW v, Len(p) \in Nat, Len(v) \in Nat, OneLine(v)
  PROVE  globMatch(p, v) <=> \E at : Shows(at, p, v, Len(p), Len(v))
<1>1. Len(v) \in ends(p, v)[Len(p)] <=> \E at : Shows(at, p, v, Len(p), Len(v))
  BY EndsAreTexts
<1>2. p \in AnyText => \E at : Shows(at, p, v, Len(p), Len(v))
  BY AnyTextShows
<1> QED
  BY <1>1, <1>2 DEF globMatch

(* The regular expression is what a pattern is meant to be: for a text of  *)
(* one line globMatch(p, v) holds exactly when v is p with some text in    *)
(* the place of every * (policy.js globMatch).                             *)
THEOREM MatchIsText ==
  ASSUME NEW p, NEW v, Len(p) \in Nat, Len(v) \in Nat, OneLine(v)
  PROVE  globMatch(p, v) <=> Stands(p, v)
<1>1. globMatch(p, v) <=> \E at : Shows(at, p, v, Len(p), Len(v))
  BY MatchShows
<1>2. ASSUME NEW at \in [0..Len(p) -> 0..Len(v)], NEW i \in 1..Len(p)
      PROVE  Spans(p[i], v, at[i - 1], at[i])
             <=> IF p[i] = Star THEN at[i - 1] <= at[i]
                 ELSE at[i] = at[i - 1] + 1 /\ v[at[i]] = p[i]
  BY DEF Spans
<1> QED
  BY <1>1, <1>2, Zenon DEF Shows, Stands

LEMMA Monotone ==
  ASSUME NEW n \in Nat, NEW f \in [0..n -> Nat], \A i \in 1..n : f[i - 1] <= f[i],
         NEW i \in 0..n, NEW j \in 0..n, i <= j
  PROVE  f[i] <= f[j]
<1> DEFINE Z == {m \in Nat : i + m \in 0..n => f[i] <= f[i + m]}
<1>1. 0 \in Z
  OBVIOUS
<1>2. ASSUME NEW m \in Nat, m \in Z PROVE m + 1 \in Z
  <2> SUFFICES ASSUME i + m + 1 \in 0..n PROVE f[i] <= f[i + (m + 1)]
    OBVIOUS
  <2>1. i + m \in 0..n /\ i + m + 1 \in 1..n /\ i + (m + 1) = i + m + 1 /\ (i + m + 1) - 1 = i + m
    OBVIOUS
  <2>2. f[i] <= f[i + m] /\ f[i + m] <= f[i + m + 1]
    BY <1>2, <2>1
  <2> QED
    BY <2>1, <2>2
<1>3. j - i \in Z
  <2>1. j - i \in Nat
    OBVIOUS
  <2> HIDE DEF Z
  <2> QED
    BY <1>1, <1>2, <2>1, NatsInSet
<1> QED
  BY <1>3

(* Up to the first * of a pattern the text is the pattern.                 *)
LEMMA LiteralPart ==
  ASSUME NEW c, NEW v, Len(c) \in Nat, Len(v) \in Nat, NEW at, Shows(at, c, v, Len(c), Len(v)),
         NEW n \in 0..Len(c), \A i \in 1..n : c[i] # Star
  PROVE  \A i \in 0..n : at[i] = i /\ (i # 0 => v[i] = c[i])
<1> DEFINE Z == {i \in Nat : i \in 0..n => at[i] = i /\ (i # 0 => v[i] = c[i])}
<1>1. 0 \in Z
  BY DEF Shows
<1>2. ASSUME NEW i \in Nat, i \in Z PROVE i + 1 \in Z
  <2> SUFFICES ASSUME i + 1 \in 0..n PROVE at[i + 1] = i + 1 /\ v[i + 1] = c[i + 1]
    OBVIOUS
  <2>1. i \in 0..n /\ i + 1 \in 1..n /\ i + 1 \in 1..Len(c) /\ (i + 1) - 1 = i
    OBVIOUS
  <2>2. at[i] = i /\ c[i + 1] # Star
    BY <1>2, <2>1
  <2>3. Spans(c[i + 1], v, at[i], at[i + 1])
    BY <2>1 DEF Shows
  <2> QED
    BY <2>2, <2>3 DEF Spans
<1>3. Nat \subseteq Z
  <2> HIDE DEF Z
  <2> QED
    BY <1>1, <1>2, NatsInSet
<1> QED
  BY <1>3

(* indexOf("*").                                                           *)
LEMMA FirstStar ==
  ASSUME NEW p, Len(p) \in Nat, HasStar(p),
         NEW k, k = SelectInSeq(p, LAMBDA c : c = Star)
  PROVE  k \in 1..Len(p) /\ p[k] = Star /\ \A i \in 1..k - 1 : p[i] # Star
<1>1. PICK I : I = {i \in 1..Len(p) : p[i] = Star}
  OBVIOUS
<1>2. I # {} /\ I \subseteq Nat
  BY <1>1 DEF HasStar, Contains
<1>3. k = CHOOSE x \in I : \A y \in I : x <= y
  BY <1>1, <1>2 DEF SelectInSeq, Min
<1>4. \E x \in I : \A y \in I : x <= y
  BY <1>2, LeastExists
<1>5. k \in I /\ \A y \in I : k <= y
  BY <1>3, <1>4
<1>6. \A x \in I : x \in 1..Len(p) /\ p[x] = Star
  BY <1>1
<1>7. ASSUME NEW i \in 1..k - 1 PROVE p[i] # Star
  <2>1. k \in 1..Len(p)
    BY ONLY <1>5, <1>6
  <2>2. i \in 1..Len(p) /\ ~ (k <= i)
    BY ONLY <2>1, <1>7, Len(p) \in Nat
  <2>3. p[i] = Star => i \in I
    BY <1>1, <2>2
  <2> QED
    BY ONLY <2>2, <2>3, <1>5
<1>8. k \in 1..Len(p) /\ p[k] = Star
  BY ONLY <1>5, <1>6
<1> QED
  BY ONLY <1>7, <1>8

(* What comparing the two ends of a pattern says of its characters.        *)
LEMMA PrefixPart ==
  ASSUME NEW S, NEW s \in Seq(S), NEW t \in Seq(S), IsPrefix(s, t)
  PROVE  Len(s) <= Len(t) /\ \A i \in 1..Len(s) : s[i] = t[i]
<1>1. Len(s) <= Len(t) /\ SubSeq(s, 1, Len(s)) = SubSeq(t, 1, Len(s))
  BY DEF IsPrefix
<1>2. ASSUME NEW i \in 1..Len(s) PROVE s[i] = t[i]
  <2>1. SubSeq(s, 1, Len(s))[i] = s[i]
    OBVIOUS
  <2>2. SubSeq(t, 1, Len(s))[i] = t[i]
    BY <1>1
  <2> QED
    BY <1>1, <2>1, <2>2
<1> QED
  BY <1>1, <1>2

LEMMA SuffixPart ==
  ASSUME NEW S, NEW s \in Seq(S), NEW t \in Seq(S), IsSuffix(s, t)
  PROVE  /\ Len(s) <= Len(t)
         /\ \A i \in 1..Len(s) : s[i] = t[i + (Len(t) - Len(s))]
<1> DEFINE a == Reverse(s)
           b == Reverse(t)
<1>1. a \in Seq(S) /\ Len(a) = Len(s) /\ \A i \in 1..Len(s) : a[i] = s[Len(s) - i + 1]
  BY DEF Reverse
<1>2. b \in Seq(S) /\ Len(b) = Len(t) /\ \A i \in 1..Len(t) : b[i] = t[Len(t) - i + 1]
  BY DEF Reverse
<1>3. IsPrefix(a, b)
  BY DEF IsSuffix
<1> HIDE DEF a, b
<1>4. Len(a) <= Len(b) /\ \A i \in 1..Len(a) : a[i] = b[i]
  BY <1>1, <1>2, <1>3, PrefixPart
<1>5. ASSUME NEW i \in 1..Len(s) PROVE s[i] = t[i + (Len(t) - Len(s))]
  <2>1. PICK j : j = Len(s) - i + 1
    OBVIOUS
  <2>2. j \in 1..Len(s) /\ j \in 1..Len(t) /\ Len(s) - j + 1 = i /\ Len(t) - j + 1 = i + (Len(t) - Len(s))
    BY <1>1, <1>2, <1>4, <2>1
  <2>3. a[j] = s[i] /\ b[j] = t[i + (Len(t) - Len(s))]
    BY <1>1, <1>2, <2>2
  <2>4. a[j] = b[j]
    BY <1>1, <1>4, <2>2
  <2> QED
    BY <2>3, <2>4
<1> QED
  BY <1>1, <1>2, <1>4, <1>5

(* Two patterns with a * each that globSubset compares by their ends: they *)
(* agree before the first * of the parent and, counted from the end, after *)
(* it.                                                                     *)
LEMMA EndsAgree ==
  ASSUME NEW C, NEW p \in Seq(C), NEW c \in Seq(C), NEW pi \in 1..Len(p), NEW ci \in 1..Len(c),
         IsPrefix(SubSeq(p, 1, pi - 1), SubSeq(c, 1, ci - 1)),
         IsSuffix(SubSeq(p, pi + 1, Len(p)), SubSeq(c, ci + 1, Len(c)))
  PROVE  /\ pi <= ci /\ \A i \in 1..pi - 1 : p[i] = c[i]
         /\ Len(p) - pi <= Len(c) - ci
         /\ \A i \in pi + 1..Len(p) : p[i] = c[i + (Len(c) - Len(p))]
<1>1. /\ SubSeq(p, 1, pi - 1) \in Seq(C) /\ Len(SubSeq(p, 1, pi - 1)) = pi - 1
      /\ \A i \in 1..pi - 1 : SubSeq(p, 1, pi - 1)[i] = p[i]
  OBVIOUS
<1>2. /\ SubSeq(c, 1, ci - 1) \in Seq(C) /\ Len(SubSeq(c, 1, ci - 1)) = ci - 1
      /\ \A i \in 1..ci - 1 : SubSeq(c, 1, ci - 1)[i] = c[i]
  OBVIOUS
<1>3. PICK s : s = SubSeq(p, pi + 1, Len(p))
  OBVIOUS
<1>4. PICK t : t = SubSeq(c, ci + 1, Len(c))
  OBVIOUS
<1>5. s \in Seq(C) /\ Len(s) = Len(p) - pi /\ \A i \in 1..Len(p) - pi : s[i] = p[pi + i]
  BY <1>3
<1>6. t \in Seq(C) /\ Len(t) = Len(c) - ci /\ \A i \in 1..Len(c) - ci : t[i] = c[ci + i]
  BY <1>4
<1>7. pi <= ci /\ \A i \in 1..pi - 1 : p[i] = c[i]
  <2>1. /\ Len(SubSeq(p, 1, pi - 1)) <= Len(SubSeq(c, 1, ci - 1))
        /\ \A i \in 1..Len(SubSeq(p, 1, pi - 1)) : SubSeq(p, 1, pi - 1)[i] = SubSeq(c, 1, ci - 1)[i]
    BY <1>1, <1>2, PrefixPart
  <2> QED
    BY <1>1, <1>2, <2>1
<1>8. Len(s) <= Len(t) /\ \A i \in 1..Len(s) : s[i] = t[i + (Len(t) - Len(s))]
  <2>1. IsSuffix(s, t)
    BY <1>3, <1>4
  <2>2. s \in Seq(C) /\ t \in Seq(C)
    BY <1>5, <1>6
  <2> QED
    BY ONLY <2>1, <2>2, SuffixPart
<1>9. ASSUME NEW i \in pi + 1..Len(p) PROVE p[i] = c[i + (Len(c) - Len(p))]
  <2>1. PICK j : j = i - pi
    OBVIOUS
  <2>2. PICK k : k = j + (Len(t) - Len(s))
    OBVIOUS
  <2>3. j \in 1..Len(s) /\ pi + j = i /\ j \in 1..Len(p) - pi
    <3>1. Len(p) \in Nat /\ pi \in Int /\ i \in Int /\ pi + 1 <= i /\ i <= Len(p)
      OBVIOUS
    <3>2. j \in 1..Len(p) - pi /\ pi + j = i
      BY ONLY <3>1, <2>1
    <3> QED
      BY <3>2, <1>5
  <2>4. k \in 1..Len(c) - ci /\ ci + k = i + (Len(c) - Len(p))
    <3>1. PICK lp, lc, ls, lt : lp = Len(p) /\ lc = Len(c) /\ ls = Len(s) /\ lt = Len(t)
      OBVIOUS
    <3>2. /\ lp \in Nat /\ lc \in Nat /\ pi \in 1..lp /\ ci \in 1..lc
          /\ ls = lp - pi /\ lt = lc - ci /\ ls <= lt
      <4>1. Len(p) \in Nat /\ Len(c) \in Nat
        OBVIOUS
      <4>2. Len(s) = Len(p) - pi /\ Len(t) = Len(c) - ci /\ Len(s) <= Len(t)
        BY <1>5, <1>6, <1>8
      <4> QED
        BY ONLY <3>1, <4>1, <4>2, pi \in 1..Len(p), ci \in 1..Len(c)
    <3>3. j \in 1..ls /\ pi + j = i /\ k = j + (lt - ls)
      BY <2>2, <2>3, <3>1
    <3>4. k \in 1..lc - ci /\ ci + k = i + (lc - lp)
      BY ONLY <3>2, <3>3
    <3> QED
      BY ONLY <3>1, <3>4
  <2>5. s[j] = p[i] /\ t[k] = c[i + (Len(c) - Len(p))]
    BY <1>5, <1>6, <2>3, <2>4
  <2>6. s[j] = t[k]
    BY <1>8, <2>2, <2>3
  <2> QED
    BY <2>5, <2>6
<1> QED
  BY <1>5, <1>6, <1>7, <1>8, <1>9

(* Such a parent stands for every text its child stands for: its first *   *)
(* takes what is between the two ends.                                     *)
LEMMA EndsCover ==
  ASSUME NEW p, NEW c, NEW v, Len(p) \in Nat, Len(c) \in Nat, Len(v) \in Nat,
         NEW pi \in 1..Len(p), NEW ci \in 1..Len(c),
         p[pi] = Star, \A i \in 1..ci - 1 : c[i] # Star,
         pi <= ci, \A i \in 1..pi - 1 : p[i] = c[i],
         Len(p) - pi <= Len(c) - ci,
         \A i \in pi + 1..Len(p) : p[i] = c[i + (Len(c) - Len(p))],
         NEW at, Shows(at, c, v, Len(c), Len(v))
  PROVE  \E a : Shows(a, p, v, Len(p), Len(v))
<1>1. PICK d : d = Len(c) - Len(p)
  OBVIOUS
<1>2. d \in Int /\ pi + d >= ci /\ Len(p) + d = Len(c)
  BY <1>1
<1>3. PICK a : a = [i \in 0..Len(p) |-> IF i < pi THEN i ELSE at[i + d]]
  OBVIOUS
<1>4. at \in [0..Len(c) -> 0..Len(v)] /\ at[0] = 0 /\ at[Len(c)] = Len(v)
      /\ \A i \in 1..Len(c) : Spans(c[i], v, at[i - 1], at[i])
  BY DEF Shows
<1>5. \A i \in 0..ci - 1 : at[i] = i
  <2>1. PICK n : n = ci - 1
    OBVIOUS
  <2>2. n \in 0..Len(c) /\ \A i \in 1..n : c[i] # Star
    BY <2>1
  <2>3. \A i \in 0..n : at[i] = i /\ (i # 0 => v[i] = c[i])
    BY ONLY <2>2, Len(c) \in Nat, Len(v) \in Nat, Shows(at, c, v, Len(c), Len(v)), LiteralPart
  <2> QED
    BY <2>1, <2>3
<1>6. \A i, j \in 0..Len(c) : i <= j => at[i] <= at[j]
  <2>1. PICK n : n = Len(c)
    OBVIOUS
  <2>2. n \in Nat /\ at \in [0..n -> Nat]
    BY <1>4, <2>1
  <2>3. \A i \in 1..n : at[i - 1] <= at[i]
    <3>1. ASSUME NEW i \in 1..n PROVE at[i - 1] <= at[i]
      <4>1. at[i - 1] \in Nat /\ at[i] \in Nat
        BY <2>2
      <4>2. Spans(c[i], v, at[i - 1], at[i])
        BY <1>4, <2>1
      <4> QED
        BY <4>1, <4>2 DEF Spans
    <3> QED
      BY <3>1
  <2>4. \A i, j \in 0..n : i <= j => at[i] <= at[j]
    BY ONLY <2>2, <2>3, Monotone
  <2> QED
    BY <2>1, <2>4
<1>7. a \in [0..Len(p) -> 0..Len(v)]
  <2>1. ASSUME NEW i \in 0..Len(p) PROVE a[i] \in 0..Len(v)
    <3>1. CASE i < pi
      <4>1. i \in 0..ci - 1 /\ i \in 0..Len(c)
        BY <3>1
      <4>2. a[i] = i /\ at[i] = i
        BY <3>1, <4>1, <1>3, <1>5
      <4>3. at[i] \in 0..Len(v)
        BY <1>4, <4>1
      <4> QED
        BY <4>2, <4>3
    <3>2. CASE ~ (i < pi)
      <4>1. i + d \in 0..Len(c)
        BY <3>2, <1>2
      <4> QED
        BY <3>2, <4>1, <1>3, <1>4
    <3> QED
      BY <3>1, <3>2
  <2> QED
    BY <2>1, <1>3
<1>8. a[0] = 0 /\ a[Len(p)] = Len(v)
  <2>1. 0 \in 0..Len(p) /\ 0 < pi /\ Len(p) \in 0..Len(p) /\ ~ (Len(p) < pi)
    OBVIOUS
  <2>2. a[0] = 0 /\ a[Len(p)] = at[Len(p) + d]
    BY <1>3, <2>1
  <2> QED
    BY <1>2, <1>4, <2>2
<1>9. ASSUME NEW i \in 1..Len(p) PROVE Spans(p[i], v, a[i - 1], a[i])
  <2>1. CASE i < pi
    <3>1. a[i - 1] = i - 1 /\ a[i] = i /\ i \in 1..Len(c) /\ p[i] = c[i]
      BY <2>1, <1>3
    <3>2. at[i - 1] = i - 1 /\ at[i] = i
      BY <2>1, <1>5
    <3>3. Spans(c[i], v, at[i - 1], at[i])
      BY <1>4, <3>1
    <3> QED
      BY <3>1, <3>2, <3>3
  <2>2. CASE i = pi
    <3>1. a[i - 1] = pi - 1 /\ a[i] = at[pi + d]
      BY <2>2, <1>3
    <3>2. pi + d \in 0..Len(c) /\ pi - 1 \in 0..Len(c) /\ pi - 1 <= pi + d
      BY <1>2
    <3>3. at[pi - 1] = pi - 1
      BY <1>5
    <3>4. pi - 1 <= at[pi + d]
      BY <3>2, <3>3, <1>6
    <3> QED
      BY <2>2, <3>1, <3>4 DEF Spans
  <2>3. CASE i > pi
    <3>1. PICK k : k = i + d
      OBVIOUS
    <3>2. k \in 1..Len(c) /\ p[i] = c[k]
      <4>1. i \in pi + 1..Len(p)
        BY <2>3
      <4>2. p[i] = c[k]
        BY <4>1, <1>1, <3>1
      <4>3. k \in 1..Len(c)
        BY <4>1, <1>2, <3>1
      <4> QED
        BY <4>2, <4>3
    <3>3. (i - 1) + d = k - 1 /\ ~ (i - 1 < pi) /\ ~ (i < pi) /\ i - 1 \in 0..Len(p)
      BY <2>3, <1>2, <3>1
    <3>4. a[i - 1] = at[k - 1] /\ a[i] = at[k]
      BY <1>3, <3>1, <3>3
    <3>5. Spans(c[k], v, at[k - 1], at[k])
      BY <1>4, <3>2
    <3> QED
      BY <3>2, <3>4, <3>5
  <2> QED
    BY <2>1, <2>2, <2>3
<1> QED
  BY <1>7, <1>8, <1>9 DEF Shows

(* A pattern that passes globSubset covers no text of one line that its    *)
(* parent does not cover, for every two patterns (tokens.js globSubset).   *)
THEOREM GlobSubsetIsSound ==
  ASSUME NEW C, NEW p \in Seq(C), NEW c \in Seq(C), NEW v \in Seq(C), OneLine(v),
         globSubset(p, c), globMatch(c, v)
  PROVE  globMatch(p, v)
<1>1. Len(p) \in Nat /\ Len(c) \in Nat /\ Len(v) \in Nat
  OBVIOUS
<1>2. PICK at : Shows(at, c, v, Len(c), Len(v))
  BY <1>1, MatchShows
<1>3. (\E a : Shows(a, p, v, Len(p), Len(v))) => globMatch(p, v)
  BY <1>1, MatchShows
<1>4. CASE p = c
  BY <1>4
<1>5. CASE p \in AnyText
  BY <1>5 DEF globMatch
<1>6. CASE ~HasStar(c) /\ globMatch(p, c)
  <2>1. \A i \in 1..Len(c) : c[i] # Star
    BY <1>6 DEF HasStar, Contains
  <2>2. \A i \in 0..Len(c) : at[i] = i /\ (i # 0 => v[i] = c[i])
    <3>1. PICK n : n = Len(c)
      OBVIOUS
    <3>2. n \in 0..Len(c) /\ \A i \in 1..n : c[i] # Star
      BY <1>1, <2>1, <3>1
    <3>3. \A i \in 0..n : at[i] = i /\ (i # 0 => v[i] = c[i])
      BY ONLY <1>1, <1>2, <3>2, LiteralPart
    <3> QED
      BY <3>1, <3>3
  <2>3. Len(v) = Len(c)
    <3>1. at[Len(c)] = Len(v)
      BY ONLY <1>2 DEF Shows
    <3>2. Len(c) \in 0..Len(c)
      BY <1>1
    <3> QED
      BY ONLY <2>2, <3>1, <3>2
  <2>4. v = c
    BY <1>1, <2>2, <2>3
  <2> QED
    BY <1>6, <2>4
<1>7. CASE HasStar(p) /\ HasStar(c) /\ ~ (p = c) /\ p \notin AnyText
  <2>1. PICK pi : pi = SelectInSeq(p, LAMBDA x : x = Star)
    OBVIOUS
  <2>2. PICK ci : ci = SelectInSeq(c, LAMBDA x : x = Star)
    OBVIOUS
  <2>3. pi \in 1..Len(p) /\ p[pi] = Star
    BY <1>1, <1>7, <2>1, FirstStar
  <2>4. ci \in 1..Len(c) /\ \A i \in 1..ci - 1 : c[i] # Star
    BY <1>1, <1>7, <2>2, FirstStar
  <2>5. /\ IsPrefix(SubSeq(p, 1, pi - 1), SubSeq(c, 1, ci - 1))
        /\ IsSuffix(SubSeq(p, pi + 1, Len(p)), SubSeq(c, ci + 1, Len(c)))
    BY <1>7, <2>1, <2>2 DEF globSubset
  <2>6. /\ pi <= ci /\ \A i \in 1..pi - 1 : p[i] = c[i]
        /\ Len(p) - pi <= Len(c) - ci
        /\ \A i \in pi + 1..Len(p) : p[i] = c[i + (Len(c) - Len(p))]
    BY ONLY p \in Seq(C), c \in Seq(C), <2>3, <2>4, <2>5, EndsAgree
  <2>7. \E a : Shows(a, p, v, Len(p), Len(v))
    BY ONLY <1>1, <1>2, <2>3, <2>4, <2>6, EndsCover
  <2> QED
    BY <1>3, <2>7
<1> QED
  BY <1>4, <1>5, <1>6, <1>7 DEF globSubset

-----------------------------------------------------------------------------
(* Policies and the score.                                                 *)

(* evaluate() without its search of the effects.                           *)
LEMMA EvaluateIs ==
  ASSUME NEW policies, NEW req, NEW minute
  PROVE  LET has(effect) == Matching(policies, effect, req, minute) # {}
             first(effect) == CHOOSE i \in Matching(policies, effect, req, minute) :
                                \A j \in Matching(policies, effect, req, minute) : Before(policies, i, j)
             of(effect) == Verdict(effect, policies[first(effect)].id)
         IN  evaluate(policies, req, minute) =
               IF has("deny") THEN of("deny")
               ELSE IF has("require_approval") THEN of("require_approval")
               ELSE IF has("allow") THEN of("allow")
               ELSE DefaultDeny
<1> DEFINE has(effect) == Matching(policies, effect, req, minute) # {}
           first(effect) == CHOOSE i \in Matching(policies, effect, req, minute) :
                              \A j \in Matching(policies, effect, req, minute) : Before(policies, i, j)
           of(effect) == Verdict(effect, policies[first(effect)].id)
<1>1. PICK found : found = SelectInSeq(Effects, LAMBDA effect : Matching(policies, effect, req, minute) # {})
  OBVIOUS
<1>2. evaluate(policies, req, minute) = IF found = 0 THEN DefaultDeny ELSE of(Effects[found])
  BY <1>1 DEF evaluate
<1>3. PICK I : I = {k \in 1..3 : has(Effects[k])}
  OBVIOUS
<1>4. Len(Effects) = 3 /\ Effects[1] = "deny" /\ Effects[2] = "require_approval" /\ Effects[3] = "allow"
  BY DEF Effects
<1>5. found = IF I # {} THEN CHOOSE x \in I : \A y \in I : x <= y ELSE 0
  BY <1>1, <1>3, <1>4 DEF SelectInSeq, Min
<1>6. \A k \in I : (\A y \in I : k <= y) => found = k
  <2> SUFFICES ASSUME NEW k \in I, \A y \in I : k <= y PROVE found = k
    OBVIOUS
  <2>1. found = CHOOSE x \in I : \A y \in I : x <= y
    BY <1>5
  <2>2. found \in I /\ \A y \in I : found <= y
    BY ONLY <2>1, k \in I, \A y \in I : k <= y
  <2>3. I \in SUBSET Int
    BY <1>3
  <2> QED
    BY ONLY <2>2, <2>3, k \in I, \A y \in I : k <= y
<1> HIDE DEF has, of
<1>7. CASE has("deny")
  <2>1. 1 \in I /\ \A y \in I : 1 <= y
    BY <1>3, <1>4, <1>7
  <2>2. found = 1
    BY ONLY <1>6, <2>1
  <2> QED
    <3>1. evaluate(policies, req, minute) = of("deny")
      BY ONLY <1>2, <1>4, <2>2
    <3> QED
      BY ONLY <1>7, <3>1 DEF has, of
<1>8. CASE ~has("deny") /\ has("require_approval")
  <2>1. 2 \in I /\ \A y \in I : 2 <= y
    BY <1>3, <1>4, <1>8
  <2>2. found = 2
    BY ONLY <1>6, <2>1
  <2> QED
    <3>1. evaluate(policies, req, minute) = of("require_approval")
      BY ONLY <1>2, <1>4, <2>2
    <3> QED
      BY ONLY <1>8, <3>1 DEF has, of
<1>9. CASE ~has("deny") /\ ~has("require_approval") /\ has("allow")
  <2>1. 3 \in I /\ \A y \in I : 3 <= y
    BY <1>3, <1>4, <1>9
  <2>2. found = 3
    BY ONLY <1>6, <2>1
  <2> QED
    <3>1. evaluate(policies, req, minute) = of("allow")
      BY ONLY <1>2, <1>4, <2>2
    <3> QED
      BY ONLY <1>9, <3>1 DEF has, of
<1>10. CASE ~has("deny") /\ ~has("require_approval") /\ ~has("allow")
  <2>1. \A k \in 1..3 : ~has(Effects[k])
    BY <1>4, <1>10
  <2>2. found = 0
    BY <1>3, <1>5, <2>1
  <2> QED
    BY ONLY <1>2, <1>10, <2>2 DEF has, of
<1> QED
  BY <1>7, <1>8, <1>9, <1>10 DEF has

(* "Deny overrides allow", for any number of policies with any priorities  *)
(* (policy.js evaluate).                                                   *)
THEOREM DenyOverrides ==
  ASSUME NEW policies, NEW req, NEW minute
  PROVE  DenyWins(policies, req, minute)
<1> DEFINE has(effect) == Matching(policies, effect, req, minute) # {}
<1>1. \A effect : has(effect) <=> \E i \in DOMAIN policies :
                    policies[i].effect = effect /\ matches(policies[i], req, minute)
  BY DEF Matching
<1>2. PICK verdict : verdict = evaluate(policies, req, minute).provisional
  OBVIOUS
<1>3. verdict = IF has("deny") THEN "deny"
                ELSE IF has("require_approval") THEN "require_approval"
                ELSE IF has("allow") THEN "allow" ELSE "deny"
  <2>1. \A e, id : Verdict(e, id).provisional = e
    BY DEF Verdict
  <2>2. DefaultDeny.provisional = "deny"
    BY <2>1 DEF DefaultDeny
  <2> QED
    BY <1>2, <2>1, <2>2, EvaluateIs
<1> HIDE DEF has
<1>4. /\ verdict = "deny" <=> (has("deny") \/ ~(has("allow") \/ has("require_approval")))
      /\ verdict = "allow" <=> (has("allow") /\ ~has("deny") /\ ~has("require_approval"))
  BY <1>3
<1> QED
  BY <1>1, <1>2, <1>4 DEF DenyWins

(* Of finitely many policies one comes before the others.                  *)
LEMMA FirstExists ==
  ASSUME NEW policies, NEW n \in Nat, NEW M \in SUBSET (1..n), M # {},
         \A k \in M : policies[k].priority \in Int
  PROVE  \E x \in M : \A y \in M : Before(policies, x, y)
<1> DEFINE Upto(m) == {y \in M : y <= m}
           Z == {m \in Nat : Upto(m) # {} =>
                               \E x \in Upto(m) : \A y \in Upto(m) : Before(policies, x, y)}
<1>0. \A y \in M : y \in Int /\ 1 <= y /\ y <= n
  OBVIOUS
<1>1. 0 \in Z
  <2>1. \A y \in M : ~ (y <= 0)
    BY ONLY <1>0
  <2>2. Upto(0) = {}
    BY ONLY <2>1
  <2> QED
    BY <2>2
<1>2. ASSUME NEW m \in Nat, m \in Z PROVE m + 1 \in Z
  <2>1. \A y \in Upto(m + 1) : y = m + 1 \/ y \in Upto(m)
    BY <1>0
  <2>2. \A y \in Upto(m) : y \in Upto(m + 1)
    BY <1>0
  <2>3. CASE m + 1 \notin M
    <3>1. Upto(m + 1) = Upto(m)
      BY <2>1, <2>2, <2>3
    <3>2. Upto(m) # {} => \E x \in Upto(m) : \A y \in Upto(m) : Before(policies, x, y)
      BY <1>2
    <3> HIDE DEF Upto
    <3> QED
      BY ONLY <3>1, <3>2, m + 1 \in Nat
  <2>4. CASE m + 1 \in M /\ Upto(m) = {}
    <3>1. m + 1 \in Upto(m + 1) /\ \A y \in Upto(m + 1) : y = m + 1
      BY <2>1, <2>4
    <3>2. Before(policies, m + 1, m + 1)
      BY DEF Before
    <3> QED
      BY <3>1, <3>2
  <2>5. CASE m + 1 \in M /\ Upto(m) # {}
    <3>1. PICK x \in Upto(m) : \A y \in Upto(m) : Before(policies, x, y)
      BY <1>2, <2>5
    <3>2. PICK px, pm : px = policies[x].priority /\ pm = policies[m + 1].priority
      OBVIOUS
    <3>3. px \in Int /\ pm \in Int /\ x \in Int /\ x <= m
      BY <2>5, <3>2
    <3>4. CASE px >= pm
      <4>1. Before(policies, x, m + 1)
        <5>1. x <= m + 1 /\ (px > pm \/ px = pm)
          BY ONLY <3>3, <3>4, m \in Nat
        <5> QED
          BY ONLY <3>2, <5>1 DEF Before
      <4>2. x \in Upto(m + 1) /\ \A y \in Upto(m + 1) : Before(policies, x, y)
        BY <2>1, <2>2, <3>1, <4>1
      <4> QED
        BY <4>2
    <3>5. CASE px < pm
      <4>1. ASSUME NEW y \in Upto(m) PROVE Before(policies, m + 1, y)
        <5>1. PICK py : py = policies[y].priority
          OBVIOUS
        <5>2. py \in Int /\ (px > py \/ px = py)
          BY <3>1, <3>2, <5>1 DEF Before
        <5>3. pm > py
          BY ONLY <3>3, <3>5, <5>2
        <5> QED
          BY ONLY <3>2, <5>1, <5>3 DEF Before
      <4>2. Before(policies, m + 1, m + 1)
        BY DEF Before
      <4>3. m + 1 \in Upto(m + 1) /\ \A y \in Upto(m + 1) : Before(policies, m + 1, y)
        BY <2>1, <2>5, <4>1, <4>2
      <4> QED
        BY <4>3
    <3> QED
      BY <3>3, <3>4, <3>5
  <2> QED
    BY <2>3, <2>4, <2>5
<1>3. n \in Z
  <2> HIDE DEF Z
  <2> QED
    BY <1>1, <1>2, NatsInSet
<1>4. Upto(n) = M
  BY <1>0
<1> QED
  BY <1>3, <1>4

(* The policy that a verdict names is the one that decided: it matches, it *)
(* has the effect, and of those that do it has the highest priority, and   *)
(* is the oldest with that one (policy.js evaluate).                       *)
THEOREM FirstPolicyDecides ==
  ASSUME NEW P, NEW policies \in Seq(P), \A k \in DOMAIN policies : policies[k].priority \in Int,
         NEW req, NEW minute, evaluate(policies, req, minute) # DefaultDeny
  PROVE  LET verdict == evaluate(policies, req, minute)
             M == Matching(policies, verdict.provisional, req, minute)
         IN  \E x \in M : /\ verdict.policy_id = policies[x].id
                          /\ \A y \in M : Before(policies, x, y)
<1> DEFINE M(effect) == Matching(policies, effect, req, minute)
           first(effect) == CHOOSE x \in M(effect) : \A y \in M(effect) : Before(policies, x, y)
           of(effect) == Verdict(effect, policies[first(effect)].id)
<1>1. PICK e : M(e) # {} /\ evaluate(policies, req, minute) = of(e)
  BY EvaluateIs
<1>2. PICK T : T = M(e)
  OBVIOUS
<1>3. PICK n : n = Len(policies)
  OBVIOUS
<1>4. n \in Nat /\ T \in SUBSET (1..n) /\ T # {} /\ \A k \in T : policies[k].priority \in Int
  BY <1>1, <1>2, <1>3 DEF Matching
<1>5. \E x \in T : \A y \in T : Before(policies, x, y)
  BY ONLY <1>4, FirstExists
<1>6. first(e) \in T /\ \A y \in T : Before(policies, first(e), y)
  BY ONLY <1>2, <1>5
<1>7. of(e).provisional = e /\ of(e).policy_id = policies[first(e)].id
  BY DEF Verdict
<1> HIDE DEF of, first
<1> QED
  BY <1>1, <1>2, <1>6, <1>7

LEMMA MatchesItself ==
  ASSUME NEW v, Len(v) \in Nat, OneLine(v)
  PROVE  globMatch(v, v)
<1>1. PICK at : at = [i \in 0..Len(v) |-> i]
  OBVIOUS
<1>2. at \in [0..Len(v) -> 0..Len(v)] /\ at[0] = 0 /\ at[Len(v)] = Len(v)
  BY <1>1
<1>3. ASSUME NEW i \in 1..Len(v) PROVE Spans(v[i], v, at[i - 1], at[i])
  <2>1. at[i - 1] = i - 1 /\ at[i] = i
    BY <1>1
  <2> QED
    BY <2>1 DEF Spans
<1>4. Shows(at, v, v, Len(v), Len(v))
  BY <1>2, <1>3 DEF Shows
<1> QED
  BY <1>4, MatchShows

(* A conflict that is reported is one: some action and some resource are   *)
(* matched by both policies (policy.js detectConflicts).                   *)
THEOREM ReportedConflictsAreReal ==
  ASSUME NEW C, NEW values \in SUBSET Seq(C), \A v \in values : OneLine(v), NEW policies,
         \A i \in DOMAIN policies : policies[i].actions \cup policies[i].resources \subseteq values
  PROVE  ConflictsAreReal(policies, values)
<1>1. ASSUME NEW xs \in SUBSET values, NEW ys \in SUBSET values, NEW x \in xs, NEW y \in ys,
             globMatch(x, y) \/ globMatch(y, x)
      PROVE  \E v \in values : anyMatch(xs, v) /\ anyMatch(ys, v)
  <2>1. globMatch(x, x) /\ globMatch(y, y)
    <3>1. Len(x) \in Nat /\ Len(y) \in Nat /\ OneLine(x) /\ OneLine(y)
      OBVIOUS
    <3> QED
      BY <3>1, MatchesItself
  <2>2. CASE globMatch(x, y)
    BY <2>1, <2>2 DEF anyMatch
  <2>3. CASE globMatch(y, x)
    BY <2>1, <2>3 DEF anyMatch
  <2> QED
    BY <1>1, <2>2, <2>3
<1> SUFFICES ASSUME NEW pair \in detectConflicts(policies)
             PROVE  /\ \E v \in values : /\ anyMatch(policies[pair[1]].actions, v)
                                         /\ anyMatch(policies[pair[2]].actions, v)
                    /\ \E v \in values : /\ anyMatch(policies[pair[1]].resources, v)
                                         /\ anyMatch(policies[pair[2]].resources, v)
  BY DEF ConflictsAreReal
<1>2. PICK p, q : p = policies[pair[1]] /\ q = policies[pair[2]]
  OBVIOUS
<1>3. /\ pair[1] \in DOMAIN policies /\ pair[2] \in DOMAIN policies
      /\ \E x \in p.actions, y \in q.actions : globMatch(x, y) \/ globMatch(y, x)
      /\ \E x \in p.resources, y \in q.resources : globMatch(x, y) \/ globMatch(y, x)
  BY <1>2 DEF detectConflicts
<1>4. /\ p.actions \in SUBSET values /\ q.actions \in SUBSET values
      /\ p.resources \in SUBSET values /\ q.resources \in SUBSET values
  BY <1>2, <1>3
<1>5. \E v \in values : anyMatch(p.actions, v) /\ anyMatch(q.actions, v)
  BY <1>1, <1>3, <1>4
<1>6. \E v \in values : anyMatch(p.resources, v) /\ anyMatch(q.resources, v)
  BY <1>1, <1>3, <1>4
<1> QED
  BY <1>2, <1>5, <1>6

LEMMA ClampIs ==
  ASSUME NEW n \in Int
  PROVE  Clamp(n) = IF n < 0 THEN 0 ELSE IF n > 100 THEN 100 ELSE n
<1>1. PICK m : m = Max({0, n})
  OBVIOUS
<1>2. m = IF n < 0 THEN 0 ELSE n
  BY <1>1 DEF Max
<1>3. Min({100, m}) = IF m > 100 THEN 100 ELSE m
  BY <1>2 DEF Min
<1> QED
  BY <1>1, <1>2, <1>3 DEF Clamp

LEMMA SpendRiskIs ==
  ASSUME NEW m1 \in Nat, NEW m2 \in Nat, m1 <= m2
  PROVE  SpendRisk(m1) \in Nat /\ SpendRisk(m2) \in Nat /\ SpendRisk(m1) <= SpendRisk(m2)
<1>1. PICK q1, q2 : q1 = (m1 + 50) \div 100 /\ q2 = (m2 + 50) \div 100
  OBVIOUS
<1>2. q1 \in Nat /\ q2 \in Nat /\ q1 <= q2
  BY <1>1
<1>3. Min({30, q1}) = IF q1 > 30 THEN 30 ELSE q1
  BY <1>2 DEF Min
<1>4. Min({30, q2}) = IF q2 > 30 THEN 30 ELSE q2
  BY <1>2 DEF Min
<1> QED
  BY <1>1, <1>2, <1>3, <1>4 DEF SpendRisk

LEMMA BaseIsNat == ASSUME NEW a PROVE baseFor(a) \in Nat
<1>1. PICK I : I = {i \in 1..Len(Base) : IsPrefix(Base[i][1], a)}
  OBVIOUS
<1>2. PICK i : i = SelectInSeq(Base, LAMBDA b : IsPrefix(b[1], a))
  OBVIOUS
<1>3. i = IF I # {} THEN CHOOSE x \in I : \A y \in I : x <= y ELSE 0
  BY <1>1, <1>2 DEF SelectInSeq, Min
<1>4. Len(Base) = 8
  BY DEF Base
<1>5. \A x \in 1..8 : Base[x][2] \in Nat
  BY DEF Base
<1>6. I # {} => i \in I
  <2> SUFFICES ASSUME I # {} PROVE i \in I
    OBVIOUS
  <2>1. I \in SUBSET Nat
    BY <1>1, <1>4
  <2>2. \E x \in I : \A y \in I : x <= y
    BY <2>1, LeastExists
  <2>3. i = CHOOSE x \in I : \A y \in I : x <= y
    BY <1>3
  <2> QED
    BY ONLY <2>2, <2>3
<1>7. i = 0 \/ i \in 1..8
  BY <1>1, <1>3, <1>4, <1>6
<1>8. baseFor(a) = IF i = 0 THEN 15 ELSE Base[i][2]
  BY <1>2 DEF baseFor
<1> QED
  BY ONLY <1>5, <1>7, <1>8

(* More money, a longer chain or a new target never lowers the score, and  *)
(* the score is a percentage (risk.js score).                              *)
THEOREM RiskIsMonotone ==
  ASSUME NEW actions, NEW spends \in SUBSET Nat, NEW depths \in SUBSET Nat
  PROVE  ScoreIsMonotone(actions, spends, depths)
<1> USE DEF ScoreIsMonotone
<1> TAKE a \in actions, hour \in {0, 5, 6, 23}
<1> TAKE m1, m2 \in spends, d1, d2 \in depths
<1> HAVE m1 <= m2 /\ d1 <= d2
<1>1. PICK base, s1, s2 : base = baseFor(a) /\ s1 = SpendRisk(m1) /\ s2 = SpendRisk(m2)
  OBVIOUS
<1>2. base \in Nat /\ s1 \in Nat /\ s2 \in Nat /\ s1 <= s2 /\ d1 \in Nat /\ d2 \in Nat
  BY <1>1, BaseIsNat, SpendRiskIs
<1>3. PICK new \in {0, 10} :
        new = IF Mentions(a, {<<"payments", ".">>, <<"admin", ".">>, <<"external", ".">>}) THEN 10 ELSE 0
  OBVIOUS
<1>4. PICK night \in {0, 5} : night = IF hour < 6 THEN 5 ELSE 0
  OBVIOUS
<1>5. PICK deep1, deep2 :
        /\ deep1 = IF d1 >= 2 /\ Mentions(a, {<<"payments", ".">>, <<"admin", ".">>, <<"code", ".", "exec">>})
                   THEN 15 ELSE 0
        /\ deep2 = IF d2 >= 2 /\ Mentions(a, {<<"payments", ".">>, <<"admin", ".">>, <<"code", ".", "exec">>})
                   THEN 15 ELSE 0
  OBVIOUS
<1>6. deep1 \in {0, 15} /\ deep2 \in {0, 15} /\ deep1 <= deep2
  BY <1>2, <1>5
<1>7. score(a, m1, d1, TRUE, hour) = Clamp(base + s1 + 5 * d1 + 0 + night + deep1)
  BY <1>1, <1>4, <1>5 DEF score
<1>8. score(a, m2, d2, TRUE, hour) = Clamp(base + s2 + 5 * d2 + 0 + night + deep2)
  BY <1>1, <1>4, <1>5 DEF score
<1>9. score(a, m1, d1, FALSE, hour) = Clamp(base + s1 + 5 * d1 + new + night + deep1)
  BY <1>1, <1>3, <1>4, <1>5 DEF score
<1>10. score(a, m2, d2, FALSE, hour) = Clamp(base + s2 + 5 * d2 + new + night + deep2)
  BY <1>1, <1>3, <1>4, <1>5 DEF score
<1>11. PICK t1, t2, t3, t4 :
         /\ t1 = base + s1 + 5 * d1 + 0 + night + deep1
         /\ t2 = base + s2 + 5 * d2 + 0 + night + deep2
         /\ t3 = base + s1 + 5 * d1 + new + night + deep1
         /\ t4 = base + s2 + 5 * d2 + new + night + deep2
  OBVIOUS
<1>12. /\ t1 \in Int /\ t2 \in Int /\ t3 \in Int /\ t4 \in Int
       /\ t1 <= t2 /\ t1 <= t3
  BY ONLY <1>2, <1>6, <1>11, d1 <= d2, new \in {0, 10}, night \in {0, 5}
<1>13. /\ Clamp(t1) = IF t1 < 0 THEN 0 ELSE IF t1 > 100 THEN 100 ELSE t1
       /\ Clamp(t2) = IF t2 < 0 THEN 0 ELSE IF t2 > 100 THEN 100 ELSE t2
       /\ Clamp(t3) = IF t3 < 0 THEN 0 ELSE IF t3 > 100 THEN 100 ELSE t3
       /\ Clamp(t4) = IF t4 < 0 THEN 0 ELSE IF t4 > 100 THEN 100 ELSE t4
  BY <1>12, ClampIs
<1>14. Clamp(t1) <= Clamp(t2) /\ Clamp(t1) <= Clamp(t3) /\ Clamp(t4) \in 0..100
  BY ONLY <1>12, <1>13
<1> QED
  BY ONLY <1>7, <1>8, <1>9, <1>10, <1>11, <1>14

-----------------------------------------------------------------------------
(* Limits.                                                                 *)

LEMMA BucketsDefined ==
  ASSUME NEW times, Len(times) \in Nat
  PROVE  Buckets(times) = [i \in 0..Len(times) |->
                             IF i = 0 THEN NoBucket ELSE Bucket(Buckets(times)[i - 1], times[i])]
<1> DEFINE Good(f, n) == f = [i \in 0..n |-> IF i = 0 THEN NoBucket ELSE Bucket(f[i - 1], times[i])]
           S == {n \in Nat : \E f : Good(f, n)}
<1>1. 0 \in S
  <2>1. PICK f : f = [i \in 0..0 |-> NoBucket]
    OBVIOUS
  <2>2. Good(f, 0)
    BY <2>1
  <2> QED
    BY <2>2
<1>2. ASSUME NEW n \in Nat, n \in S PROVE n + 1 \in S
  <2>1. PICK f : Good(f, n)
    BY <1>2
  <2>2. PICK g : g = [i \in 0..n + 1 |-> IF i = n + 1 THEN Bucket(f[n], times[n + 1]) ELSE f[i]]
    OBVIOUS
  <2>3. ASSUME NEW i \in 0..n + 1
        PROVE  g[i] = IF i = 0 THEN NoBucket ELSE Bucket(g[i - 1], times[i])
    <3>1. CASE i = n + 1
      BY <3>1, <2>2
    <3>2. CASE i # n + 1
      <4>1. i \in 0..n /\ g[i] = f[i]
        BY <3>2, <2>2
      <4>2. i # 0 => g[i - 1] = f[i - 1]
        BY <4>1, <2>2
      <4>3. f[i] = IF i = 0 THEN NoBucket ELSE Bucket(f[i - 1], times[i])
        BY <2>1, <4>1
      <4> QED
        BY <4>1, <4>2, <4>3
    <3> QED
      BY <3>1, <3>2
  <2>4. Good(g, n + 1)
    BY <2>2, <2>3
  <2> QED
    BY <2>4
<1>3. Len(times) \in S
  <2> HIDE DEF S
  <2> QED
    BY <1>1, <1>2, NatsInSet
<1>4. \E f : Good(f, Len(times))
  BY <1>3
<1>5. Buckets(times) = CHOOSE f : Good(f, Len(times))
  BY DEF Buckets
<1> HIDE DEF Good
<1>6. Good(Buckets(times), Len(times))
  BY <1>4, <1>5
<1> QED
  BY <1>6 DEF Good

(* One call: its bucket is the one before it, or starts with it.           *)
LEMMA NextBucket ==
  ASSUME NEW times \in Seq(Nat), NEW i \in 1..Len(times)
  PROVE  LET b == Buckets(times) IN
         b[i] = IF times[i] > b[i - 1].reset THEN [count |-> 1, reset |-> times[i] + Minute]
                ELSE [b[i - 1] EXCEPT !.count = b[i - 1].count + 1]
<1>1. Len(times) \in Nat /\ i \in 0..Len(times) /\ i # 0 /\ i - 1 \in 0..Len(times)
  OBVIOUS
<1>2. PICK b : b = Buckets(times)
  OBVIOUS
<1>3. b[i] = Bucket(b[i - 1], times[i])
  BY <1>1, <1>2, BucketsDefined
<1>4. CASE times[i] > b[i - 1].reset
  <2>1. b[i] = [[count |-> 0, reset |-> times[i] + Minute] EXCEPT !.count = 0 + 1]
    BY <1>3, <1>4 DEF Bucket
  <2>2. b[i] = [count |-> 1, reset |-> times[i] + Minute]
    BY <2>1
  <2> QED
    BY <1>2, <1>4, <2>2
<1>5. CASE ~ (times[i] > b[i - 1].reset)
  <2>1. b[i] = [b[i - 1] EXCEPT !.count = b[i - 1].count + 1]
    BY <1>3, <1>5 DEF Bucket
  <2> QED
    BY <1>2, <1>5, <2>1
<1> QED
  BY <1>4, <1>5

LEMMA BucketType ==
  ASSUME NEW times \in Seq(Nat), NEW i \in 0..Len(times)
  PROVE  Buckets(times)[i] \in [count : Nat, reset : Int]
<1> DEFINE Z == {n \in Nat : n \in 0..Len(times) => Buckets(times)[n] \in [count : Nat, reset : Int]}
<1>1. 0 \in Z
  <2>1. Buckets(times)[0] = NoBucket
    BY BucketsDefined
  <2> QED
    BY <2>1 DEF NoBucket
<1>2. ASSUME NEW n \in Nat, n \in Z PROVE n + 1 \in Z
  <2> SUFFICES ASSUME n + 1 \in 0..Len(times) PROVE Buckets(times)[n + 1] \in [count : Nat, reset : Int]
    OBVIOUS
  <2>1. n + 1 \in 1..Len(times) /\ (n + 1) - 1 = n /\ n \in 0..Len(times)
    OBVIOUS
  <2>2. PICK b : b = Buckets(times)
    OBVIOUS
  <2>3. PICK t : t = times[n + 1]
    OBVIOUS
  <2>4. b[n] \in [count : Nat, reset : Int] /\ t \in Nat
    BY <1>2, <2>1, <2>2, <2>3
  <2>5. b[n + 1] = IF t > b[n].reset THEN [count |-> 1, reset |-> t + Minute]
                   ELSE [b[n] EXCEPT !.count = b[n].count + 1]
    BY <2>1, <2>2, <2>3, NextBucket
  <2>6. t + Minute \in Int /\ b[n].count + 1 \in Nat
    BY <2>4, MinuteAssumption
  <2> QED
    BY <2>2, <2>4, <2>5, <2>6
<1>3. i \in Z
  <2>1. i \in Nat
    OBVIOUS
  <2> HIDE DEF Z
  <2> QED
    BY <1>1, <1>2, <2>1, NatsInSet
<1> QED
  BY <1>3

(* Of two calls the later one counts more, or a bucket was started between *)
(* them, after the first one's had run out.                                *)
LEMMA LaterCounts ==
  ASSUME NEW times \in Seq(Nat), NEW i \in 1..Len(times), NEW j \in i + 1..Len(times)
  PROVE  LET b == Buckets(times) IN
         \/ b[j].reset = b[i].reset /\ b[j].count > b[i].count
         \/ \E k \in i + 1..j : b[j].reset = times[k] + Minute /\ times[k] > b[i].reset
<1>1. PICK b : b = Buckets(times)
  OBVIOUS
<1> DEFINE Fine(n) == \/ b[n].reset = b[i].reset /\ b[n].count > b[i].count
                      \/ \E k \in i + 1..n : b[n].reset = times[k] + Minute /\ times[k] > b[i].reset
           Z == {m \in Nat : i + 1 + m \in 0..Len(times) => Fine(i + 1 + m)}
<1>2. \A n \in 0..Len(times) : b[n] \in [count : Nat, reset : Int]
  BY <1>1, BucketType
<1>3. \A n \in 1..Len(times) :
        b[n] = IF times[n] > b[n - 1].reset THEN [count |-> 1, reset |-> times[n] + Minute]
               ELSE [b[n - 1] EXCEPT !.count = b[n - 1].count + 1]
  BY <1>1, NextBucket
<1>4. ASSUME NEW n \in 1..Len(times), i < n, n - 1 = i \/ (i < n - 1 /\ Fine(n - 1))
      PROVE  Fine(n)
  <2>1. n - 1 \in 0..Len(times) /\ b[n - 1] \in [count : Nat, reset : Int] /\ times[n] \in Nat
    BY <1>2
  <2>2. i \in 0..Len(times) /\ b[i] \in [count : Nat, reset : Int]
    BY <1>2
  <2>3. CASE times[n] > b[n - 1].reset
    <3>1. b[n].reset = times[n] + Minute
      <4>1. b[n] = [count |-> 1, reset |-> times[n] + Minute]
        BY <1>3, <2>3
      <4> QED
        BY <4>1
    <3>2. b[n - 1].reset >= b[i].reset
      <4>1. CASE n - 1 = i
        BY <2>2, <4>1
      <4>2. CASE i < n - 1 /\ Fine(n - 1)
        <5>1. CASE b[n - 1].reset = b[i].reset
          BY <2>2, <5>1
        <5>2. ASSUME NEW k \in i + 1..n - 1, b[n - 1].reset = times[k] + Minute, times[k] > b[i].reset
              PROVE  b[n - 1].reset >= b[i].reset
          <6>1. times[k] \in Nat
            OBVIOUS
          <6>2. b[i].reset \in Int
            BY ONLY <2>2
          <6>3. PICK r, t, m : r = b[i].reset /\ t = times[k] /\ m = Minute
            OBVIOUS
          <6>4. t + m >= r
            BY ONLY <5>2, <6>1, <6>2, <6>3, MinuteAssumption
          <6> QED
            BY ONLY <5>2, <6>3, <6>4
        <5> QED
          BY <4>2, <5>1, <5>2
      <4> QED
        BY <1>4, <4>1, <4>2
    <3>3. times[n] > b[i].reset
      <4>1. b[n - 1].reset \in Int /\ b[i].reset \in Int
        BY ONLY <2>1, <2>2
      <4>2. PICK r, s, t : r = b[i].reset /\ s = b[n - 1].reset /\ t = times[n]
        OBVIOUS
      <4>3. r \in Int /\ s \in Int /\ t \in Nat /\ t > s /\ s >= r
        BY ONLY <2>1, <2>3, <3>2, <4>1, <4>2
      <4>4. t > r
        BY ONLY <4>3
      <4> QED
        BY ONLY <4>2, <4>4
    <3>4. n \in i + 1..n
      BY <1>4
    <3> QED
      BY <3>1, <3>3, <3>4
  <2>4. CASE ~ (times[n] > b[n - 1].reset)
    <3>1. b[n].reset = b[n - 1].reset /\ b[n].count = b[n - 1].count + 1
      BY <1>3, <2>1, <2>4
    <3>2. CASE n - 1 = i
      BY <2>2, <3>1, <3>2
    <3>3. CASE i < n - 1 /\ Fine(n - 1)
      <4>1. CASE b[n - 1].reset = b[i].reset /\ b[n - 1].count > b[i].count
        <5>1. b[n - 1].count \in Nat /\ b[i].count \in Nat
          BY ONLY <2>1, <2>2
        <5>2. PICK x, y, z : x = b[i].count /\ y = b[n - 1].count /\ z = b[n].count
          OBVIOUS
        <5>3. x \in Nat /\ y \in Nat /\ y > x /\ z = y + 1
          BY ONLY <3>1, <4>1, <5>1, <5>2
        <5>4. z > x
          BY ONLY <5>3
        <5>5. b[n].reset = b[i].reset
          BY ONLY <3>1, <4>1
        <5> QED
          BY ONLY <5>2, <5>4, <5>5
      <4>2. ASSUME NEW k \in i + 1..n - 1, b[n - 1].reset = times[k] + Minute, times[k] > b[i].reset
            PROVE  Fine(n)
        <5>1. k \in i + 1..n
          BY <1>4
        <5> QED
          BY <3>1, <4>2, <5>1
      <4> QED
        BY <3>3, <4>1, <4>2
    <3> QED
      BY <1>4, <3>2, <3>3
  <2> QED
    BY <2>3, <2>4
<1>5. 0 \in Z
  <2> SUFFICES ASSUME i + 1 + 0 \in 0..Len(times) PROVE Fine(i + 1 + 0)
    OBVIOUS
  <2>1. i + 1 \in 1..Len(times) /\ i < i + 1 /\ (i + 1) - 1 = i /\ i + 1 + 0 = i + 1
    OBVIOUS
  <2> HIDE DEF Fine
  <2> QED
    BY <1>4, <2>1
<1>6. ASSUME NEW m \in Nat, m \in Z PROVE m + 1 \in Z
  <2> SUFFICES ASSUME i + 1 + (m + 1) \in 0..Len(times) PROVE Fine(i + 1 + (m + 1))
    OBVIOUS
  <2>1. PICK n : n = i + 1 + (m + 1)
    OBVIOUS
  <2>2. n \in 1..Len(times) /\ i < n /\ i < n - 1 /\ n - 1 = i + 1 + m /\ i + 1 + m \in 0..Len(times)
    BY <2>1
  <2> HIDE DEF Fine
  <2>3. Fine(n - 1)
    BY <1>6, <2>2
  <2> QED
    BY <1>4, <2>1, <2>2, <2>3
<1>7. j - (i + 1) \in Z
  <2>1. j - (i + 1) \in Nat
    OBVIOUS
  <2> HIDE DEF Z
  <2> QED
    BY <1>5, <1>6, <2>1, NatsInSet
<1>8. Fine(j)
  <2>1. i + 1 + (j - (i + 1)) = j /\ j \in 0..Len(times)
    OBVIOUS
  <2> HIDE DEF Fine
  <2> QED
    BY <1>7, <2>1
<1> QED
  BY <1>1, <1>8

(* A set of calls whose counts are different numbers from a to limit.      *)
LEMMA DifferentCounts ==
  ASSUME NEW S, NEW count, NEW a \in Int, NEW limit \in Int, a <= limit + 1,
         \A i \in S : count[i] \in a..limit,
         \A i, j \in S : i # j => count[i] # count[j]
  PROVE  IsFiniteSet(S) /\ Cardinality(S) <= limit - a + 1
<1>1. PICK f : f = [i \in S |-> count[i]]
  OBVIOUS
<1>2. PICK T : T = a..limit
  OBVIOUS
<1>3. IsFiniteSet(T) /\ Cardinality(T) = limit - a + 1
  BY <1>2, FS_Interval
<1>4. f \in Injection(S, T)
  BY <1>1, <1>2 DEF Injection, IsInjective
<1> QED
  BY <1>3, <1>4, FS_Injection


(* However calls are timed, and whatever the limit, a minute admits less   *)
(* than two buckets of them (server.js rateLimit).                         *)
THEOREM RateIsBounded ==
  ASSUME NEW times \in Seq(Nat), \A i, j \in 1..Len(times) : i <= j => times[i] <= times[j],
         NEW limit \in Nat \ {0}, NEW from \in Int
  PROVE  /\ IsFiniteSet(AdmittedWithin(times, limit, from))
         /\ Cardinality(AdmittedWithin(times, limit, from)) < 2 * limit
<1>1. PICK b : b = Buckets(times)
  OBVIOUS
<1>2. PICK A : A = AdmittedWithin(times, limit, from)
  OBVIOUS
<1>3. PICK count : count = [i \in 1..Len(times) |-> b[i].count]
  OBVIOUS
<1>4. PICK Old : Old = {i \in A : b[i].reset < from + Minute}
  OBVIOUS
<1>5. PICK New : New = {i \in A : b[i].reset >= from + Minute}
  OBVIOUS
<1>6. \A i \in 1..Len(times) : b[i] \in [count : Nat, reset : Int] /\ times[i] \in Nat
  BY <1>1, BucketType
<1>7. \A i \in A : /\ i \in 1..Len(times) /\ b[i].count <= limit
                   /\ from <= times[i] /\ times[i] <= from + Minute
  BY <1>1, <1>2, MinuteAssumption DEF AdmittedWithin, Admitted
<1>8. ASSUME NEW i \in A
      PROVE  b[i].count \in 1..limit /\ (b[i].count = 1 => b[i].reset >= from + Minute)
  <2>1. i \in 1..Len(times) /\ i - 1 \in 0..Len(times)
    BY <1>7
  <2>2. PICK p : p = b[i - 1]
    OBVIOUS
  <2>3. b[i] = IF times[i] > p.reset THEN [count |-> 1, reset |-> times[i] + Minute]
               ELSE [p EXCEPT !.count = p.count + 1]
    BY <1>1, <2>1, <2>2, NextBucket
  <2>4. p \in [count : Nat, reset : Int]
    BY <1>1, <2>1, <2>2, BucketType
  <2>5. CASE times[i] > p.reset
    <3>1. b[i].count = 1 /\ b[i].reset = times[i] + Minute
      BY <2>3, <2>5
    <3> QED
      BY <1>6, <1>7, <2>1, <3>1, MinuteAssumption
  <2>6. CASE ~ (times[i] > p.reset)
    <3>1. b[i].count = p.count + 1
      BY <2>3, <2>4, <2>6
    <3>2. p.count # 0
      <4>1. i - 1 = 0 => p.reset < 0
        BY <1>1, <2>2, BucketsDefined DEF NoBucket
      <4>2. i - 1 # 0
        BY <1>6, <2>1, <2>4, <2>6, <4>1
      <4>3. PICK k : k = i - 1
        OBVIOUS
      <4>4. k \in 1..Len(times) /\ k - 1 \in 0..Len(times)
        BY <2>1, <4>2, <4>3
      <4>5. PICK q : q = b[k - 1]
        OBVIOUS
      <4>6. q \in [count : Nat, reset : Int]
        BY <1>1, <4>4, <4>5, BucketType
      <4>7. p = IF times[k] > q.reset THEN [count |-> 1, reset |-> times[k] + Minute]
                ELSE [q EXCEPT !.count = q.count + 1]
        BY <1>1, <2>2, <4>3, <4>4, <4>5, NextBucket
      <4>8. p.count = IF times[k] > q.reset THEN 1 ELSE q.count + 1
        BY <4>6, <4>7
      <4> QED
        BY <4>6, <4>8
    <3> QED
      BY <1>7, <2>4, <3>1, <3>2
  <2> QED
    BY <2>5, <2>6
<1>9. ASSUME NEW i \in A, NEW j \in A, i < j,
             \/ b[i].reset >= from + Minute
             \/ b[j].reset < from + Minute
      PROVE  b[i].count # b[j].count
  <2>1. i \in 1..Len(times) /\ j \in i + 1..Len(times)
    BY <1>7, <1>9
  <2>2. \/ b[j].reset = b[i].reset /\ b[j].count > b[i].count
        \/ \E k \in i + 1..j : b[j].reset = times[k] + Minute /\ times[k] > b[i].reset
    BY <1>1, <2>1, LaterCounts
  <2>3. ASSUME NEW k \in i + 1..j, b[j].reset = times[k] + Minute, times[k] > b[i].reset
        PROVE  FALSE
    <3>1. k \in 1..Len(times) /\ j \in 1..Len(times) /\ i <= k /\ k <= j
      BY <2>1
    <3>2. times[i] <= times[k] /\ times[k] <= times[j]
      BY <2>1, <3>1
    <3>3. from <= times[k] /\ times[k] <= from + Minute /\ times[k] \in Nat
      BY <1>6, <1>7, <2>1, <3>1, <3>2, MinuteAssumption
    <3>4. b[i].reset \in Int
      BY <1>6, <2>1
    <3> QED
      BY <1>9, <2>3, <3>3, <3>4, MinuteAssumption
  <2>4. b[j].count > b[i].count
    BY <2>2, <2>3
  <2> QED
    BY <1>6, <2>1, <2>4
<1>10. IsFiniteSet(New) /\ Cardinality(New) <= limit - 1 + 1
  <2>1. \A i \in New : count[i] \in 1..limit
    BY <1>3, <1>5, <1>7, <1>8
  <2>2. ASSUME NEW i \in New, NEW j \in New, i # j PROVE count[i] # count[j]
    <3>1. i \in A /\ j \in A /\ b[i].reset >= from + Minute /\ b[j].reset >= from + Minute
      BY <1>5
    <3>2. i < j \/ j < i
      BY <1>7, <2>2, <3>1
    <3>3. b[i].count # b[j].count
      BY <1>9, <3>1, <3>2
    <3> QED
      BY <1>3, <1>7, <3>1, <3>3
  <2>3. limit \in Int /\ 1 \in Int /\ 1 <= limit + 1
    OBVIOUS
  <2> QED
    BY ONLY <2>1, <2>2, <2>3, DifferentCounts
<1>11. IsFiniteSet(Old) /\ Cardinality(Old) <= limit - 2 + 1
  <2>1. ASSUME NEW i \in Old PROVE count[i] \in 2..limit
    <3>1. i \in A /\ b[i].reset < from + Minute /\ i \in 1..Len(times)
      BY <1>4, <1>7
    <3>2. b[i].count \in 1..limit /\ b[i].reset \in Int
      BY <1>6, <1>8, <3>1
    <3>3. b[i].count # 1
      BY <1>8, <3>1, <3>2, MinuteAssumption
    <3>4. b[i].count \in 2..limit
      BY <3>2, <3>3
    <3> QED
      BY <1>3, <3>1, <3>4
  <2>2. ASSUME NEW i \in Old, NEW j \in Old, i # j PROVE count[i] # count[j]
    <3>1. i \in A /\ j \in A /\ b[i].reset < from + Minute /\ b[j].reset < from + Minute
      BY <1>4
    <3>2. i < j \/ j < i
      BY <1>7, <2>2, <3>1
    <3>3. b[i].count # b[j].count
      BY <1>9, <3>1, <3>2
    <3> QED
      BY <1>3, <1>7, <3>1, <3>3
  <2>3. limit \in Int /\ 2 \in Int /\ 2 <= limit + 1
    OBVIOUS
  <2> QED
    BY ONLY <2>1, <2>2, <2>3, DifferentCounts
<1>12. A = Old \cup New
  <2>1. \A i \in A : b[i].reset \in Int
    BY <1>6, <1>7
  <2>2. \A i \in A : b[i].reset < from + Minute \/ b[i].reset >= from + Minute
    BY <2>1, MinuteAssumption
  <2> QED
    BY <1>4, <1>5, <2>2
<1>13. /\ IsFiniteSet(A)
       /\ Cardinality(A) = Cardinality(Old) + Cardinality(New) - Cardinality(Old \cap New)
  BY <1>10, <1>11, <1>12, FS_Union
<1>14. Cardinality(Old \cap New) \in Nat /\ Cardinality(Old) \in Nat /\ Cardinality(New) \in Nat
  <2>1. IsFiniteSet(Old \cap New)
    <3>1. Old \cap New \in SUBSET Old
      OBVIOUS
    <3> QED
      BY ONLY <1>11, <3>1, FS_Subset
  <2> QED
    BY <1>10, <1>11, <2>1, FS_CardinalityType
<1>15. Cardinality(A) < 2 * limit
  BY ONLY <1>10, <1>11, <1>13, <1>14, limit \in Nat \ {0}
<1> QED
  BY <1>2, <1>13, <1>15

(* A record that is saved has its thresholds in order, whatever was asked  *)
(* for and refused before (server.js PUT risk).                            *)
THEOREM PutRiskKeepsOrder ==
  ASSUME NEW R, NEW org \in [mem : R, saved : R], Ordered(org.saved), NEW ask
  PROVE  Ordered(PutRisk(org, ask).saved)
<1>1. PICK ceiling :
        ceiling = IF ask.risk_ceiling \in Percent
                  THEN [org.mem EXCEPT !.risk_ceiling = ask.risk_ceiling] ELSE org.mem
  OBVIOUS
<1>2. PICK both :
        both = IF ask.risk_stepup \in Percent
               THEN [ceiling EXCEPT !.risk_stepup = ask.risk_stepup] ELSE ceiling
  OBVIOUS
<1>3. \/ PutRisk(org, ask) = org
      \/ PutRisk(org, ask) = [org EXCEPT !.mem = ceiling]
      \/ PutRisk(org, ask) = [org EXCEPT !.mem = both]
      \/ /\ Unset \in {both.risk_ceiling, both.risk_stepup} \/ both.risk_stepup < both.risk_ceiling
         /\ PutRisk(org, ask) = [mem |-> both, saved |-> both]
  BY <1>1, <1>2 DEF PutRisk
<1>4. [org EXCEPT !.mem = ceiling].saved = org.saved /\ [org EXCEPT !.mem = both].saved = org.saved
  OBVIOUS
<1>5. [mem |-> both, saved |-> both].saved = both
  OBVIOUS
<1>6. Unset \in {both.risk_ceiling, both.risk_stepup} \/ both.risk_stepup < both.risk_ceiling
        => Ordered(both)
  BY DEF Ordered
<1> QED
  BY <1>3, <1>4, <1>5, <1>6

(* The band without settings of its own (server.js:43-44).                 *)
THEOREM DefaultBandIsOrdered ==
  ASSUME NEW numbers PROVE StepUpIsBelowCeiling(numbers)
<1> SUFFICES ASSUME NEW c \in numbers, NEW s \in numbers
             PROVE  RiskStepupDefault(s, RiskCeilingDefault(c)) < RiskCeilingDefault(c)
  BY DEF StepUpIsBelowCeiling
<1>1. PICK ceiling : ceiling = RiskCeilingDefault(c)
  OBVIOUS
<1>2. ceiling \in 1..100
  BY <1>1 DEF RiskCeilingDefault, boundedIntEnv
<1>3. PICK stepup : stepup = boundedIntEnv(s, 30, 0, 99)
  OBVIOUS
<1>4. stepup \in 0..99
  BY <1>3 DEF boundedIntEnv
<1> QED
  BY <1>1, <1>2, <1>3, <1>4 DEF RiskStepupDefault

-----------------------------------------------------------------------------
(* Grants.                                                                 *)

(* A set of patterns that passes registration matches no more.             *)
LEMMA SubsetMatchesLess ==
  ASSUME NEW child \in SUBSET Patterns, NEW parent \in SUBSET Patterns,
         PatternsSubset(child, parent), NEW v \in Values, AnyMatch(child, v)
  PROVE  AnyMatch(parent, v)
<1>1. PICK c \in child : globMatch(c, v)
  BY DEF AnyMatch, Matches
<1>2. PICK p \in parent : globSubset(p, c)
  BY <1>1 DEF PatternsSubset, Narrower
<1>3. p \in Seq(Characters) /\ c \in Seq(Characters) /\ v \in Seq(Characters) /\ OneLine(v)
  BY TextAssumption
<1>4. globMatch(p, v)
  BY ONLY <1>1, <1>2, <1>3, GlobSubsetIsSound
<1> QED
  BY <1>4 DEF AnyMatch, Matches

(* What registration compares bounds what the grants cover.                *)
LEMMA AttenuatesIsWithin ==
  ASSUME NEW child \in Granted, NEW parent \in Granted, Attenuates(child, parent)
  PROVE  Within(child, parent)
<1>1. ASSUME NEW v \in Values
      PROVE  /\ AnyMatch(child.scope, v) => AnyMatch(parent.scope, v)
             /\ AnyMatch(child.resources, v) => AnyMatch(parent.resources, v)
  BY <1>1, SubsetMatchesLess DEF Attenuates, Granted
<1>2. ASSUME NEW v \in Values, Targeted(child.allowed_targets, v)
      PROVE  Targeted(parent.allowed_targets, v)
  <2>1. CASE parent.allowed_targets = {}
    BY <2>1 DEF Targeted
  <2>2. CASE parent.allowed_targets # {}
    <3>1. /\ child.allowed_targets # {}
          /\ PatternsSubset(child.allowed_targets, parent.allowed_targets)
      BY <2>2 DEF Attenuates
    <3>2. AnyMatch(child.allowed_targets, v)
      BY <1>2, <3>1 DEF Targeted
    <3> QED
      BY <3>1, <3>2, SubsetMatchesLess DEF Targeted, Granted
  <2> QED
    BY <2>1, <2>2
<1>3. /\ child.max_spend_cents <= parent.max_spend_cents
      /\ child.not_after <= parent.not_after
      /\ child.max_depth <= parent.max_depth
      /\ parent.require_approval => child.require_approval
  BY DEF Attenuates
<1> QED
  BY <1>1, <1>2, <1>3 DEF Within

LEMMA WithinIsTransitive ==
  ASSUME NEW a \in Granted, NEW b \in Granted, NEW c \in Granted, Within(a, b), Within(b, c)
  PROVE  Within(a, c)
<1>1. /\ a.max_spend_cents \in Int /\ b.max_spend_cents \in Int /\ c.max_spend_cents \in Int
      /\ a.not_after \in Int /\ b.not_after \in Int /\ c.not_after \in Int
      /\ a.max_depth \in Int /\ b.max_depth \in Int /\ c.max_depth \in Int
  BY DEF Granted
<1>2. /\ a.max_spend_cents <= c.max_spend_cents
      /\ a.not_after <= c.not_after
      /\ a.max_depth <= c.max_depth
      /\ c.require_approval => a.require_approval
  BY <1>1 DEF Within
<1> QED
  BY <1>2 DEF Within

-----------------------------------------------------------------------------
(* The invariant.                                                          *)

LEMMA InitEstablishes == DelegationInit => DelegationInv
<1> SUFFICES ASSUME DelegationInit PROVE DelegationInv
  OBVIOUS
<1>1. TokensTypeOK
  BY DelegationAssumption DEF DelegationInit, TokensTypeOK
<1>2. Registered = {}
  BY DEF DelegationInit, Registered
<1> QED
  BY <1>1, <1>2 DEF DelegationInv, Linked, WithinEveryAncestor

LEMMA GivenIsOneOfBoth ==
  ASSUME NEW S, NEW wanted \in S \cup {Absent}, NEW inherited \in S
  PROVE  Given(wanted, inherited) \in S
BY DEF Given

(* What a named field or an inherited one makes of a grant.                *)
LEMMA EffectiveIsGranted ==
  ASSUME NEW wanted \in Constraints, NEW up \in Granted, NEW t,
         WellFormed(Effective(wanted, up), t)
  PROVE  Effective(wanted, up) \in Granted
<1> DEFINE granted == Effective(wanted, up)
<1>1. wanted \in AskedFor
  BY DelegationAssumption
<1>2. /\ granted.scope \in SUBSET Patterns
      /\ granted.resources \in SUBSET Patterns
      /\ granted.allowed_targets \in SUBSET Patterns
      /\ granted.not_after \in Nat
      /\ granted.require_approval \in BOOLEAN
  <2>1. /\ up.scope \in SUBSET Patterns /\ up.resources \in SUBSET Patterns
        /\ up.allowed_targets \in SUBSET Patterns
        /\ up.not_after \in Nat /\ up.require_approval \in BOOLEAN
    BY DEF Granted
  <2>2. /\ wanted.scope \in (SUBSET Patterns) \cup {Absent}
        /\ wanted.resources \in (SUBSET Patterns) \cup {Absent}
        /\ wanted.allowed_targets \in (SUBSET Patterns) \cup {Absent}
        /\ wanted.not_after \in Nat \cup {Absent}
        /\ wanted.require_approval \in BOOLEAN \cup {Absent}
    BY <1>1 DEF AskedFor
  <2>3. /\ granted.scope = Given(wanted.scope, up.scope)
        /\ granted.resources = Given(wanted.resources, up.resources)
        /\ granted.allowed_targets = Given(wanted.allowed_targets, up.allowed_targets)
        /\ granted.not_after = Given(wanted.not_after, up.not_after)
        /\ granted.require_approval = Given(wanted.require_approval, up.require_approval)
    BY DEF Effective
  <2> HIDE DEF granted
  <2>4. /\ Given(wanted.scope, up.scope) \in SUBSET Patterns
        /\ Given(wanted.resources, up.resources) \in SUBSET Patterns
        /\ Given(wanted.allowed_targets, up.allowed_targets) \in SUBSET Patterns
    BY <2>1, <2>2, GivenIsOneOfBoth
  <2>5. Given(wanted.not_after, up.not_after) \in Nat
    BY <2>1, <2>2, GivenIsOneOfBoth
  <2>6. Given(wanted.require_approval, up.require_approval) \in BOOLEAN
    BY <2>1, <2>2, GivenIsOneOfBoth
  <2>7. granted.require_approval \in BOOLEAN
    BY <2>3, <2>6, Zenon
  <2> QED
    BY <2>3, <2>4, <2>5, <2>7
<1>3. granted.max_spend_cents \in 0..MaxSafe /\ granted.max_depth \in 0..MAX_DEPTH
  <2>1. WellFormed(granted, t)
    OBVIOUS
  <2> HIDE DEF granted
  <2> QED
    BY <2>1 DEF WellFormed
<1> QED
  BY <1>2, <1>3 DEF Granted, Effective

LEMMA DefaultsAreGranted == RootDefaults \in Granted
BY DelegationAssumption DEF RootDefaults, Granted

(* Registration under conditions that a root and a child both meet.        *)
LEMMA RegisterPreserves ==
  ASSUME DelegationInv,
         NEW j \in Jtis, NEW issuer \in Passports, NEW sub \in Passports,
         NEW parent \in Jtis \cup {NoJti}, NEW depth \in 0..MAX_DEPTH, NEW granted \in Granted,
         NEW time, Register(j, issuer, sub, parent, depth, granted, time),
         depth <= granted.max_depth,
         parent = NoJti => depth = 0,
         parent # NoJti =>
           /\ parent \in Registered
           /\ tokens[parent].sub = issuer
           /\ depth = tokens[parent].depth + 1
           /\ Attenuates(granted, tokens[parent].granted)
  PROVE  DelegationInv'
<1> USE DEF DelegationInv
<1> DEFINE token == [sub |-> sub, issuer |-> issuer, parent |-> parent, depth |-> depth,
                     granted |-> granted]
           up == IF parent = NoJti THEN {} ELSE {parent} \cup above[parent]
<1>1. /\ j \notin Registered
      /\ tokens' = [tokens EXCEPT ![j] = token]
      /\ above' = [above EXCEPT ![j] = up]
      /\ UNCHANGED <<revoked, usable, keys, now>>
  BY DEF Register, Registered
<1>2. token \in Token
  BY DEF Token
<1>3. up \in SUBSET Jtis
  BY DEF TokensTypeOK
<1>4. TokensTypeOK'
  BY <1>1, <1>2, <1>3 DEF TokensTypeOK
<1>5. tokens'[j] = token /\ above'[j] = up
  BY <1>1 DEF TokensTypeOK
<1>6. ASSUME NEW k \in Jtis, k # j PROVE tokens'[k] = tokens[k] /\ above'[k] = above[k]
  BY <1>1, <1>6 DEF TokensTypeOK
<1>7. \A k \in Registered : k \in Registered' /\ k # j
  BY <1>1, <1>6 DEF Registered
<1>8. \A k \in Registered' : k = j \/ k \in Registered
  BY <1>6 DEF Registered
<1>9. \A k \in Registered : tokens[k] \in Token /\ k \in Jtis
  BY DEF TokensTypeOK, Registered
<1>10. \A a \in up : a \in Registered
  BY DEF WithinEveryAncestor
<1> HIDE DEF token, up
<1>11. Linked'
  <2> SUFFICES ASSUME NEW k \in Registered'
               PROVE  LET t == tokens'[k] IN
                      /\ t.depth <= t.granted.max_depth
                      /\ t.parent = NoJti => above'[k] = {} /\ t.depth = 0
                      /\ t.parent # NoJti =>
                           /\ t.parent \in Registered'
                           /\ above'[k] = {t.parent} \cup above'[t.parent]
                           /\ tokens'[t.parent].sub = t.issuer
                           /\ t.depth = tokens'[t.parent].depth + 1
    BY DEF Linked
  <2>1. CASE k = j
    <3>1. parent # NoJti => /\ parent \in Registered'
                            /\ tokens'[parent] = tokens[parent]
                            /\ above'[parent] = above[parent]
      BY <1>6, <1>7 DEF Registered
    <3> QED
      BY <2>1, <1>5, <3>1 DEF token, up
  <2>2. CASE k # j
    <3>1. k \in Registered
      BY <2>2, <1>8
    <3> DEFINE above_k == tokens[k].parent
    <3>2. above_k # NoJti => /\ above_k \in Registered /\ above_k \in Registered'
                             /\ tokens'[above_k] = tokens[above_k]
                             /\ above'[above_k] = above[above_k]
      BY <3>1, <1>6, <1>7, <1>9 DEF Linked
    <3>3. tokens'[k] = tokens[k] /\ above'[k] = above[k]
      BY <2>2, <3>1, <1>6, <1>9
    <3> QED
      BY <3>1, <3>2, <3>3 DEF Linked
  <2> QED
    BY <2>1, <2>2
<1>12. WithinEveryAncestor'
  <2> SUFFICES ASSUME NEW k \in Registered', NEW a \in above'[k]
               PROVE  /\ a \in Registered'
                      /\ Within(tokens'[k].granted, tokens'[a].granted)
                      /\ tokens'[a].depth < tokens'[k].depth
                      /\ tokens'[k].depth <= tokens'[a].granted.max_depth
    BY DEF WithinEveryAncestor, Within, AnyMatch, Targeted
  <2>1. CASE k # j
    <3>1. k \in Registered /\ a \in above[k]
      BY <2>1, <1>6, <1>8, <1>9
    <3>2. a \in Registered
      BY <3>1 DEF WithinEveryAncestor
    <3>3. tokens'[k] = tokens[k] /\ tokens'[a] = tokens[a]
      BY <3>1, <3>2, <2>1, <1>6, <1>7, <1>9
    <3> QED
      BY <3>1, <3>2, <3>3, <1>7 DEF WithinEveryAncestor
  <2>2. CASE k = j
    <3>1. a \in up /\ a \in Registered
      BY <2>2, <1>5, <1>10
    <3>2. parent # NoJti /\ (a = parent \/ a \in above[parent])
      BY <3>1 DEF up
    <3>3. tokens'[a] = tokens[a] /\ a \in Registered'
      BY <3>1, <1>6, <1>7, <1>9
    <3>4. /\ granted \in Granted /\ tokens[parent].granted \in Granted
          /\ tokens[a].granted \in Granted
          /\ tokens[parent].depth \in Nat /\ tokens[a].depth \in Nat
      BY <3>1, <3>2, <1>9, DelegationAssumption DEF Token
    <3>5. Within(granted, tokens[parent].granted)
      BY <3>2, <3>4, AttenuatesIsWithin
    <3>6. Within(granted, tokens[a].granted) /\ tokens[a].depth < depth
      <4>1. CASE a = parent
        BY <4>1, <3>2, <3>4, <3>5
      <4>2. CASE a \in above[parent]
        <5>1. /\ Within(tokens[parent].granted, tokens[a].granted)
              /\ tokens[a].depth < tokens[parent].depth
          BY <4>2, <3>2 DEF WithinEveryAncestor
        <5> QED
          BY <5>1, <3>2, <3>4, <3>5, WithinIsTransitive
      <4> QED
        BY <3>2, <4>1, <4>2
    <3>7. depth <= tokens[a].granted.max_depth
      <4>1. granted.max_depth <= tokens[a].granted.max_depth
        BY <3>6 DEF Within
      <4>2. granted.max_depth \in Int /\ tokens[a].granted.max_depth \in Int
        BY <3>4 DEF Granted
      <4> QED
        BY <4>1, <4>2
    <3> QED
      BY <2>2, <1>5, <3>3, <3>6, <3>7 DEF token
  <2> QED
    BY <2>1, <2>2
<1> QED
  BY <1>4, <1>11, <1>12

LEMMA RootPreserves ==
  ASSUME DelegationInv, NEW j \in Jtis, NEW issuer \in Passports, NEW sub \in Passports,
         NEW wanted \in Constraints, NEW admin \in BOOLEAN, NEW time,
         RegisterRoot(j, issuer, sub, wanted, admin, time)
  PROVE  DelegationInv'
<1> DEFINE granted == Effective(wanted, RootDefaults)
<1>1. Register(j, issuer, sub, NoJti, 0, granted, time)
  BY DEF RegisterRoot
<1>2. granted \in Granted
  BY <1>1, EffectiveIsGranted, DefaultsAreGranted DEF Register
<1>3. 0 <= granted.max_depth /\ 0 \in 0..MAX_DEPTH
  BY <1>2, DelegationAssumption DEF Granted
<1> HIDE DEF granted
<1> QED
  BY <1>1, <1>2, <1>3, RegisterPreserves

LEMMA ChildPreserves ==
  ASSUME DelegationInv, NEW j \in Jtis, NEW issuer \in Passports, NEW sub \in Passports,
         NEW wanted \in Constraints, NEW parent \in Jtis, NEW time,
         RegisterChild(j, issuer, sub, parent, wanted, time)
  PROVE  DelegationInv'
<1> DEFINE up == tokens[parent]
           granted == Effective(wanted, up.granted)
           depth == up.depth + 1
<1>1. /\ parent \in Registered /\ up.sub = issuer
      /\ Attenuates(granted, up.granted)
      /\ depth <= granted.max_depth
      /\ Register(j, issuer, sub, parent, depth, granted, time)
  BY DEF RegisterChild, Registered
<1>2. up \in Token
  BY <1>1 DEF DelegationInv, TokensTypeOK, Registered
<1>3. granted \in Granted
  BY <1>1, <1>2, EffectiveIsGranted DEF Register, Token
<1>4. depth \in 0..MAX_DEPTH
  BY <1>1, <1>2, <1>3, DelegationAssumption DEF Token, Granted
<1>5. parent # NoJti
  BY DelegationAssumption
<1> HIDE DEF granted, depth
<1>6. depth = tokens[parent].depth + 1
  BY DEF depth
<1> QED
  BY <1>1, <1>3, <1>4, <1>5, <1>6, RegisterPreserves

(* The other steps change no token and no chain.                           *)
LEMMA FramePreserves ==
  ASSUME DelegationInv, TokensTypeOK', UNCHANGED <<tokens, above>>
  PROVE  DelegationInv'
<1>1. Registered' = Registered
  BY DEF Registered
<1>2. Linked'
  BY <1>1 DEF DelegationInv, Linked
<1>3. WithinEveryAncestor'
  <2> SUFFICES ASSUME NEW k \in Registered', NEW a \in above'[k]
               PROVE  /\ a \in Registered'
                      /\ Within(tokens'[k].granted, tokens'[a].granted)
                      /\ tokens'[a].depth < tokens'[k].depth
                      /\ tokens'[k].depth <= tokens'[a].granted.max_depth
    BY DEF WithinEveryAncestor, Within, AnyMatch, Targeted
  <2>1. k \in Registered /\ a \in above[k]
    BY <1>1
  <2>2. tokens'[k] = tokens[k] /\ tokens'[a] = tokens[a]
    OBVIOUS
  <2> QED
    BY <1>1, <2>1, <2>2 DEF DelegationInv, WithinEveryAncestor
<1> QED
  BY <1>2, <1>3 DEF DelegationInv

LEMMA DelegationStep == DelegationInv /\ [DelegationNext]_delegation => DelegationInv'
<1> SUFFICES ASSUME DelegationInv, [DelegationNext]_delegation PROVE DelegationInv'
  OBVIOUS
<1>1. ASSUME NEW j \in Jtis, NEW issuer \in Passports, NEW sub \in Passports,
             NEW wanted \in Constraints, NEW admin \in BOOLEAN, NEW time,
             RegisterRoot(j, issuer, sub, wanted, admin, time)
      PROVE  DelegationInv'
  BY <1>1, RootPreserves
<1>2. ASSUME NEW j \in Jtis, NEW issuer \in Passports, NEW sub \in Passports,
             NEW wanted \in Constraints, NEW parent \in Jtis, NEW time,
             RegisterChild(j, issuer, sub, parent, wanted, time)
      PROVE  DelegationInv'
  BY <1>2, ChildPreserves
<1>3. ASSUME NEW j \in Jtis, RevokeToken(j) PROVE DelegationInv'
  BY <1>3, FramePreserves DEF RevokeToken, DelegationInv, TokensTypeOK
<1>4. ASSUME NEW p \in Passports, SetPassportStatus(p) PROVE DelegationInv'
  BY <1>4, FramePreserves DEF SetPassportStatus, DelegationInv, TokensTypeOK
<1>5. ASSUME NEW p \in Passports, ChangeKeys(p) PROVE DelegationInv'
  BY <1>5, FramePreserves DEF ChangeKeys, DelegationInv, TokensTypeOK
<1>6. CASE Tick
  BY <1>6, FramePreserves, DelegationAssumption DEF Tick, DelegationInv, TokensTypeOK
<1>7. CASE UNCHANGED delegation
  BY <1>7, FramePreserves DEF delegation, DelegationInv, TokensTypeOK
<1> QED
  BY <1>1, <1>2, <1>3, <1>4, <1>5, <1>6, <1>7 DEF DelegationNext

(* DelegationInv is inductive.                                             *)
THEOREM DelegationInductive == DelegationSpec => []DelegationInv
  BY InitEstablishes, DelegationStep, PTL DEF DelegationSpec

(* "Delegation attenuates only", along every chain and for good.           *)
THEOREM Attenuation == DelegationSpec => []WithinEveryAncestor
<1>1. DelegationInv => WithinEveryAncestor
  BY DEF DelegationInv
<1> QED
  BY <1>1, DelegationInductive, PTL

-----------------------------------------------------------------------------
(* From an intent to its execution: what a step leaves alone.              *)

(* Tokens are only added.                                                  *)
TokensStay ==
  \A j \in Registered : j \in Registered' /\ tokens'[j] = tokens[j] /\ above'[j] = above[j]

(* A credential that was handed out is not changed.                        *)
HandedStay ==
  \A r \in Requests : asked[r].pc = "done" => asked'[r].pc = "done" /\ action'[r] = action[r]

LEMMA UnchangedStay ==
  ASSUME DelegationInv, UNCHANGED delegation
  PROVE  TokensStay /\ DelegationInv'
<1>1. TokensStay
  BY DEF TokensStay, Registered, delegation
<1>2. DelegationInv'
  BY DelegationStep DEF delegation
<1> QED
  BY <1>1, <1>2

LEMMA DelegationStays ==
  ASSUME DelegationInv, DelegationNext
  PROVE  TokensStay /\ DelegationInv'
<1>1. DelegationInv'
  BY DelegationStep
<1>2. ASSUME NEW k \in Registered
      PROVE  k \in Registered' /\ tokens'[k] = tokens[k] /\ above'[k] = above[k]
  <2>1. ASSUME NEW j \in Jtis, NEW issuer, NEW sub, NEW parent, NEW depth, NEW granted,
               NEW time, Register(j, issuer, sub, parent, depth, granted, time)
        PROVE  tokens'[k] = tokens[k] /\ above'[k] = above[k]
    <3>1. k # j /\ k \in Jtis
      BY <2>1 DEF Register, Registered
    <3> QED
      BY <2>1, <3>1 DEF Register, DelegationInv, TokensTypeOK
  <2>2. tokens'[k] = tokens[k] /\ above'[k] = above[k]
    <3>1. ASSUME NEW j \in Jtis, NEW issuer \in Passports, NEW sub \in Passports,
                 NEW asked_for \in Constraints, NEW admin \in BOOLEAN, NEW time,
                 RegisterRoot(j, issuer, sub, asked_for, admin, time)
          PROVE  tokens'[k] = tokens[k] /\ above'[k] = above[k]
      BY <3>1, <2>1 DEF RegisterRoot
    <3>2. ASSUME NEW j \in Jtis, NEW issuer \in Passports, NEW sub \in Passports,
                 NEW asked_for \in Constraints, NEW parent \in Jtis, NEW time,
                 RegisterChild(j, issuer, sub, parent, asked_for, time)
          PROVE  tokens'[k] = tokens[k] /\ above'[k] = above[k]
      BY <3>2, <2>1 DEF RegisterChild
    <3>3. ASSUME UNCHANGED <<tokens, above>>
          PROVE  tokens'[k] = tokens[k] /\ above'[k] = above[k]
      BY <3>3
    <3> QED
      BY <3>1, <3>2, <3>3 DEF DelegationNext, RevokeToken, SetPassportStatus, ChangeKeys, Tick
  <2> QED
    BY <2>2 DEF Registered
<1> QED
  BY <1>1, <1>2 DEF TokensStay

LEMMA OwnTokenKept ==
  ASSUME TokensStay, NEW i, NEW token, OwnToken(i, token)
  PROVE  OwnToken(i, token)'
BY DEF TokensStay, OwnToken, Covers, AnyMatch, Targeted

(* What is above a token, and the token itself, stays.                     *)
LEMMA ChainKept ==
  ASSUME DelegationInv, TokensStay, NEW token \in Registered,
         NEW a \in {token} \cup above'[token]
  PROVE  a \in {token} \cup above[token] /\ a \in Registered /\ tokens'[a] = tokens[a]
<1>1. a \in {token} \cup above[token]
  BY DEF TokensStay
<1>2. a \in Registered
  BY <1>1 DEF DelegationInv, WithinEveryAncestor
<1> QED
  BY <1>1, <1>2 DEF TokensStay

LEMMA CheckedKept ==
  ASSUME DelegationInv, TokensStay, NEW i, NEW token, NEW at, NEW gone,
         token # NoJti => token \in Registered, Checked(i, token, at, gone)
  PROVE  Checked(i, token, at, gone)'
<1> SUFFICES ASSUME token # NoJti, NEW a \in {token} \cup above'[token]
             PROVE  /\ Covers(tokens[a].granted, intent[i].action, intent[i].resource,
                              intent[i].destination)'
                    /\ at <= tokens'[a].granted.not_after
                    /\ a \notin gone
  BY DEF Checked
<1>1. a \in {token} \cup above[token] /\ tokens'[a] = tokens[a]
  BY ChainKept
<1>2. /\ Covers(tokens[a].granted, intent[i].action, intent[i].resource, intent[i].destination)
      /\ at <= tokens[a].granted.not_after
      /\ a \notin gone
  BY <1>1 DEF Checked
<1> QED
  BY <1>1, <1>2 DEF Covers, AnyMatch, Targeted

LEMMA HandedKept ==
  ASSUME HandedStay, NEW j, NEW i, NEW token, Handed(j, i, token)
  PROVE  Handed(j, i, token)'
BY DEF HandedStay, Handed

(* Whoever holds a credential was given the token it names.                *)
LEMMA HandedOwns ==
  ASSUME IInv, NEW j, NEW i, NEW token, Handed(j, i, token)
  PROVE  token # NoJti => token \in Registered /\ tokens[token].sub = intent[i].sub
<1>1. j \in Requests /\ action[j] # Nothing
      /\ action[j].intent_hash = i /\ action[j].token_jti = token
  BY DEF Handed
<1>2. CredentialFits(j)
  BY <1>1 DEF IInv
<1> QED
  BY <1>1, <1>2 DEF CredentialFits, OwnToken

LEMMA RequestKept ==
  ASSUME IInv, TokensStay, NEW q \in Requests,
         asked'[q] = asked[q], action'[q] = action[q], approval'[q] = approval[q],
         decided'[q] = decided[q]
  PROVE  AskedFits(q)' /\ CredentialFits(q)'
<1>1. AskedFits(q) /\ CredentialFits(q)
  BY DEF IInv
<1>2. AskedFits(q)'
  <2>1. \A i, token : OwnToken(i, token) => OwnToken(i, token)'
    BY OwnTokenKept
  <2> QED
    BY <1>1, <2>1 DEF AskedFits
<1>3. CredentialFits(q)'
  <2> SUFFICES ASSUME action[q] # Nothing PROVE CredentialFits(q)'
    BY DEF CredentialFits
  <2>1. PICK i, token : i = action[q].intent_hash /\ token = action[q].token_jti
    OBVIOUS
  <2>2. OwnToken(i, token)'
    BY <1>1, <2>1, OwnTokenKept DEF CredentialFits
  <2>3. OwnToken(action[q].intent_hash, action[q].token_jti)'
    BY <2>1, <2>2 DEF OwnToken, Covers, AnyMatch, Targeted
  <2> QED
    BY <1>1, <2>3 DEF CredentialFits
<1> QED
  BY <1>2, <1>3

LEMMA ReservationKept ==
  ASSUME IInv, TokensStay, HandedStay, NEW x \in Executions, exec'[x] = exec[x]
  PROVE  ReservationFits(x)'
<1> SUFFICES ASSUME exec[x].pc = "reserve" PROVE ReservationFits(x)'
  BY DEF ReservationFits
<1>1. PICK j, i, at, gone : j = exec[x].jti /\ i = exec[x].intent /\ at = exec[x].at
                            /\ gone = exec[x].gone
  OBVIOUS
<1>2. PICK token : token = action[j].token_jti
  OBVIOUS
<1>3. Handed(j, i, token) /\ Checked(i, token, at, gone) /\ j \notin gone
  BY <1>1, <1>2 DEF IInv, ReservationFits
<1>4. token # NoJti => token \in Registered
  BY <1>3, HandedOwns
<1>5. DelegationInv
  BY DEF IInv, TypeOK, DelegationInv
<1>6. Handed(j, i, token)' /\ Checked(i, token, at, gone)'
  BY <1>3, <1>4, <1>5, HandedKept, CheckedKept
<1>7. action'[j].token_jti = token
  BY <1>6 DEF Handed
<1> QED
  BY <1>1, <1>3, <1>6, <1>7 DEF ReservationFits, Handed, Checked

LEMMA RunKept ==
  ASSUME IInv, TokensStay, HandedStay, NEW run \in runs
  PROVE  RunFits(run)'
<1>1. RunFits(run)
  BY DEF IInv
<1>2. DelegationInv
  BY DEF IInv, TypeOK, DelegationInv
<1>3. run.token # NoJti => run.token \in Registered
  BY <1>1, HandedOwns DEF RunFits
<1>4. Handed(run.jti, run.intent, run.token)'
  BY <1>1, HandedKept DEF RunFits
<1>5. Checked(run.intent, run.token, run.at, run.gone)'
  BY <1>1, <1>2, <1>3, CheckedKept DEF RunFits
<1>6. ASSUME run.token # NoJti, NEW a \in {run.token} \cup above'[run.token]
      PROVE  intent[run.intent].amount_cents <= tokens'[a].granted.max_spend_cents
  <2>1. a \in {run.token} \cup above[run.token] /\ tokens'[a] = tokens[a]
    BY <1>2, <1>3, <1>6, ChainKept
  <2> QED
    BY <1>1, <1>6, <2>1 DEF RunFits
<1> QED
  BY <1>1, <1>4, <1>5, <1>6 DEF RunFits

LEMMA SpendKept ==
  ASSUME IInv, TokensStay, DelegationInv', NEW j \in Jtis, spent'[j] = spent[j]
  PROVE  SpendFits(j)'
<1>1. SpendFits(j)
  BY DEF IInv
<1>2. CASE j \in Registered
  BY <1>1, <1>2 DEF SpendFits, TokensStay
<1>3. CASE j \notin Registered
  <2>1. j \in Registered' => tokens'[j] \in Token'
    BY DEF DelegationInv, TokensTypeOK, Registered
  <2>2. j \in Registered' => 0 <= tokens'[j].granted.max_spend_cents
    BY <2>1, DelegationAssumption DEF Token, Granted
  <2> QED
    BY <1>1, <1>3, <2>2 DEF SpendFits
<1> QED
  BY <1>2, <1>3

-----------------------------------------------------------------------------
(* From an intent to its execution: the steps.                             *)

LEMMA InitIInv == Init => IInv
<1> SUFFICES ASSUME Init PROVE IInv
  OBVIOUS
<1>1. DelegationInv
  BY InitEstablishes DEF Init
<1>2. TypeOK
  BY <1>1, AuthorizeAssumption, DelegationAssumption
     DEF Init, TypeOK, RequestsTypeOK, DelegationInv, Idle, NotRun, TokenJtis
<1>3. \A r \in Requests : AskedFits(r) /\ CredentialFits(r)
  BY DEF Init, AskedFits, CredentialFits, Idle
<1>4. \A x \in Executions : ReservationFits(x)
  BY DEF Init, ReservationFits, NotRun
<1>5. \A j \in Jtis : SpendFits(j)
  BY DEF Init, SpendFits, DelegationInit, Registered
<1> QED
  BY <1>1, <1>2, <1>3, <1>4, <1>5 DEF IInv, DelegationInv, Init

(* A step of one request, before its credential was handed out.            *)
OthersStay(r) ==
  \A q \in Requests \ {r} : /\ asked'[q] = asked[q] /\ action'[q] = action[q]
                           /\ approval'[q] = approval[q] /\ decided'[q] = decided[q]

LEMMA RequestStep ==
  ASSUME IInv, NEW r \in Requests, asked[r].pc # "done", OthersStay(r), RequestsTypeOK',
         UNCHANGED <<delegation, exec, spent, runs, dead>>,
         AskedFits(r)', CredentialFits(r)'
  PROVE  IInv'
<1>1. DelegationInv
  BY DEF IInv, TypeOK, DelegationInv
<1>2. TokensStay /\ DelegationInv'
  BY <1>1, UnchangedStay
<1>3. TypeOK'
  BY <1>2 DEF IInv, TypeOK, DelegationInv
<1>4. HandedStay
  BY DEF HandedStay, OthersStay
<1>5. \A q \in Requests : AskedFits(q)' /\ CredentialFits(q)'
  <2> SUFFICES ASSUME NEW q \in Requests, q # r PROVE AskedFits(q)' /\ CredentialFits(q)'
    OBVIOUS
  <2> QED
    BY <1>2, RequestKept DEF OthersStay
<1>6. \A x \in Executions : ReservationFits(x)'
  BY <1>2, <1>4, ReservationKept
<1>7. \A run \in runs' : RunFits(run)'
  BY <1>2, <1>4, RunKept
<1>8. \A j \in Jtis : SpendFits(j)'
  BY <1>2, SpendKept
<1> QED
  BY <1>2, <1>3, <1>5, <1>6, <1>7, <1>8 DEF IInv, DelegationInv

LEMMA AnsweredIsAsked ==
  /\ Answered = [pc |-> "done", intent |-> Nothing, token |-> NoJti, kid |-> Nothing]
  /\ Answered \in [pc : {"idle", "budget", "sign", "pending", "done"},
                   intent : Intents \cup {Nothing}, token : TokenJtis, kid : Kids \cup {Nothing}]
  /\ [Idle EXCEPT !.pc = "sign"] =
       [pc |-> "sign", intent |-> Nothing, token |-> NoJti, kid |-> Nothing]
BY DEF Answered, Idle, TokenJtis

LEMMA DeniedIInv ==
  ASSUME IInv, NEW r \in Requests, asked[r].pc # "done", Denied(r),
         UNCHANGED <<delegation, exec, spent, runs>>
  PROVE  IInv'
<1>1. asked' = [asked EXCEPT ![r] = Answered] /\ UNCHANGED <<action, approval, dead, decided>>
  BY DEF Denied, credentials
<1>2. asked'[r] = Answered /\ OthersStay(r) /\ RequestsTypeOK'
  BY <1>1, AnsweredIsAsked DEF IInv, TypeOK, RequestsTypeOK, OthersStay
<1>3. AskedFits(r)'
  BY <1>2, AnsweredIsAsked DEF AskedFits
<1>4. CredentialFits(r)'
  BY <1>1 DEF IInv, CredentialFits, OwnToken, Registered, Covers, AnyMatch, Targeted, delegation
<1> QED
  BY <1>1, <1>2, <1>3, <1>4, RequestStep

(* Any clock shows a time.                                                 *)
LEMMA ClocksAreTimes ==
  ASSUME TokensTypeOK, NEW t \in Clocks
  PROVE  t \in Nat
<1>1. now \in Nat
  BY DelegationAssumption DEF TokensTypeOK
<1>2. PICK d \in Nat : t = now + d
  BY DelegationAssumption DEF Clocks
<1> QED
  BY <1>1, <1>2

(* A new credential is the intent's, and good for a while.                 *)
NewFor(c, r, i, token, requires_approval) ==
  /\ c \in ActionCredentials
  /\ c.jti = r /\ c.intent_hash = i /\ c.token_jti = token
  /\ c.requires_approval = requires_approval
  /\ c.sub = intent[c.intent_hash].sub /\ c.iat < c.exp

LEMMA ActionTokenFits ==
  ASSUME IInv, NEW r \in Requests, NEW i \in Intents, NEW token \in TokenJtis, NEW kid \in Kids,
         NEW requires_approval \in BOOLEAN, NEW t \in Clocks,
         NEW c, c = ActionToken(r, i, token, kid, requires_approval, t)
  PROVE  NewFor(c, r, i, token, requires_approval)
<1>1. t \in Nat /\ ActionTtl \in Nat \ {0}
  BY AuthorizeAssumption, ClocksAreTimes DEF IInv, TypeOK
<1>2. intent[i].sub \in Passports
  BY AuthorizeAssumption
<1> QED
  BY <1>1, <1>2 DEF ActionToken, ActionCredentials, NewFor

LEMMA EvaluateIInv ==
  ASSUME IInv, NEW r \in Requests, NEW i \in Intents, NEW token \in TokenJtis, NEW kid \in Kids,
         asked[r].pc \in {"idle", "budget"}, OwnToken(i, token), Evaluate(r, i, token, kid),
         UNCHANGED <<delegation, exec, spent, runs>>
  PROVE  IInv'
<1>1. PICK decision \in Decisions[i][IF token = NoJti THEN 0 ELSE tokens[token].depth],
           t \in Clocks :
        /\ asked' = [asked EXCEPT ![r] =
             CASE decision = "allow"   -> [Idle EXCEPT !.pc = "sign"]
               [] decision = "step_up" ->
                    [pc |-> "pending", intent |-> i, token |-> token, kid |-> kid]
               [] OTHER                -> Answered]
        /\ action' = IF decision = "allow"
                       THEN [action EXCEPT ![r] = ActionToken(r, i, token, kid, FALSE, t)]
                       ELSE action
        /\ decided' = IF decision \in {"allow", "step_up"}
             THEN [decided EXCEPT ![r] = [intent |-> i, token |-> token, verdict |-> decision]]
             ELSE decided
        /\ UNCHANGED <<approval, dead>>
  BY DEF Evaluate
<1>2. AskedFits(r) /\ action[r] = Nothing /\ approval[r] = Nothing
  BY DEF IInv, AskedFits
<1>3. OwnToken(i, token)'
  BY DEF OwnToken, Registered, Covers, AnyMatch, Targeted, delegation
<1>4. asked[r].pc # "done"
  OBVIOUS
<1>5. CASE decision = "allow"
  <2> DEFINE a == [pc |-> "sign", intent |-> Nothing, token |-> NoJti, kid |-> Nothing]
             d == [intent |-> i, token |-> token, verdict |-> "allow"]
  <2>0. PICK c : c = ActionToken(r, i, token, kid, FALSE, t)
    OBVIOUS
  <2>1. /\ asked' = [asked EXCEPT ![r] = a] /\ action' = [action EXCEPT ![r] = c]
        /\ decided' = [decided EXCEPT ![r] = d]
    BY <1>1, <1>5, <2>0, AnsweredIsAsked
  <2>2. /\ c \in ActionCredentials
        /\ c.jti = r /\ c.intent_hash = i /\ c.token_jti = token /\ c.requires_approval = FALSE
        /\ c.sub = intent[c.intent_hash].sub /\ c.iat < c.exp
    <3>1. NewFor(c, r, i, token, FALSE)
      BY <2>0, ActionTokenFits, Zenon
    <3> QED
      BY ONLY <3>1 DEF NewFor
  <2>3. /\ a \in [pc : {"idle", "budget", "sign", "pending", "done"},
                  intent : Intents \cup {Nothing}, token : TokenJtis, kid : Kids \cup {Nothing}]
        /\ d \in Decided
    BY DEF Decided, TokenJtis
  <2> HIDE DEF a, d
  <2>4. asked'[r] = a /\ action'[r] = c /\ decided'[r] = d
    BY <2>1 DEF IInv, TypeOK, RequestsTypeOK
  <2>8. OthersStay(r) /\ RequestsTypeOK'
    <3>1. UNCHANGED approval
      BY <1>1
    <3> QED
      BY <2>1, <2>2, <2>3, <3>1 DEF IInv, TypeOK, RequestsTypeOK, OthersStay
  <2>5. AskedFits(r)'
    BY <2>4 DEF AskedFits, a
  <2>6. CredentialFits(r)'
    BY <2>2, <2>4, <1>3 DEF CredentialFits, d
  <2>7. UNCHANGED dead
    BY <1>1
  <2> QED
    BY <1>4, <2>5, <2>6, <2>7, <2>8, RequestStep
<1>6. CASE decision = "step_up"
  <2> DEFINE a == [pc |-> "pending", intent |-> i, token |-> token, kid |-> kid]
             d == [intent |-> i, token |-> token, verdict |-> "step_up"]
  <2>1. /\ asked' = [asked EXCEPT ![r] = a] /\ UNCHANGED action
        /\ decided' = [decided EXCEPT ![r] = d]
    BY <1>1, <1>6
  <2>2. /\ a \in [pc : {"idle", "budget", "sign", "pending", "done"},
                  intent : Intents \cup {Nothing}, token : TokenJtis, kid : Kids \cup {Nothing}]
        /\ d \in Decided
    BY DEF Decided
  <2> HIDE DEF a, d
  <2>3. asked'[r] = a /\ decided'[r] = d /\ OthersStay(r) /\ RequestsTypeOK'
    <3>1. UNCHANGED approval
      BY <1>1
    <3> QED
      BY <2>1, <2>2, <3>1 DEF IInv, TypeOK, RequestsTypeOK, OthersStay
  <2>4. action'[r] = Nothing /\ approval'[r] = Nothing
    BY <1>1, <1>2, <2>1
  <2>5. AskedFits(r)'
    BY <2>3, <2>4, <1>3 DEF AskedFits, a, d
  <2>6. CredentialFits(r)'
    BY <2>4 DEF CredentialFits
  <2> QED
    BY <1>1, <1>4, <2>3, <2>5, <2>6, RequestStep
<1>7. CASE decision \notin {"allow", "step_up"}
  <2>1. asked' = [asked EXCEPT ![r] = Answered] /\ UNCHANGED <<action, decided>>
    BY <1>1, <1>7
  <2> QED
    BY <1>1, <1>4, <2>1, DeniedIInv DEF Denied, credentials
<1> QED
  BY <1>5, <1>6, <1>7

LEMMA AuthorizeIInv ==
  ASSUME IInv, NEW r \in Requests, NEW i \in Intents, NEW token \in TokenJtis,
         NEW kid \in Kids, NEW t, Authorize(r, i, token, kid, t)
  PROVE  IInv'
<1>1. asked[r].pc = "idle" /\ UNCHANGED <<delegation, exec, spent, runs>>
  BY DEF Authorize
<1>2. CASE Denied(r)
  BY <1>1, <1>2, DeniedIInv
<1>3. CASE token = NoJti /\ Evaluate(r, i, token, kid)
  BY <1>1, <1>3, EvaluateIInv DEF OwnToken
<1>4. CASE intent[i].sub \in usable /\ token # NoJti /\ TokenFits(i, token, t)
  <2> DEFINE a == [pc |-> "budget", intent |-> i, token |-> token, kid |-> kid]
  <2>1. asked' = [asked EXCEPT ![r] = a] /\ UNCHANGED <<action, approval, dead, decided>>
    BY <1>4 DEF Authorize, credentials
  <2>2. a \in [pc : {"idle", "budget", "sign", "pending", "done"},
               intent : Intents \cup {Nothing}, token : TokenJtis, kid : Kids \cup {Nothing}]
    OBVIOUS
  <2> HIDE DEF a
  <2>3. asked'[r] = a /\ OthersStay(r) /\ RequestsTypeOK'
    BY <2>1, <2>2 DEF IInv, TypeOK, RequestsTypeOK, OthersStay
  <2>4. OwnToken(i, token)
    BY <1>4 DEF OwnToken, TokenFits, TokenJtis, Registered
  <2>5. OwnToken(i, token)'
    BY <1>1, <2>4 DEF OwnToken, Registered, Covers, AnyMatch, Targeted, delegation
  <2>6. action[r] = Nothing /\ approval[r] = Nothing
    BY <1>1 DEF IInv, AskedFits
  <2>7. AskedFits(r)'
    BY <2>1, <2>3, <2>5, <2>6 DEF AskedFits, a
  <2>8. CredentialFits(r)'
    BY <2>1, <2>6 DEF CredentialFits
  <2> QED
    BY <1>1, <2>1, <2>3, <2>7, <2>8, RequestStep
<1> QED
  BY <1>2, <1>3, <1>4 DEF Authorize

LEMMA BudgetAnsweredIInv ==
  ASSUME IInv, NEW r \in Requests, BudgetAnswered(r)
  PROVE  IInv'
<1> DEFINE i == asked[r].intent
           token == asked[r].token
           kid == asked[r].kid
<1>1. asked[r].pc = "budget" /\ UNCHANGED <<delegation, exec, spent, runs>>
  BY DEF BudgetAnswered
<1>2. i \in Intents /\ token \in TokenJtis /\ kid \in Kids /\ OwnToken(i, token)
  BY <1>1 DEF IInv, AskedFits, TypeOK, RequestsTypeOK
<1>3. Evaluate(r, i, token, kid) \/ Denied(r)
  BY DEF BudgetAnswered
<1> HIDE DEF i, token, kid
<1> QED
  BY <1>1, <1>2, <1>3, EvaluateIInv, DeniedIInv

LEMMA SignedIInv ==
  ASSUME IInv, NEW r \in Requests, Signed(r)
  PROVE  IInv'
BY DeniedIInv DEF Signed, Denied, history

LEMMA SignerFailsIInv ==
  ASSUME IInv, NEW r \in Requests, SignerFails(r)
  PROVE  IInv'
<1>1. /\ asked[r].pc = "sign"
      /\ asked' = [asked EXCEPT ![r] = Answered] /\ action' = [action EXCEPT ![r] = Nothing]
      /\ UNCHANGED <<delegation, approval, dead, exec, spent, decided, runs>>
  BY DEF SignerFails, history
<1>2. asked'[r] = Answered /\ action'[r] = Nothing /\ OthersStay(r) /\ RequestsTypeOK'
  BY <1>1, AnsweredIsAsked DEF IInv, TypeOK, RequestsTypeOK, OthersStay
<1>3. AskedFits(r)' /\ CredentialFits(r)'
  BY <1>2, AnsweredIsAsked DEF AskedFits, CredentialFits
<1>4. asked[r].pc # "done"
  BY <1>1
<1> QED
  BY <1>1, <1>2, <1>3, <1>4, RequestStep

LEMMA ApproveIInv ==
  ASSUME IInv, NEW r \in Requests, NEW t \in Clocks, Approve(r, t)
  PROVE  IInv'
<1>0. PICK i, token, kid : i = asked[r].intent /\ token = asked[r].token /\ kid = asked[r].kid
  OBVIOUS
<1>1. PICK c : c = ActionToken(r, i, token, kid, TRUE, t)
  OBVIOUS
<1> DEFINE v == ApprovalCredential(r, i, t)
<1>2. /\ asked[r].pc = "pending"
      /\ asked' = [asked EXCEPT ![r] = Answered]
      /\ action' = [action EXCEPT ![r] = c] /\ approval' = [approval EXCEPT ![r] = v]
      /\ UNCHANGED <<delegation, dead, exec, spent, decided, runs>>
  BY <1>0, <1>1 DEF Approve, history
<1>3. /\ i \in Intents /\ token \in TokenJtis /\ kid \in Kids /\ OwnToken(i, token)
      /\ decided[r] = [intent |-> i, token |-> token, verdict |-> "step_up"]
  BY <1>0, <1>2 DEF IInv, AskedFits, TypeOK, RequestsTypeOK
<1>4. /\ c \in ActionCredentials
      /\ c.jti = r /\ c.intent_hash = i /\ c.token_jti = token /\ c.requires_approval = TRUE
      /\ c.sub = intent[c.intent_hash].sub /\ c.iat < c.exp
  <2>1. NewFor(c, r, i, token, TRUE)
    BY <1>1, <1>3, ActionTokenFits, Zenon
  <2> QED
    BY ONLY <2>1 DEF NewFor
<1>5. v.intent_hash = i /\ v.action_jti = r
  BY DEF ApprovalCredential
<1>6. v \in ApprovalCredentials /\ v # Nothing
  <2>1. intent[i].sub \in Passports /\ t + ApprovalTtl \in Nat
    <3>1. t \in Nat
      BY ClocksAreTimes DEF IInv, TypeOK
    <3> QED
      BY <1>3, <3>1, AuthorizeAssumption
  <2>2. v \in ApprovalCredentials
    BY <1>3, <2>1 DEF ApprovalCredential, ApprovalCredentials
  <2> QED
    BY <2>2, AuthorizeAssumption
<1> HIDE DEF v
<1>7. OwnToken(i, token)'
  BY <1>2, <1>3 DEF OwnToken, Registered, Covers, AnyMatch, Targeted, delegation
<1>8. asked'[r] = Answered /\ action'[r] = c /\ approval'[r] = v
  BY <1>2 DEF IInv, TypeOK, RequestsTypeOK
<1>9. OthersStay(r) /\ RequestsTypeOK'
  BY <1>2, <1>4, <1>6, AnsweredIsAsked DEF IInv, TypeOK, RequestsTypeOK, OthersStay
<1>10. AskedFits(r)'
  BY <1>8, AnsweredIsAsked DEF AskedFits
<1>11. CredentialFits(r)'
  BY <1>2, <1>3, <1>4, <1>5, <1>6, <1>7, <1>8 DEF CredentialFits
<1>12. asked[r].pc # "done"
  BY <1>2
<1> QED
  BY <1>2, <1>9, <1>10, <1>11, <1>12, RequestStep

(* The steps after the credential was handed out.                          *)
LEMMA RevokeCredentialIInv ==
  ASSUME IInv, NEW r \in Requests, RevokeCredential(r)
  PROVE  IInv'
<1>1. dead' = dead \cup {r}
      /\ UNCHANGED <<delegation, asked, action, approval, exec, spent, decided, runs>>
  BY DEF RevokeCredential, history
<1>2. DelegationInv
  BY DEF IInv, TypeOK, DelegationInv
<1>3. TokensStay /\ DelegationInv' /\ HandedStay
  BY <1>1, <1>2, UnchangedStay DEF HandedStay
<1>4. TypeOK'
  BY <1>1, <1>3 DEF IInv, TypeOK, RequestsTypeOK, DelegationInv
<1>5. \A q \in Requests : AskedFits(q)' /\ CredentialFits(q)'
  BY <1>1, <1>3, RequestKept
<1>6. \A x \in Executions : ReservationFits(x)'
  BY <1>1, <1>3, ReservationKept
<1>7. \A run \in runs' : RunFits(run)'
  BY <1>1, <1>3, RunKept
<1>8. \A j \in Jtis : SpendFits(j)'
  BY <1>1, <1>3, SpendKept
<1> QED
  BY <1>3, <1>4, <1>5, <1>6, <1>7, <1>8 DEF IInv, DelegationInv

(* Whoever is handed an action credential is handed one that was decided.  *)
LEMMA IssuedIsHanded ==
  ASSUME IInv, NEW c \in Issued, c # Nothing, c.kind = "action"
  PROVE  /\ c.jti \in Requests /\ asked[c.jti].pc = "done" /\ c = action[c.jti]
         /\ c \in ActionCredentials
<1>1. ASSUME NEW r \in Requests, c = approval[r]
      PROVE  FALSE
  <2>1. c \in ApprovalCredentials
    BY <1>1 DEF IInv, TypeOK, RequestsTypeOK
  <2> QED
    BY <2>1 DEF ApprovalCredentials
<1>2. PICK r \in Requests : asked[r].pc = "done" /\ c = action[r]
  BY <1>1 DEF Issued
<1>3. c \in ActionCredentials
  BY <1>2 DEF IInv, TypeOK, RequestsTypeOK
<1>4. c.jti = r
  BY <1>2 DEF IInv, CredentialFits
<1> QED
  BY <1>2, <1>3, <1>4

(* A token that is usable and covers an intent is within all above it.     *)
LEMMA UsableIsChecked ==
  ASSUME DelegationInv, dead \subseteq Requests, NEW i \in Intents, NEW token \in Registered,
         NEW t, TokenUsable(token, t),
         Covers(tokens[token].granted, intent[i].action, intent[i].resource,
                intent[i].destination)
  PROVE  Checked(i, token, t, revoked \cup dead)
<1> SUFFICES ASSUME NEW a \in {token} \cup above[token]
             PROVE  /\ Covers(tokens[a].granted, intent[i].action, intent[i].resource,
                              intent[i].destination)
                    /\ t <= tokens[a].granted.not_after
                    /\ a \notin revoked \cup dead
  BY DEF Checked
<1>1. a \notin revoked /\ t <= tokens[a].granted.not_after
  BY DEF TokenUsable
<1>2. a \in Jtis
  BY DEF DelegationInv, TokensTypeOK, Registered
<1>3. a \notin dead
  BY <1>2, AuthorizeAssumption
<1>4. Covers(tokens[a].granted, intent[i].action, intent[i].resource, intent[i].destination)
  <2>1. CASE a = token
    BY <2>1
  <2>2. CASE a \in above[token]
    <3>1. Within(tokens[token].granted, tokens[a].granted)
      BY <2>2 DEF DelegationInv, WithinEveryAncestor
    <3>2. /\ intent[i].action \in Values /\ intent[i].resource \in Values
          /\ intent[i].destination \in Values
      BY AuthorizeAssumption
    <3> QED
      BY <3>1, <3>2 DEF Within, Covers
  <2> QED
    BY <2>1, <2>2
<1> QED
  BY <1>1, <1>3, <1>4

LEMMA ExecuteIInv ==
  ASSUME IInv, NEW x \in Executions, NEW c \in Issued, NEW a \in Issued, NEW i \in Intents,
         NEW t \in Clocks, Execute(x, c, a, i, t)
  PROVE  IInv'
<1> DEFINE e == [pc |-> "reserve", intent |-> i, jti |-> c.jti, at |-> t,
                 gone |-> revoked \cup dead]
<1>1. /\ c # Nothing /\ Accepts(c, a, i, t)
      /\ exec' = [exec EXCEPT ![x] = e]
      /\ UNCHANGED <<delegation, asked, action, approval, dead, spent, decided, runs>>
  BY DEF Execute, credentials, history
<1>2. DelegationInv
  BY DEF IInv, TypeOK, DelegationInv
<1>3. TokensStay /\ DelegationInv' /\ HandedStay
  BY <1>1, <1>2, UnchangedStay DEF HandedStay
<1>4. /\ c.jti \in Requests /\ asked[c.jti].pc = "done" /\ c = action[c.jti]
      /\ c \in ActionCredentials
  BY <1>1, IssuedIsHanded DEF Accepts, ActionFits
<1>5. dead \subseteq Requests /\ revoked \subseteq Jtis /\ t \in Nat
  BY ClocksAreTimes DEF IInv, TypeOK, TokensTypeOK
<1>6. e \in [pc : {"idle", "reserve", "done"}, intent : Intents \cup {Nothing},
             jti : Requests \cup {Nothing}, at : Nat, gone : SUBSET (Jtis \cup Requests)]
  BY <1>4, <1>5
<1>7. c.jti \notin revoked \cup dead
  BY <1>1, <1>4, <1>5, AuthorizeAssumption DEF Accepts, ActionFits, NotRevoked
<1>8. Checked(i, c.token_jti, t, revoked \cup dead)
  <2>1. CASE c.token_jti = NoJti
    BY <2>1 DEF Checked
  <2>2. CASE c.token_jti # NoJti
    <3>1. c.token_jti \in Registered
      BY <1>1, <1>4, <2>2 DEF Accepts, Registered, ActionCredentials, TokenJtis
    <3> QED
      BY <1>1, <1>2, <1>5, <2>2, <3>1, UsableIsChecked DEF Accepts
  <2> QED
    BY <2>1, <2>2
<1>9. Handed(c.jti, i, c.token_jti)
  BY <1>1, <1>4 DEF Handed, Accepts, ActionFits
<1>10. ReservationFits(x)'
  <2>1. PICK j, at, gone, token : /\ j = c.jti /\ at = t /\ gone = revoked \cup dead
                                  /\ token = c.token_jti
    OBVIOUS
  <2>2. Handed(j, i, token)'
    BY <1>3, <1>9, <2>1, HandedKept
  <2>3. Checked(i, token, at, gone)'
    <3>1. token # NoJti => token \in Registered
      BY <1>9, <2>1, HandedOwns
    <3>2. Checked(i, token, at, gone)
      BY <1>8, <2>1
    <3> QED
      BY <1>2, <1>3, <3>1, <3>2, CheckedKept
  <2>4. /\ exec'[x].jti = j /\ exec'[x].intent = i /\ exec'[x].at = at /\ exec'[x].gone = gone
    BY <1>1, <2>1 DEF IInv, TypeOK
  <2>5. action'[j].token_jti = token
    BY <2>2 DEF Handed
  <2>6. j \notin gone
    BY <1>7, <2>1
  <2> QED
    BY <2>2, <2>3, <2>4, <2>5, <2>6 DEF ReservationFits, Handed, Checked
<1> HIDE DEF e
<1>11. exec' \in [Executions -> [pc : {"idle", "reserve", "done"},
                                intent : Intents \cup {Nothing}, jti : Requests \cup {Nothing},
                                at : Nat, gone : SUBSET (Jtis \cup Requests)]]
  BY <1>1, <1>6 DEF IInv, TypeOK
<1>12. TypeOK'
  BY <1>1, <1>3, <1>11 DEF IInv, TypeOK, RequestsTypeOK, DelegationInv
<1>13. \A q \in Requests : AskedFits(q)' /\ CredentialFits(q)'
  BY <1>1, <1>3, RequestKept
<1>14. \A y \in Executions : ReservationFits(y)'
  <2>1. \A y \in Executions \ {x} : exec'[y] = exec[y]
    BY <1>1 DEF IInv, TypeOK
  <2> QED
    BY <1>3, <1>10, <2>1, ReservationKept
<1>15. \A run \in runs' : RunFits(run)'
  BY <1>1, <1>3, RunKept
<1>16. \A j \in Jtis : SpendFits(j)'
  BY <1>1, <1>3, SpendKept
<1> QED
  BY <1>3, <1>12, <1>13, <1>14, <1>15, <1>16 DEF IInv, DelegationInv

LEMMA ReserveIInv ==
  ASSUME IInv, NEW x \in Executions, Reserve(x)
  PROVE  IInv'
<1>0. PICK e, token : e = exec[x] /\ token = action[e.jti].token_jti
  OBVIOUS
<1> DEFINE free == /\ \A run \in runs : run.intent # e.intent /\ run.jti # e.jti
                   /\ token # NoJti => WithinBudget(e.intent, token)
           new == [intent |-> e.intent, jti |-> e.jti, token |-> token, at |-> e.at,
                   gone |-> e.gone]
           ended == [NotRun EXCEPT !.pc = "done"]
<1>1. /\ e.pc = "reserve"
      /\ exec' = [exec EXCEPT ![x] = ended]
      /\ runs' = IF free THEN runs \cup {new} ELSE runs
      /\ spent' = IF free /\ token # NoJti
                    THEN [spent EXCEPT ![token] = @ + intent[e.intent].amount_cents] ELSE spent
      /\ UNCHANGED <<delegation, asked, action, approval, dead, decided>>
  BY <1>0 DEF Reserve, credentials
<1>2. DelegationInv
  BY DEF IInv, TypeOK, DelegationInv
<1>3. TokensStay /\ DelegationInv' /\ HandedStay
  BY <1>1, <1>2, UnchangedStay DEF HandedStay
<1>4. /\ Handed(e.jti, e.intent, token) /\ Checked(e.intent, token, e.at, e.gone)
      /\ e.jti \notin e.gone
  BY <1>0, <1>1 DEF IInv, ReservationFits
<1>5. token # NoJti => token \in Registered
  BY <1>4, HandedOwns
<1>6. /\ e.jti \in Requests /\ e.intent \in Intents /\ e.at \in Nat
      /\ e.gone \in SUBSET (Jtis \cup Requests) /\ token \in TokenJtis
  <2>1. /\ e.jti \in Requests /\ action[e.jti] \in ActionCredentials
        /\ action[e.jti].intent_hash = e.intent /\ action[e.jti].token_jti = token
    BY <1>4 DEF Handed, IInv, TypeOK, RequestsTypeOK
  <2>2. e.at \in Nat /\ e.gone \in SUBSET (Jtis \cup Requests)
    BY <1>0 DEF IInv, TypeOK
  <2> QED
    BY <2>1, <2>2 DEF ActionCredentials
<1>7. exec' \in [Executions -> [pc : {"idle", "reserve", "done"},
                                intent : Intents \cup {Nothing}, jti : Requests \cup {Nothing},
                                at : Nat, gone : SUBSET (Jtis \cup Requests)]]
  <2>1. ended \in [pc : {"idle", "reserve", "done"},
                   intent : Intents \cup {Nothing}, jti : Requests \cup {Nothing},
                   at : Nat, gone : SUBSET (Jtis \cup Requests)]
    BY DEF NotRun
  <2> HIDE DEF ended
  <2> QED
    BY <1>1, <2>1 DEF IInv, TypeOK
<1>8. exec'[x].pc = "done"
  BY <1>1 DEF IInv, TypeOK, NotRun
<1> HIDE DEF ended
<1>9. new \in [intent : Intents, jti : Requests, token : TokenJtis, at : Nat,
               gone : SUBSET (Jtis \cup Requests)]
  BY <1>6
<1>10. intent[e.intent].amount_cents \in Nat
  BY <1>6, AuthorizeAssumption
<1>11. spent \in [Jtis -> Nat]
  BY DEF IInv, TypeOK
<1>12. token # NoJti => token \in Jtis
  BY <1>6 DEF TokenJtis
<1>13. TypeOK'
  <2>1. runs' \subseteq [intent : Intents, jti : Requests, token : TokenJtis, at : Nat,
                         gone : SUBSET (Jtis \cup Requests)]
    <3> HIDE DEF new
    <3> QED
      BY <1>1, <1>9 DEF IInv, TypeOK
  <2>2. spent' \in [Jtis -> Nat]
    <3> HIDE DEF free
    <3>1. CASE free /\ token # NoJti
      BY <1>1, <1>10, <1>11, <1>12, <3>1
    <3>2. CASE ~(free /\ token # NoJti)
      BY <1>1, <1>11, <3>2
    <3> QED
      BY <3>1, <3>2
  <2> QED
    BY <1>1, <1>3, <1>7, <2>1, <2>2 DEF IInv, TypeOK, RequestsTypeOK, DelegationInv
<1>14. \A q \in Requests : AskedFits(q)' /\ CredentialFits(q)'
  BY <1>1, <1>3, RequestKept
<1>15. \A y \in Executions : ReservationFits(y)'
  <2>1. \A y \in Executions \ {x} : exec'[y] = exec[y]
    BY <1>1 DEF IInv, TypeOK
  <2>2. ReservationFits(x)'
    BY <1>8 DEF ReservationFits
  <2> QED
    BY <1>3, <2>1, <2>2, ReservationKept
<1>16. ASSUME free, token # NoJti
       PROVE  /\ spent[token] + intent[e.intent].amount_cents
                   <= tokens[token].granted.max_spend_cents
              /\ spent[token] \in Nat /\ token \in Registered
              /\ tokens[token] \in Token
  BY <1>5, <1>11, <1>12, <1>16 DEF WithinBudget, IInv, TypeOK, TokensTypeOK, Registered
<1>17. ASSUME free PROVE RunFits(new)'
  <2>1. PICK j, i, at, gone : j = e.jti /\ i = e.intent /\ at = e.at /\ gone = e.gone
    OBVIOUS
  <2>2. Handed(j, i, token)' /\ Checked(i, token, at, gone)'
    BY <1>2, <1>3, <1>4, <1>5, <2>1, HandedKept, CheckedKept
  <2>3. ASSUME token # NoJti, NEW a \in {token} \cup above'[token]
        PROVE  intent[i].amount_cents <= tokens'[a].granted.max_spend_cents
    <3>1. a \in {token} \cup above[token] /\ a \in Registered /\ tokens'[a] = tokens[a]
      BY <1>2, <1>3, <1>5, <2>3, ChainKept
    <3>2. /\ spent[token] + intent[i].amount_cents <= tokens[token].granted.max_spend_cents
          /\ spent[token] \in Nat /\ token \in Registered /\ tokens[token] \in Token
      BY <1>16, <1>17, <2>1, <2>3
    <3>3. tokens[a] \in Token
      BY <3>1 DEF IInv, TypeOK, TokensTypeOK, Registered
    <3>4. /\ tokens[a].granted.max_spend_cents \in Int
          /\ tokens[token].granted.max_spend_cents \in Int
      BY <3>2, <3>3, DelegationAssumption DEF Token, Granted
    <3>5. tokens[token].granted.max_spend_cents <= tokens[a].granted.max_spend_cents
      <4>1. CASE a = token
        BY <3>4, <4>1
      <4>2. CASE a \in above[token]
        BY <3>2, <4>2, <1>2 DEF DelegationInv, WithinEveryAncestor, Within
      <4> QED
        BY <3>1, <4>1, <4>2
    <3> QED
      BY <1>10, <2>1, <3>1, <3>2, <3>4, <3>5
  <2>4. new.jti = j /\ new.intent = i /\ new.token = token /\ new.at = at /\ new.gone = gone
    BY <2>1
  <2>5. j \notin gone
    BY <1>4, <2>1
  <2>6. PICK run : run = new
    OBVIOUS
  <2>7. RunFits(run)'
    <3>1. run.jti = j /\ run.intent = i /\ run.token = token /\ run.at = at /\ run.gone = gone
      BY <2>4, <2>6
    <3> HIDE DEF new
    <3> QED
      BY <2>2, <2>3, <2>5, <3>1 DEF RunFits
  <2> QED
    BY <2>6, <2>7
<1>18. \A run \in runs' : RunFits(run)'
  <2>1. \A run \in runs : RunFits(run)'
    BY <1>3, RunKept
  <2> HIDE DEF new, free
  <2> QED
    BY <1>1, <1>17, <2>1
<1>19. \A j \in Jtis : SpendFits(j)'
  <2> SUFFICES ASSUME NEW j \in Jtis PROVE SpendFits(j)'
    OBVIOUS
  <2>1. CASE free /\ token # NoJti /\ j = token
    <3>1. spent'[j] = spent[token] + intent[e.intent].amount_cents
      BY <1>1, <1>11, <2>1
    <3>2. j \in Registered' /\ tokens'[j] = tokens[j]
      BY <1>3, <1>5, <2>1 DEF TokensStay
    <3> QED
      BY <1>16, <2>1, <3>1, <3>2 DEF SpendFits
  <2>2. CASE ~(free /\ token # NoJti /\ j = token)
    <3>1. spent'[j] = spent[j]
      <4> HIDE DEF free
      <4> QED
        BY <1>1, <1>11, <2>2
    <3> QED
      BY <1>3, <3>1, SpendKept
  <2> QED
    BY <2>1, <2>2
<1> QED
  BY <1>3, <1>13, <1>14, <1>15, <1>18, <1>19 DEF IInv, DelegationInv

(* A step that leaves requests and executions alone.                       *)
LEMMA TokensIInv ==
  ASSUME IInv, [DelegationNext]_delegation,
         UNCHANGED <<asked, credentials, exec, spent, history>>
  PROVE  IInv'
<1>1. UNCHANGED <<asked, action, approval, dead, exec, spent, decided, runs>>
  BY DEF credentials, history
<1>2. DelegationInv
  BY DEF IInv, TypeOK, DelegationInv
<1>3. TokensStay /\ DelegationInv'
  BY <1>2, UnchangedStay, DelegationStays
<1>4. HandedStay
  BY <1>1 DEF HandedStay
<1>5. TypeOK'
  BY <1>1, <1>3 DEF IInv, TypeOK, RequestsTypeOK, DelegationInv
<1>6. \A q \in Requests : AskedFits(q)' /\ CredentialFits(q)'
  BY <1>1, <1>3, RequestKept
<1>7. \A x \in Executions : ReservationFits(x)'
  BY <1>1, <1>3, <1>4, ReservationKept
<1>8. \A run \in runs' : RunFits(run)'
  BY <1>1, <1>3, <1>4, RunKept
<1>9. \A j \in Jtis : SpendFits(j)'
  BY <1>1, <1>3, SpendKept
<1> QED
  BY <1>3, <1>5, <1>6, <1>7, <1>8, <1>9 DEF IInv, DelegationInv

LEMMA NextIInv == IInv /\ [Next]_vars => IInv'
<1> SUFFICES ASSUME IInv, [Next]_vars PROVE IInv'
  OBVIOUS
<1>1. ASSUME NEW r \in Requests,
             \/ \E i \in Intents, token \in TokenJtis, kid \in Kids, t \in Clocks :
                  Authorize(r, i, token, kid, t)
             \/ BudgetAnswered(r) \/ Signed(r) \/ SignerFails(r) \/ RevokeCredential(r)
             \/ \E t \in Clocks : Approve(r, t)
      PROVE  IInv'
  BY <1>1, AuthorizeIInv, BudgetAnsweredIInv, SignedIInv, SignerFailsIInv, ApproveIInv,
     RevokeCredentialIInv
<1>2. ASSUME NEW x \in Executions,
             \/ \E c, a \in Issued, i \in Intents, t \in Clocks : Execute(x, c, a, i, t)
             \/ Reserve(x)
      PROVE  IInv'
  BY <1>2, ExecuteIInv, ReserveIInv
<1>3. CASE DelegationNext /\ UNCHANGED <<asked, credentials, exec, spent, history>>
  BY <1>3, TokensIInv
<1>4. CASE UNCHANGED vars
  BY <1>4, TokensIInv DEF vars
<1> QED
  BY <1>1, <1>2, <1>3, <1>4 DEF Next

-----------------------------------------------------------------------------
(* From an intent to its execution: the theorems.                          *)

(* Whatever authorize() decides and however requests, executions and       *)
(* revocations interleave, a credential says what was decided, and a       *)
(* reservation and an execution say what execute() found of a credential   *)
(* that was handed out.                                                    *)
THEOREM Inductive == Spec => []IInv
  BY InitIInv, NextIInv, PTL DEF Spec

(* "The exact action, or nothing": what runs is the intent that was        *)
(* weighed, under its own token, allowed or approved.                      *)
THEOREM ExactActionOrNothing == Spec => []RunsWereDecided
<1>1. IInv => RunsWereDecided
  <2> SUFFICES ASSUME IInv, NEW run \in runs
               PROVE  LET d == decided[run.jti] IN
                      /\ d # Nothing /\ d.intent = run.intent /\ d.token = run.token
                      /\ \/ d.verdict = "allow"
                         \/ d.verdict = "step_up" /\ approval[run.jti] # Nothing
    BY DEF RunsWereDecided
  <2>1. Handed(run.jti, run.intent, run.token)
    BY DEF IInv, RunFits
  <2>2. run.jti \in Requests /\ action[run.jti] # Nothing /\ CredentialFits(run.jti)
    BY <2>1 DEF Handed, IInv
  <2>3. decided[run.jti] \in Decided
    <3>1. decided[run.jti] \in Decided \cup {Nothing}
      BY <2>2 DEF IInv, TypeOK, RequestsTypeOK
    <3>2. action[run.jti] \in ActionCredentials
      BY <2>2 DEF IInv, TypeOK, RequestsTypeOK
    <3> QED
      BY <2>2, <3>2 DEF CredentialFits, ActionCredentials, Decided
  <2>4. decided[run.jti] # Nothing
    BY <2>3, AuthorizeAssumption
  <2> QED
    BY <2>1, <2>2, <2>4 DEF CredentialFits, Handed
<1> QED
  BY <1>1, Inductive, PTL

(* A delegated action stays within every grant above it.                   *)
THEOREM DelegatedWithinGrants == Spec => []RunsWithinAuthority
<1>1. IInv => RunsWithinAuthority
  <2> SUFFICES ASSUME IInv PROVE RunsWithinAuthority
    OBVIOUS
  <2>1. ASSUME NEW run \in runs, run.token # NoJti
        PROVE  /\ tokens[run.token].sub = intent[run.intent].sub
               /\ \A a \in {run.token} \cup above[run.token] :
                    /\ Covers(tokens[a].granted, intent[run.intent].action,
                              intent[run.intent].resource, intent[run.intent].destination)
                    /\ intent[run.intent].amount_cents <= tokens[a].granted.max_spend_cents
                    /\ run.at <= tokens[a].granted.not_after
                    /\ a \notin run.gone
    <3>1. RunFits(run)
      BY DEF IInv
    <3>2. tokens[run.token].sub = intent[run.intent].sub
      BY <2>1, <3>1, HandedOwns DEF RunFits
    <3> QED
      BY <2>1, <3>1, <3>2 DEF RunFits, Checked
  <2>2. \A run \in runs : run.jti \notin run.gone
    BY DEF IInv, RunFits
  <2>3. \A j \in Registered : spent[j] <= tokens[j].granted.max_spend_cents
    BY DEF IInv, SpendFits, Registered
  <2> QED
    BY <2>1, <2>2, <2>3 DEF RunsWithinAuthority
<1> QED
  BY <1>1, Inductive, PTL

(* execute() and /v1/verify say the same of a credential, by any clock:    *)
(* what execute() accepts is valid, but for the time before its iat; and   *)
(* what is valid is accepted for the intent it was made for, as long as    *)
(* its approval lives and the tokens above it may be used.                 *)
THEOREM ExecuteAgreesWithVerify == Spec => []VerifyAgrees
<1>1. ASSUME IInv, NEW c \in Issued \ {Nothing}, c.kind = "action"
      PROVE  /\ c.jti \in Requests /\ c = action[c.jti] /\ c \in ActionCredentials
             /\ CredentialFits(c.jti)
             /\ {"jti", "iat", "exp", "sub", "intent_hash"} \subseteq DOMAIN c
  <2>1. c.jti \in Requests /\ c = action[c.jti] /\ c \in ActionCredentials
    BY <1>1, IssuedIsHanded
  <2>2. CredentialFits(c.jti)
    BY <1>1, <2>1 DEF IInv
  <2>3. {"jti", "iat", "exp", "sub", "intent_hash"} \subseteq DOMAIN c
    BY <2>1 DEF ActionCredentials
  <2> QED
    BY <2>1, <2>2, <2>3
<1>2. ASSUME IInv, NEW c \in Issued \ {Nothing}, NEW t \in Clocks,
             NEW a \in Issued, NEW i \in Intents, Accepts(c, a, i, t)
      PROVE  c.kind = "action" /\ (doVerify(c, t) <=> c.iat <= t)
  <2>1. c.kind = "action" /\ t <= c.exp /\ NotRevoked(c) /\ c.sub = intent[i].sub
    BY <1>2 DEF Accepts, ActionFits
  <2>2. c.iat < c.exp
    BY <1>1, <1>2, <2>1 DEF CredentialFits
  <2>3. {"jti", "iat", "exp", "sub", "intent_hash"} \subseteq DOMAIN c
    BY <1>1, <1>2, <2>1
  <2>4. c.sub \in usable /\ c.kid \in keys[c.sub]
    BY <1>2, <2>1 DEF Accepts
  <2> QED
    BY <2>1, <2>2, <2>3, <2>4 DEF doVerify, verifyOffline, checkEnvelopeShape
<1>3. ASSUME IInv, NEW c \in Issued \ {Nothing}, NEW t \in Clocks, doVerify(c, t),
             c.requires_approval => t <= approval[c.jti].exp,
             c.token_jti # NoJti => TokenUsable(c.token_jti, t)
      PROVE  Accepts(c, approval[c.jti], c.intent_hash, t)
  <2>1. c.kind = "action"
    <3> SUFFICES ASSUME c.kind # "action" PROVE FALSE
      OBVIOUS
    <3>1. PICK r \in Requests : c = action[r] \/ c = approval[r]
      BY DEF Issued
    <3>2. c \in ActionCredentials \/ c \in ApprovalCredentials
      BY <1>3, <3>1 DEF IInv, TypeOK, RequestsTypeOK
    <3>3. c \in ApprovalCredentials
      BY <3>2 DEF ActionCredentials
    <3>4. "iat" \notin DOMAIN c
      BY <3>3 DEF ApprovalCredentials
    <3> QED
      BY <1>3, <3>4 DEF doVerify, verifyOffline, checkEnvelopeShape
  <2>2. /\ c.jti \in Requests /\ c = action[c.jti] /\ c \in ActionCredentials
        /\ CredentialFits(c.jti)
    BY <1>1, <1>3, <2>1
  <2>3. /\ c.sub = intent[c.intent_hash].sub
        /\ OwnToken(c.intent_hash, c.token_jti)
        /\ c.requires_approval =>
             /\ approval[c.jti] # Nothing
             /\ approval[c.jti].intent_hash = c.intent_hash /\ approval[c.jti].action_jti = c.jti
    BY <2>2 DEF CredentialFits
  <2>4. t <= c.exp /\ c.iat <= t /\ c.sub \in usable /\ c.kid \in keys[c.sub] /\ NotRevoked(c)
    BY <1>3, <2>1 DEF doVerify, verifyOffline
  <2>5. c.iat - Skew <= t
    <3>1. t \in Nat /\ c.iat \in Nat /\ Skew \in Nat
      BY <1>3, <2>2, ClocksAreTimes, AuthorizeAssumption DEF IInv, TypeOK, ActionCredentials
    <3> QED
      BY <2>4, <3>1
  <2>6. ActionFits(c, c.intent_hash, t)
    BY <2>1, <2>3, <2>4, <2>5 DEF ActionFits
  <2>7. ASSUME c.requires_approval
        PROVE  ApprovalFits(approval[c.jti], c, c.intent_hash, t)
    <3>1. approval[c.jti] \in ApprovalCredentials
      BY <1>3, <2>2, <2>3, <2>7 DEF IInv, TypeOK, RequestsTypeOK
    <3>2. approval[c.jti].kind = "approval" /\ approval[c.jti].decision = "approved"
      BY <3>1 DEF ApprovalCredentials
    <3> QED
      BY <1>3, <2>3, <2>7, <3>2 DEF ApprovalFits
  <2>8. c.token_jti # NoJti =>
          /\ tokens[c.token_jti] # NoToken
          /\ Covers(tokens[c.token_jti].granted, intent[c.intent_hash].action,
                    intent[c.intent_hash].resource, intent[c.intent_hash].destination)
    BY <2>3 DEF OwnToken, Registered
  <2> QED
    BY <1>3, <2>3, <2>4, <2>6, <2>7, <2>8 DEF Accepts
<1>4. IInv => VerifyAgrees
  BY <1>2, <1>3 DEF VerifyAgrees
<1> QED
  BY <1>4, Inductive, PTL

(* Within the whole gateway, too, "delegation attenuates only".            *)
THEOREM AttenuationInUse == Spec => []WithinEveryAncestor
<1>1. IInv => WithinEveryAncestor
  BY DEF IInv
<1> QED
  BY <1>1, Inductive, PTL

-----------------------------------------------------------------------------
(* From an intent to its execution: what it was weighed by.                *)

DepthOf(token) == IF token = NoJti THEN 0 ELSE tokens[token].depth

(* Some rules, at some time of day, made decision of intent i at a depth.  *)
Outcome(i, depth, decision) ==
  \E rules \in Rules, seen \in BOOLEAN, minute \in Minutes :
    decision = Decision(i, depth, rules, seen, minute)

Weighed(r) ==
  LET d == decided[r] IN
  d # Nothing =>
    /\ d.token # NoJti => d.token \in Registered
    /\ Outcome(d.intent, DepthOf(d.token), d.verdict)

LEMMA IInvIsDelegation == IInv => DelegationInv
  BY DEF IInv, TypeOK, DelegationInv

LEMMA DepthFits ==
  ASSUME IInv, NEW token \in TokenJtis, token # NoJti => token \in Registered
  PROVE  DepthOf(token) \in 0..MAX_DEPTH
<1>1. CASE token = NoJti
  BY <1>1, DelegationAssumption DEF DepthOf
<1>2. CASE token # NoJti
  <2>1. tokens[token] \in Token
    BY <1>2 DEF IInv, TypeOK, TokensTypeOK, Registered
  <2> QED
    BY <1>2, <2>1 DEF DepthOf, Token
<1> QED
  BY <1>1, <1>2

(* Where the verdict and the token stay, so does what it was weighed by.   *)
LEMMA WeighedKept ==
  ASSUME TokensStay, NEW r, Weighed(r), decided'[r] = decided[r]
  PROVE  Weighed(r)'
<1> SUFFICES ASSUME decided[r] # Nothing
             PROVE  /\ decided[r].token # NoJti => decided[r].token \in Registered'
                    /\ Outcome(decided[r].intent, DepthOf(decided[r].token)', decided[r].verdict)
  BY DEF Weighed, Outcome, DepthOf
<1>1. decided[r].token # NoJti => decided[r].token \in Registered
  BY DEF Weighed
<1>2. DepthOf(decided[r].token)' = DepthOf(decided[r].token)
  BY <1>1 DEF TokensStay, DepthOf
<1>3. Outcome(decided[r].intent, DepthOf(decided[r].token), decided[r].verdict)
  BY DEF Weighed
<1> QED
  BY <1>1, <1>2, <1>3 DEF TokensStay

LEMMA EvaluateWeighs ==
  ASSUME IInv, NEW r \in Requests, NEW i \in Intents, NEW token \in TokenJtis,
         NEW kid, token # NoJti => token \in Registered,
         Evaluate(r, i, token, kid), UNCHANGED delegation, \A q \in Requests : Weighed(q)
  PROVE  \A q \in Requests : Weighed(q)'
<1>1. PICK decision \in Decisions[i][DepthOf(token)] :
        decided' = IF decision \in {"allow", "step_up"}
          THEN [decided EXCEPT ![r] = [intent |-> i, token |-> token, verdict |-> decision]]
          ELSE decided
  BY DEF Evaluate, DepthOf
<1>2. PICK depth : depth = DepthOf(token)
  OBVIOUS
<1>3. depth \in 0..MAX_DEPTH
  BY <1>2, DepthFits
<1>4. decision = "dry_run" \/ Outcome(i, depth, decision)
  BY <1>1, <1>2, <1>3 DEF Decisions, Outcome
<1>5. TokensStay
  BY IInvIsDelegation, UnchangedStay
<1>6. ASSUME NEW q \in Requests, decided'[q] = decided[q] PROVE Weighed(q)'
  BY <1>5, <1>6, WeighedKept
<1>7. decided \in [Requests -> Decided \cup {Nothing}]
  BY DEF IInv, TypeOK, RequestsTypeOK
<1>8. CASE decision \in {"allow", "step_up"}
  <2>1. decided'[r] = [intent |-> i, token |-> token, verdict |-> decision]
    BY <1>1, <1>7, <1>8
  <2>2. DepthOf(token)' = depth /\ (token # NoJti => token \in Registered')
    BY <1>2 DEF DepthOf, delegation, Registered
  <2>3. Weighed(r)'
    <3>1. Outcome(i, depth, decision)
      BY <1>4, <1>8
    <3>2. /\ decided'[r].token = token /\ decided'[r].intent = i
          /\ decided'[r].verdict = decision
      BY <2>1
    <3>3. DepthOf(decided[r].token)' = depth
      BY <2>2, <3>2 DEF DepthOf
    <3> QED
      BY ONLY <2>2, <3>1, <3>2, <3>3 DEF Weighed, Outcome
  <2>4. \A q \in Requests : q # r => decided'[q] = decided[q]
    BY <1>1, <1>7, <1>8
  <2> QED
    BY <1>6, <2>3, <2>4
<1>9. CASE decision \notin {"allow", "step_up"}
  BY <1>1, <1>6, <1>9
<1> QED
  BY <1>8, <1>9

LEMMA NextWeighs ==
  ASSUME IInv, [Next]_vars, \A q \in Requests : Weighed(q)
  PROVE  \A q \in Requests : Weighed(q)'
<1> USE IInvIsDelegation
<1>1. ASSUME TokensStay, UNCHANGED decided PROVE \A q \in Requests : Weighed(q)'
  BY <1>1, WeighedKept
<1>2. UNCHANGED delegation => TokensStay
  BY UnchangedStay
<1>3. ASSUME NEW r \in Requests, NEW i \in Intents, NEW token \in TokenJtis,
             NEW kid, NEW t, Authorize(r, i, token, kid, t)
      PROVE  \A q \in Requests : Weighed(q)'
  <2>1. UNCHANGED delegation
    BY <1>3 DEF Authorize
  <2>2. CASE UNCHANGED decided
    BY <1>1, <1>2, <2>1, <2>2
  <2>3. CASE token = NoJti /\ Evaluate(r, i, token, kid)
    BY <2>1, <2>3, EvaluateWeighs
  <2> QED
    BY <1>3, <2>2, <2>3 DEF Authorize, Denied
<1>4. ASSUME NEW r \in Requests, BudgetAnswered(r)
      PROVE  \A q \in Requests : Weighed(q)'
  <2>1. UNCHANGED delegation
    BY <1>4 DEF BudgetAnswered
  <2>2. CASE UNCHANGED decided
    BY <1>1, <1>2, <2>1, <2>2
  <2>3. CASE Evaluate(r, asked[r].intent, asked[r].token, asked[r].kid)
    <3>1. asked[r].pc = "budget"
      BY <1>4 DEF BudgetAnswered
    <3>2. PICK i, token : i = asked[r].intent /\ token = asked[r].token
      OBVIOUS
    <3>3. i \in Intents /\ token \in TokenJtis /\ OwnToken(i, token)
      BY <3>1, <3>2 DEF IInv, AskedFits, TypeOK, RequestsTypeOK
    <3>4. token # NoJti => token \in Registered
      BY <3>3 DEF OwnToken
    <3> QED
      BY <2>1, <2>3, <3>2, <3>3, <3>4, EvaluateWeighs
  <2> QED
    BY <1>4, <2>2, <2>3 DEF BudgetAnswered, Denied
<1>5. ASSUME NEW r \in Requests,
             \/ Signed(r) \/ SignerFails(r) \/ RevokeCredential(r)
             \/ \E t \in Clocks : Approve(r, t)
      PROVE  \A q \in Requests : Weighed(q)'
  <2>1. UNCHANGED <<delegation, decided>>
    BY <1>5 DEF Signed, SignerFails, Approve, RevokeCredential, history
  <2> QED
    BY <1>1, <1>2, <2>1
<1>6. ASSUME NEW x \in Executions,
             \/ \E c, a \in Issued, i \in Intents, t \in Clocks : Execute(x, c, a, i, t)
             \/ Reserve(x)
      PROVE  \A q \in Requests : Weighed(q)'
  <2>1. UNCHANGED <<delegation, decided>>
    BY <1>6 DEF Execute, Reserve, history
  <2> QED
    BY <1>1, <1>2, <2>1
<1>7. CASE DelegationNext /\ UNCHANGED <<asked, credentials, exec, spent, history>>
  <2>1. TokensStay /\ UNCHANGED decided
    BY <1>7, DelegationStays DEF history
  <2> QED
    BY <1>1, <2>1
<1>8. CASE UNCHANGED vars
  <2>1. UNCHANGED <<delegation, decided>>
    BY <1>8 DEF vars, history
  <2> QED
    BY <1>1, <1>2, <2>1
<1> QED
  BY <1>3, <1>4, <1>5, <1>6, <1>7, <1>8 DEF Next

(* What runs was weighed at the depth of its token, and came out allowed   *)
(* or, with an approval, stepped up.                                       *)
RunsWereWeighed ==
  \A run \in runs :
    \/ Outcome(run.intent, DepthOf(run.token), "allow")
    \/ Outcome(run.intent, DepthOf(run.token), "step_up") /\ approval[run.jti] # Nothing

LEMMA RunIsOutcome == Spec => [](IInv /\ RunsWereWeighed)
<1>1. Init => \A q \in Requests : Weighed(q)
  BY DEF Init, Weighed
<1>2. IInv /\ (\A q \in Requests : Weighed(q)) /\ RunsWereDecided => RunsWereWeighed
  <2> SUFFICES ASSUME IInv, \A q \in Requests : Weighed(q), RunsWereDecided, NEW run \in runs
               PROVE  \/ Outcome(run.intent, DepthOf(run.token), "allow")
                      \/ /\ Outcome(run.intent, DepthOf(run.token), "step_up")
                         /\ approval[run.jti] # Nothing
    BY DEF RunsWereWeighed
  <2>1. run.jti \in Requests
    BY DEF IInv, RunFits, Handed
  <2>2. PICK d : d = decided[run.jti]
    OBVIOUS
  <2>3. /\ d # Nothing /\ d.intent = run.intent /\ d.token = run.token
        /\ d.verdict = "allow" \/ (d.verdict = "step_up" /\ approval[run.jti] # Nothing)
    BY <2>2 DEF RunsWereDecided
  <2>4. Outcome(d.intent, DepthOf(d.token), d.verdict)
    BY <2>1, <2>2, <2>3 DEF Weighed
  <2> QED
    BY ONLY <2>3, <2>4
<1>3. IInv /\ [Next]_vars /\ (\A q \in Requests : Weighed(q)) => (\A q \in Requests : Weighed(q)')
  BY NextWeighs
<1>4. (\A q \in Requests : Weighed(q))' <=> (\A q \in Requests : Weighed(q)')
  OBVIOUS
<1> QED
  BY <1>1, <1>2, <1>3, <1>4, Inductive, ExactActionOrNothing, PTL DEF Spec

(* An intent that every setting of its organization has a denying policy   *)
(* for never runs, whatever else allows it, whoever approves it.           *)
THEOREM DeniedNeverRuns ==
  ASSUME NEW CONSTANT i \in Intents,
         \A rules \in Rules, minute \in Minutes, depth \in 0..MAX_DEPTH :
           Matching(rules.policies, "deny", Asks(i, depth), minute) # {}
  PROVE  Spec => [](\A run \in runs : run.intent # i)
<1>1. \A depth \in 0..MAX_DEPTH : \A decision : Outcome(i, depth, decision) => decision = "deny"
  <2> SUFFICES ASSUME NEW depth \in 0..MAX_DEPTH, NEW rules \in Rules, NEW seen \in BOOLEAN,
                      NEW minute \in Minutes
               PROVE  Decision(i, depth, rules, seen, minute) = "deny"
    BY DEF Outcome
  <2>1. evaluate(rules.policies, Asks(i, depth), minute).provisional = "deny"
    BY DenyOverrides DEF DenyWins, Matching
  <2> QED
    BY <2>1 DEF Decision
<1>2. IInv /\ RunsWereWeighed => \A run \in runs : run.intent # i
  <2> SUFFICES ASSUME IInv, RunsWereWeighed, NEW run \in runs, run.intent = i PROVE FALSE
    OBVIOUS
  <2>1. run.token \in TokenJtis /\ (run.token # NoJti => run.token \in Registered)
    BY DEF IInv, TypeOK, RunFits, Handed, CredentialFits, OwnToken
  <2>2. DepthOf(run.token) \in 0..MAX_DEPTH
    BY <2>1, DepthFits
  <2>3. Outcome(i, DepthOf(run.token), "allow") \/ Outcome(i, DepthOf(run.token), "step_up")
    BY DEF RunsWereWeighed
  <2> QED
    BY <1>1, <2>2, <2>3
<1> QED
  BY <1>2, RunIsOutcome, PTL

(* An intent that every setting requires an approval for runs with an      *)
(* approval only.                                                          *)
THEOREM ApprovalIsRequired ==
  ASSUME NEW CONSTANT i \in Intents,
         \A rules \in Rules, minute \in Minutes, depth \in 0..MAX_DEPTH :
           Matching(rules.policies, "require_approval", Asks(i, depth), minute) # {}
  PROVE  Spec => [](\A run \in runs : run.intent = i => approval[run.jti] # Nothing)
<1>1. \A depth \in 0..MAX_DEPTH : \A decision : Outcome(i, depth, decision) => decision # "allow"
  <2> SUFFICES ASSUME NEW depth \in 0..MAX_DEPTH, NEW rules \in Rules, NEW seen \in BOOLEAN,
                      NEW minute \in Minutes
               PROVE  Decision(i, depth, rules, seen, minute) # "allow"
    BY DEF Outcome
  <2>1. \E e \in {"deny", "require_approval"} :
          evaluate(rules.policies, Asks(i, depth), minute).provisional = e
    <3>1. Matching(rules.policies, "require_approval", Asks(i, depth), minute) # {}
      OBVIOUS
    <3> QED
      BY ONLY <3>1, EvaluateIs DEF Verdict
  <2> QED
    BY <2>1 DEF Decision
<1>2. IInv /\ RunsWereWeighed => \A run \in runs : run.intent = i => approval[run.jti] # Nothing
  <2> SUFFICES ASSUME IInv, RunsWereWeighed, NEW run \in runs, run.intent = i
               PROVE  approval[run.jti] # Nothing
    OBVIOUS
  <2>1. run.token \in TokenJtis /\ (run.token # NoJti => run.token \in Registered)
    BY DEF IInv, TypeOK, RunFits, Handed, CredentialFits, OwnToken
  <2>2. DepthOf(run.token) \in 0..MAX_DEPTH
    BY <2>1, DepthFits
  <2> QED
    BY <1>1, <2>2 DEF RunsWereWeighed
<1> QED
  BY <1>2, RunIsOutcome, PTL

=============================================================================
