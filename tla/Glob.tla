---------------------------------- MODULE Glob ----------------------------------
(***************************************************************************)
(* Patterns of actions, resources and destinations: policies and           *)
(* delegation tokens name what they cover by strings in which * stands for *)
(* any text.  A string is a sequence of characters.                        *)
(***************************************************************************)
EXTENDS Integers, Sequences, SequencesExt

Star == "*"
HasStar(p) == Contains(p, Star)

(* U+2028, a character that no . matches.  (U+2029 is another; the intents *)
(* refuse the other line breaks.)                                          *)
LineSeparator == "LS"
OneLine(v) == \A k \in 1..Len(v) : v[k] # LineSeparator

(* The regular expression: every * becomes .*, the rest is literal.  If a  *)
(* text can end at the positions S of v, it can end at after(S, c, v) with *)
(* one more character c of the pattern.                                    *)
after(S, c, v) ==
  IF c = Star
  THEN {k \in 0..Len(v) : \E j \in S : j <= k /\ \A n \in j + 1..k : v[n] # LineSeparator}
  ELSE {k \in 1..Len(v) : k - 1 \in S /\ v[k] = c}

(* ends(p, v)[i]: the positions of v where the first i characters of p can *)
(* end.                                                                    *)
ends(p, v) ==
  LET e[i \in 0..Len(p)] == IF i = 0 THEN {0} ELSE after(e[i - 1], p[i], v)
  IN  e

AnyText == {<<Star>>, <<Star, Star>>}

globMatch(p, v) == p \in AnyText \/ Len(v) \in ends(p, v)[Len(p)]

(* No pattern matches nothing.                                             *)
anyMatch(patterns, v) == \E p \in patterns : globMatch(p, v)

(* A delegated pattern is compared with its parent's up to the first *,    *)
(* and from there on by its end.                                           *)
globSubset(parent, child) ==
  \/ parent = child
  \/ parent \in AnyText
  \/ /\ HasStar(parent) /\ ~HasStar(child)
     /\ globMatch(parent, child)
  \/ /\ HasStar(parent) /\ HasStar(child)
     /\ LET pi == SelectInSeq(parent, LAMBDA c : c = Star)
            ci == SelectInSeq(child, LAMBDA c : c = Star)
        IN  /\ IsPrefix(SubSeq(parent, 1, pi - 1), SubSeq(child, 1, ci - 1))
            /\ IsSuffix(SubSeq(parent, pi + 1, Len(parent)), SubSeq(child, ci + 1, Len(child)))

-----------------------------------------------------------------------------
(* What the two algorithms are for.  They are right about texts of one     *)
(* line.                                                                   *)

(* v is p with some text in the place of every *: at[i] is how much of v   *)
(* the first i characters of p stand for.                                  *)
Stands(p, v) ==
  \E at \in [0..Len(p) -> 0..Len(v)] :
    /\ at[0] = 0 /\ at[Len(p)] = Len(v)
    /\ \A i \in 1..Len(p) :
         IF p[i] = Star THEN at[i - 1] <= at[i]
         ELSE at[i] = at[i - 1] + 1 /\ v[at[i]] = p[i]

(* A child pattern that passes covers no value that its parent does not.   *)
(* The converse is false ("ab*" under "a*b*"): widening is refused, some   *)
(* narrowing with it.                                                      *)
SubsetIsSound(patterns, values) ==
  \A p, c \in patterns :
    globSubset(p, c) => \A v \in values : globMatch(c, v) => globMatch(p, v)

=============================================================================
