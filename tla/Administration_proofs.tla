------------------------- MODULE Administration_proofs -------------------------
(***************************************************************************)
(* Proofs about the administration of an organization: one organization,   *)
(* dead keys, the feed, the chain and what was answered, for any number of *)
(* keys, receipts, checkpoints, crashes and failed writes.                 *)
(*                                                                         *)
(* Every handler makes some of its puts, in order, and then goes on, stops *)
(* or is lost with its process.  So the argument is about what a put may   *)
(* do (Grows): nothing is taken out of the feed or the chain, no dead key  *)
(* comes back, no version is recorded before it is reached.  Where the     *)
(* process may start again, the files hold what memory holds (StoreFits).  *)
(* At the end, what a gateway makes of the callers of an OIDC provider.    *)
(***************************************************************************)
EXTENDS Administration, Oidc, SequenceTheorems, TLAPS

-----------------------------------------------------------------------------
(* Sequences of puts, and sequences that grow.                             *)

LEMMA MaxIs ==
  ASSUME NEW S, NEW m \in S, S \subseteq Int, \A x \in S : x <= m
  PROVE  Max(S) = m
<1>1. \A x \in S : m >= x
  OBVIOUS
<1>2. ASSUME NEW k \in S, \A x \in S : k >= x PROVE k = m
  BY <1>2
<1> QED
  BY <1>1, <1>2 DEF Max

(* A collection that no put names is left alone.                           *)
LEMMA WrittenNever ==
  ASSUME NEW store, NEW puts, NEW n \in Nat, NEW c \in DOMAIN store,
         \A i \in 1..n : puts[i].collection # c
  PROVE  Written(store, puts, n)[c] = store[c]
<1>1. {i \in 1..n : puts[i].collection = c} = {}
  OBVIOUS
<1> QED
  BY <1>1 DEF Written

(* The last put of a collection is what it becomes.                        *)
LEMMA WrittenLast ==
  ASSUME NEW store, NEW puts, NEW n \in Nat, NEW c \in DOMAIN store, NEW i \in 1..n,
         puts[i].collection = c, \A j \in 1..n : puts[j].collection = c => j <= i
  PROVE  Written(store, puts, n)[c] = puts[i].value
<1> DEFINE own == {j \in 1..n : puts[j].collection = c}
<1>1. i \in own /\ own \subseteq Int /\ \A x \in own : x <= i
  OBVIOUS
<1>2. Max(own) = i
  <2> HIDE DEF own
  <2> QED
    BY <1>1, MaxIs
<1>3. Written(store, puts, n)[c] = IF own = {} THEN store[c] ELSE puts[Max(own)].value
  BY DEF Written
<1> QED
  BY <1>1, <1>2, <1>3

(* A collection that one put names has its value once the put was made.    *)
LEMMA WrittenOnce ==
  ASSUME NEW store, NEW puts, NEW len \in Nat, NEW n \in 0..len, NEW c \in DOMAIN store,
         NEW i \in 1..len, puts[i].collection = c,
         \A j \in 1..len : j # i => puts[j].collection # c
  PROVE  Written(store, puts, n)[c] = IF i <= n THEN puts[i].value ELSE store[c]
<1>1. CASE i <= n
  <2>1. i \in 1..n /\ n \in Nat /\ \A j \in 1..n : puts[j].collection = c => j <= i
    BY <1>1
  <2> QED
    BY <1>1, <2>1, WrittenLast
<1>2. CASE ~(i <= n)
  <2>1. n \in Nat /\ \A j \in 1..n : puts[j].collection # c
    BY <1>2
  <2> QED
    BY <1>2, <2>1, WrittenNever
<1> QED
  BY <1>1, <1>2

(* And one that two puts name.                                             *)
LEMMA WrittenTwice ==
  ASSUME NEW store, NEW puts, NEW len \in Nat, NEW n \in 0..len, NEW c \in DOMAIN store,
         NEW i \in 1..len, NEW k \in 1..len, i < k,
         puts[i].collection = c, puts[k].collection = c,
         \A j \in 1..len : j \notin {i, k} => puts[j].collection # c
  PROVE  Written(store, puts, n)[c] =
           IF k <= n THEN puts[k].value ELSE IF i <= n THEN puts[i].value ELSE store[c]
<1>1. CASE k <= n
  <2>1. k \in 1..n /\ n \in Nat /\ \A j \in 1..n : puts[j].collection = c => j <= k
    BY <1>1
  <2> QED
    BY <1>1, <2>1, WrittenLast
<1>2. CASE ~(k <= n) /\ i <= n
  <2>1. i \in 1..n /\ n \in Nat /\ \A j \in 1..n : puts[j].collection = c => j <= i
    BY <1>2
  <2> QED
    BY <1>2, <2>1, WrittenLast
<1>3. CASE ~(k <= n) /\ ~(i <= n)
  <2>1. n \in Nat /\ \A j \in 1..n : puts[j].collection # c
    BY <1>3
  <2> QED
    BY <1>3, <2>1, WrittenNever
<1> QED
  BY <1>1, <1>2, <1>3

LEMMA SeqFacts ==
  ASSUME NEW s, IsSeq(s)
  PROVE  /\ Len(s) \in Nat /\ DOMAIN s = 1..Len(s)
         /\ \A x : x \in ToSet(s) <=> \E i \in 1..Len(s) : s[i] = x
BY DEF IsSeq, ToSet

LEMMA AppendFacts ==
  ASSUME NEW s, IsSeq(s), NEW e
  PROVE  LET t == Append(s, e) IN
         /\ IsSeq(t) /\ Len(t) = Len(s) + 1 /\ DOMAIN t = 1..Len(t)
         /\ \A i \in 1..Len(s) : t[i] = s[i]
         /\ t[Len(s) + 1] = e
         /\ ToSet(t) = ToSet(s) \cup {e}
<1> DEFINE S == ToSet(s) \cup {e}
           t == Append(s, e)
<1>1. s \in Seq(S) /\ e \in S
  <2>1. s \in Seq(ToSet(s)) /\ ToSet(s) \subseteq S
    BY DEF IsSeq
  <2> HIDE DEF S
  <2> QED
    BY <2>1 DEF S
<1> HIDE DEF S
<1>2. /\ t \in Seq(S) /\ Len(t) = Len(s) + 1
      /\ \A i \in 1..Len(s) : t[i] = s[i]
      /\ t[Len(s) + 1] = e
  BY <1>1, AppendProperties
<1>3. DOMAIN t = 1..Len(t) /\ Len(s) \in Nat /\ DOMAIN s = 1..Len(s)
  BY <1>1, <1>2
<1>4. ToSet(t) = ToSet(s) \cup {e}
  <2> HIDE DEF t
  <2>1. ASSUME NEW x \in ToSet(t) PROVE x \in ToSet(s) \cup {e}
    BY <1>2, <1>3 DEF ToSet
  <2>2. ASSUME NEW x \in ToSet(s) PROVE x \in ToSet(t)
    BY <1>2, <1>3 DEF ToSet
  <2>3. e \in ToSet(t)
    BY <1>2, <1>3 DEF ToSet
  <2> QED
    BY <2>1, <2>2, <2>3
<1>5. IsSeq(t)
  BY <1>2, <1>4 DEF IsSeq, S
<1> QED
  BY <1>2, <1>3, <1>4, <1>5

-----------------------------------------------------------------------------
(* What a step may do.                                                     *)

Grows ==
  /\ mem.revocations \subseteq mem'.revocations
  /\ \A k \in Keys : Dead(k) => Dead(k)'
  /\ \/ mem'.audit_receipts = mem.audit_receipts
     \/ \E body : /\ mem'.audit_receipts = Appended(body)
                  /\ body[1] = "policy.update" => body[2] \in mem.policies + 1 .. mem'.policies
  /\ mem.policies <= mem'.policies
  /\ \A c \in ToSet(mem'.audit_checkpoints) : c \in ToSet(mem.audit_checkpoints) \/ Attests(c)
  /\ \A s \in Signings : signing'[s] \in {signing[s], Nothing} \/ Attests(signing'[s])
  /\ \A r \in acked' : r \in acked \/ StillDone(r)'

LEMMA ReceiptsGrow ==
  ASSUME TypeOK, Grows
  PROVE  LET s == mem.audit_receipts  t == mem'.audit_receipts IN
         /\ Len(s) \in Nat /\ Len(t) \in Nat /\ Len(s) <= Len(t)
         /\ DOMAIN s = 1..Len(s) /\ DOMAIN t = 1..Len(t)
         /\ \A i \in 1..Len(s) : t[i] = s[i]
         /\ IsSeq(t) /\ ToSet(s) \subseteq ToSet(t)
<1> DEFINE s == mem.audit_receipts
<1>1. IsSeq(s)
  BY DEF TypeOK
<1>2. Len(s) \in Nat /\ DOMAIN s = 1..Len(s)
  BY <1>1, SeqFacts
<1>3. CASE mem'.audit_receipts = s
  BY <1>1, <1>2, <1>3
<1>4. ASSUME NEW body, mem'.audit_receipts = Appended(body)
      PROVE  LET t == mem'.audit_receipts IN
             /\ Len(t) = Len(s) + 1 /\ DOMAIN t = 1..Len(t)
             /\ \A i \in 1..Len(s) : t[i] = s[i]
             /\ IsSeq(t) /\ ToSet(s) \subseteq ToSet(t)
  BY <1>1, <1>4, AppendFacts DEF Appended
<1> QED
  BY <1>2, <1>3, <1>4 DEF Grows

LEMMA AttestsKept ==
  ASSUME TypeOK, Grows, NEW c, Attests(c)
  PROVE  Attests(c)'
BY ReceiptsGrow DEF Attests

LEMMA VerifiedKept ==
  ASSUME TypeOK, Grows, Verified(mem.audit_receipts)
  PROVE  Verified(mem'.audit_receipts)
<1> DEFINE s == mem.audit_receipts
<1>1. IsSeq(s) /\ Len(s) \in Nat /\ DOMAIN s = 1..Len(s)
  BY SeqFacts DEF TypeOK
<1>2. CASE mem'.audit_receipts = s
  BY <1>2
<1>3. ASSUME NEW body, mem'.audit_receipts = Appended(body)
      PROVE  Verified(mem'.audit_receipts)
  <2> DEFINE t == Appended(body)
  <2>1. /\ Len(t) = Len(s) + 1 /\ DOMAIN t = 1..Len(t)
        /\ \A i \in 1..Len(s) : t[i] = s[i]
        /\ t[Len(s) + 1] = Receipt(body)
    BY <1>1, AppendFacts DEF Appended
  <2>2. Receipt(body).prev = IF Len(s) = 0 THEN Genesis ELSE s[Len(s)]
    <3>1. s = <<>> <=> Len(s) = 0
      BY <1>1, EmptySeq DEF IsSeq
    <3> QED
      BY <3>1 DEF Receipt, LastOf, Last
  <2>3. ASSUME NEW i \in 1..Len(t)
        PROVE  t[i].prev = IF i = 1 THEN Genesis ELSE t[i - 1]
    <3>1. CASE i \in 1..Len(s)
      <4>1. t[i] = s[i] /\ (i # 1 => t[i - 1] = s[i - 1])
        BY <1>1, <2>1, <3>1
      <4> QED
        BY <1>1, <3>1, <4>1 DEF Verified
    <3>2. CASE i = Len(s) + 1
      <4>1. i # 1 => t[i - 1] = s[Len(s)]
        BY <1>1, <2>1, <3>2
      <4>2. i = 1 <=> Len(s) = 0
        BY <1>1, <3>2
      <4> HIDE DEF t
      <4> QED
        BY <2>1, <2>2, <3>2, <4>1, <4>2
    <3> QED
      BY <1>1, <2>1, <3>1, <3>2
  <2> HIDE DEF t
  <2>4. Verified(t)
    BY <2>1, <2>3 DEF Verified
  <2> QED
    BY <1>3, <2>4 DEF t
<1> QED
  BY <1>2, <1>3 DEF Grows

LEMMA VersionsKept ==
  ASSUME TypeOK, TypeOK', Grows, VersionsFit
  PROVE  VersionsFit'
<1> DEFINE s == mem.audit_receipts
           t == mem'.audit_receipts
<1>1. IsSeq(s) /\ Len(s) \in Nat /\ DOMAIN s = 1..Len(s)
  BY SeqFacts DEF TypeOK
<1>2. mem.policies \in Nat /\ mem'.policies \in Nat /\ mem.policies <= mem'.policies
  BY DEF TypeOK, Grows
<1>3. CASE t = s
  BY <1>2, <1>3 DEF VersionsFit
<1>4. ASSUME NEW body, t = Appended(body),
             body[1] = "policy.update" => body[2] \in mem.policies + 1 .. mem'.policies
      PROVE  VersionsFit'
  <2>1. /\ Len(t) = Len(s) + 1 /\ DOMAIN t = 1..Len(t)
        /\ \A i \in 1..Len(s) : t[i] = s[i]
        /\ t[Len(s) + 1] = Receipt(body)
    BY <1>1, <1>4, AppendFacts DEF Appended
  <2>2. t[Len(s) + 1].body = body
    BY <2>1 DEF Receipt
  <2> SUFFICES ASSUME NEW i \in 1..Len(t), t[i].body[1] = "policy.update"
               PROVE  /\ t[i].body[2] \in 1..mem'.policies
                      /\ \A j \in 1..Len(t) : t[j].body = t[i].body => i = j
    BY <2>1 DEF VersionsFit
  <2>3. \A k \in 1..Len(s) : t[k].body[1] = "policy.update" => t[k].body[2] \in 1..mem.policies
    BY <1>1, <2>1 DEF VersionsFit
  <2>4. \A k \in 1..Len(s) : k # i /\ i \in 1..Len(s) => t[k].body # t[i].body
    BY <1>1, <2>1 DEF VersionsFit
  <2>5. \A k \in 1..Len(t) : k \in 1..Len(s) \/ k = Len(s) + 1
    BY <1>1, <2>1
  <2> HIDE DEF s, t
  <2>6. CASE i \in 1..Len(s)
    <3>1. t[i].body[2] \in 1..mem.policies
      BY <2>3, <2>6
    <3>2. body[1] = "policy.update" => body[2] # t[i].body[2]
      BY <1>2, <1>4, <3>1
    <3>3. body # t[i].body
      BY <3>2
    <3> QED
      BY <1>2, <2>2, <2>4, <2>5, <2>6, <3>1, <3>3
  <2>7. CASE i = Len(s) + 1
    <3>1. t[i].body = body /\ body[2] \in mem.policies + 1 .. mem'.policies
      BY <1>4, <2>2, <2>7
    <3>2. ASSUME NEW k \in 1..Len(s) PROVE t[k].body # body
      <4>1. t[k].body = body => body[2] \in 1..mem.policies
        BY <2>3, <2>7, <3>1
      <4> QED
        BY <1>2, <3>1, <4>1
    <3> QED
      BY <1>2, <2>5, <2>7, <3>1, <3>2
  <2> QED
    BY <2>5, <2>6, <2>7
<1> QED
  BY <1>3, <1>4 DEF Grows

(* A step that only grows keeps the invariant of the chain and of what was *)
(* answered.                                                               *)
LEMMA GrowsIInv ==
  ASSUME IInv, Grows, TypeOK', StoreFits', FeedFits'
  PROVE  IInv'
<1>1. TypeOK /\ ChainFits
  BY DEF IInv
<1>2. ChainFits'
  <2>1. Verified(mem'.audit_receipts)
    BY <1>1, VerifiedKept DEF ChainFits
  <2>2. ASSUME NEW c \in ToSet(mem'.audit_checkpoints) PROVE Attests(c)'
    <3>1. Attests(c)
      BY <1>1 DEF ChainFits, Grows
    <3> QED
      BY <1>1, <3>1, AttestsKept
  <2>3. ASSUME NEW s \in Signings, signing'[s] # Nothing PROVE Attests(signing[s])'
    <3>1. PICK c : c = signing'[s]
      OBVIOUS
    <3>2. Attests(c)
      BY <1>1, <2>3, <3>1 DEF ChainFits, Grows
    <3>3. Attests(c)'
      BY <1>1, <3>2, AttestsKept
    <3> QED
      BY <3>1, <3>3 DEF Attests
  <2>4. VersionsFit'
    BY <1>1, VersionsKept DEF ChainFits
  <2> QED
    BY <2>1, <2>2, <2>3, <2>4 DEF ChainFits, Verified
<1>3. ASSUME NEW r \in acked' PROVE StillDone(r)'
  <2>1. CASE r \in acked
    <3>1. StillDone(r)
      BY <2>1 DEF IInv
    <3>2. ToSet(mem.audit_receipts) \subseteq ToSet(mem'.audit_receipts)
      BY <1>1, ReceiptsGrow
    <3>3. r.body[2] \in Keys /\ Dead(r.body[2]) => Dead(r.body[2])'
      BY DEF Grows
    <3> QED
      BY <3>1, <3>2, <3>3 DEF StillDone, Grows
  <2> QED
    BY <2>1 DEF Grows
<1> QED
  BY <1>2, <1>3 DEF IInv

-----------------------------------------------------------------------------
(* What the store makes of a handler's puts.                               *)

NoOrgs(puts) ==
  /\ Len(puts) \in Nat /\ DOMAIN puts = 1..Len(puts)
  /\ \A i \in 1..Len(puts) : puts[i].collection # "orgs"

(* The first n puts were made.                                             *)
Made(puts, n) ==
  /\ n \in 0..Len(puts) /\ mem' = Written(mem, puts, n)
  /\ DOMAIN file' = Collections /\ file'.orgs = 1
  /\ weak' = weak /\ (weak = "process" => file' = mem')

LEMMA WrittenOrgs ==
  ASSUME NEW store, DOMAIN store = Collections, NEW puts, NoOrgs(puts), NEW n \in 0..Len(puts)
  PROVE  DOMAIN Written(store, puts, n) = Collections /\ Written(store, puts, n).orgs = store.orgs
<1>1. DOMAIN Written(store, puts, n) = Collections
  BY DEF Written
<1>2. "orgs" \in DOMAIN store /\ n \in Nat /\ \A i \in 1..n : puts[i].collection # "orgs"
  BY DEF Collections, NoOrgs
<1>3. Written(store, puts, n)["orgs"] = store["orgs"]
  BY <1>2, WrittenNever
<1> QED
  BY <1>1, <1>3

LEMMA SavedMade ==
  ASSUME IInv, mem.orgs = 1, NEW puts, NoOrgs(puts), Saved(puts)
  PROVE  Made(puts, Len(puts))
<1>1. DOMAIN file = Collections /\ file.orgs = 1 /\ (weak = "process" => file = mem)
  BY DEF IInv, TypeOK, StoreFits
<1>2. Len(puts) \in 0..Len(puts)
  BY DEF NoOrgs
<1> QED
  BY <1>1, <1>2, WrittenOrgs DEF Saved, Made

LEMMA PartMade ==
  ASSUME IInv, mem.orgs = 1, NEW puts, NoOrgs(puts), NEW n \in DOMAIN puts,
         weak = "disk", UNCHANGED weak,
         mem' = Written(mem, puts, n), file' = Written(file, puts, n - 1)
  PROVE  Made(puts, n)
<1>1. DOMAIN file = Collections /\ file.orgs = 1
  BY DEF IInv, TypeOK, StoreFits
<1>2. n \in 0..Len(puts) /\ n - 1 \in 0..Len(puts)
  BY DEF NoOrgs
<1> QED
  BY <1>1, <1>2, WrittenOrgs DEF Made

LEMMA DiesMade ==
  ASSUME IInv, mem.orgs = 1, NEW puts, NoOrgs(puts), weak = "process", Dies(puts)
  PROVE  \E n \in 0..Len(puts) : Made(puts, n)
<1>1. DOMAIN file = Collections /\ file.orgs = 1 /\ file = mem
  BY DEF IInv, TypeOK, StoreFits
<1>2. PICK n \in 0..Len(puts) : file' = Written(file, puts, n)
  BY DEF Dies
<1>3. Made(puts, n)
  BY <1>1, <1>2, WrittenOrgs DEF Dies, Made
<1> QED
  BY <1>3

LEMMA MadeFits ==
  ASSUME IInv, mem.orgs = 1, NEW puts, NoOrgs(puts), NEW n, Made(puts, n)
  PROVE  /\ StoreFits' /\ weak' \in {"process", "disk"}
         /\ DOMAIN mem' = Collections /\ DOMAIN file' = Collections
<1>1. DOMAIN mem' = Collections /\ mem'.orgs = 1
  BY WrittenOrgs DEF Made, IInv, TypeOK
<1> QED
  BY <1>1 DEF Made, StoreFits, IInv, TypeOK

(* A step of an organization that has been made.                           *)
LEMMA StepIInv ==
  ASSUME IInv, mem.orgs = 1, NEW puts, NoOrgs(puts), NEW n, Made(puts, n), Grows, FeedFits',
         mem'.apikeys \in [Keys -> KeyRecords \cup {Nothing}], mem'.policies \in Nat,
         mem'.revocations \subseteq [target : Keys \cup Targets, seq : Nat],
         IsSeq(mem'.audit_checkpoints),
         waiting' \subseteq Keys, DOMAIN signing' = Signings, cursor' \in Nat
  PROVE  IInv'
<1>1. /\ StoreFits' /\ weak' \in {"process", "disk"}
      /\ DOMAIN mem' = Collections /\ DOMAIN file' = Collections
  BY MadeFits
<1>2. IsSeq(mem'.audit_receipts)
  BY ReceiptsGrow DEF IInv
<1>3. TypeOK'
  BY <1>1, <1>2 DEF TypeOK, IsSeq
<1> QED
  BY <1>1, <1>3, GrowsIInv

(* The feed, when nothing is added to it and nobody polls.                 *)
LEMMA FeedKept ==
  ASSUME IInv, mem'.revocations = mem.revocations, revSeq' \in {revSeq, Nothing},
         UNCHANGED <<cursor, delivered>>
  PROVE  FeedFits'
<1>1. Numbers' = Numbers
  BY DEF Numbers
<1>2. PICK n \in {0} \cup Numbers : IsHead(n) /\ cursor <= n /\ revSeq \in {n, Nothing}
  BY DEF IInv, FeedFits
<1>3. IsHead(n)'
  BY <1>1, <1>2 DEF IsHead
<1>4. FollowerMissesNothing'
  BY DEF IInv, FeedFits, FollowerMissesNothing
<1> QED
  BY <1>1, <1>2, <1>3, <1>4 DEF FeedFits

(* What a process leaves when it dies.                                     *)
LEMMA DiesLeaves ==
  ASSUME NEW puts, Dies(puts)
  PROVE  /\ revSeq' = Nothing /\ waiting' = {} /\ DOMAIN signing' = Signings
         /\ \A s \in Signings : signing'[s] = Nothing
         /\ UNCHANGED <<weak, cursor, delivered, acked>>
BY DEF Dies, clients

(* An organization with a key, or with a request under way, has been made. *)
LEMMA LiveNeedsOrg ==
  ASSUME IInv, NEW k \in Keys, Live(k) \/ Admin(k) \/ k \in waiting
  PROVE  mem.orgs = 1
BY DEF IInv, StoreFits, Live, Admin

LEMMA SigningNeedsOrg ==
  ASSUME IInv, NEW s \in Signings, signing[s] # Nothing
  PROVE  mem.orgs = 1
BY DEF IInv, StoreFits

-----------------------------------------------------------------------------
(* The handlers.                                                           *)

(* A handler that only stamps the key it accepted.                         *)
LEMMA StampMade ==
  ASSUME IInv, NEW n, Made(<<LastUsed>>, n)
  PROVE  /\ mem'.apikeys = mem.apikeys /\ mem'.policies = mem.policies
         /\ mem'.revocations = mem.revocations /\ mem'.audit_receipts = mem.audit_receipts
         /\ mem'.audit_checkpoints = mem.audit_checkpoints
<1> DEFINE puts == <<LastUsed>>
<1>1. Len(puts) = 1 /\ puts[1].collection = "apikeys" /\ puts[1].value = mem.apikeys
  BY DEF LastUsed, Put
<1>2. mem' = Written(mem, puts, n) /\ n \in 0..1
  BY <1>1 DEF Made
<1> HIDE DEF puts
<1>3. {"apikeys", "policies", "revocations", "audit_receipts", "audit_checkpoints"} \subseteq DOMAIN mem
  BY DEF IInv, TypeOK, Collections
<1>4. mem'["apikeys"] = mem["apikeys"]
  <2>1. mem'["apikeys"] = IF 1 <= n THEN puts[1].value ELSE mem["apikeys"]
    <3>1. 1 \in Nat /\ 1 \in 1..1 /\ \A j \in 1..1 : j # 1 => puts[j].collection # "apikeys"
      OBVIOUS
    <3> QED
      BY <1>1, <1>2, <1>3, <3>1, WrittenOnce, ZenonT(60)
  <2> QED
    BY <1>1, <2>1
<1>5. ASSUME NEW c \in {"policies", "revocations", "audit_receipts", "audit_checkpoints"}
      PROVE  mem'[c] = mem[c]
  <2>1. n \in Nat /\ \A i \in 1..n : puts[i].collection # c
    BY <1>1, <1>2
  <2> QED
    BY <1>2, <1>3, <2>1, WrittenNever
<1>6. /\ mem'["policies"] = mem["policies"] /\ mem'["revocations"] = mem["revocations"]
      /\ mem'["audit_receipts"] = mem["audit_receipts"]
      /\ mem'["audit_checkpoints"] = mem["audit_checkpoints"]
  BY <1>5
<1> QED
  BY <1>4, <1>6

LEMMA StampNoOrgs == NoOrgs(<<LastUsed>>)
BY DEF NoOrgs, LastUsed, Put

(* The three ends of a handler that only stamps a key.                     *)
LEMMA StampEnds ==
  ASSUME IInv, mem.orgs = 1,
         \/ Saved(<<LastUsed>>)
         \/ weak = "disk" /\ UNCHANGED weak
            /\ \E n \in DOMAIN <<LastUsed>> : /\ mem' = Written(mem, <<LastUsed>>, n)
                                              /\ file' = Written(file, <<LastUsed>>, n - 1)
         \/ weak = "process" /\ Dies(<<LastUsed>>)
  PROVE  \E n : Made(<<LastUsed>>, n)
BY StampNoOrgs, SavedMade, PartMade, DiesMade

(* Nothing that is kept changes but for what awaits.                       *)
LEMMA StampIInv ==
  ASSUME IInv, mem.orgs = 1, NEW n, Made(<<LastUsed>>, n), FeedFits',
         \A s \in Signings : signing'[s] \in {signing[s], Nothing} \/ Attests(signing'[s]),
         DOMAIN signing' = Signings, waiting' \subseteq Keys, cursor' \in Nat, UNCHANGED acked
  PROVE  IInv' /\ Grows
<1>1. /\ mem'.apikeys = mem.apikeys /\ mem'.policies = mem.policies
      /\ mem'.revocations = mem.revocations /\ mem'.audit_receipts = mem.audit_receipts
      /\ mem'.audit_checkpoints = mem.audit_checkpoints
  BY StampMade
<1>2. Grows
  BY <1>1 DEF Grows, Dead, IInv, TypeOK
<1> QED
  BY <1>1, <1>2, StampNoOrgs, StepIInv DEF IInv, TypeOK

LEMMA AdmitIInv ==
  ASSUME IInv, NEW k \in Keys, Admit(k)
  PROVE  IInv' /\ Grows
<1>1. mem.orgs = 1
  BY LiveNeedsOrg DEF Admit
<1>2. PICK n : Made(<<LastUsed>>, n)
  BY <1>1, StampEnds DEF Admit, Handle, SaveFails
<1>3. /\ revSeq' \in {revSeq, Nothing} /\ UNCHANGED <<cursor, delivered, acked>>
      /\ \A s \in Signings : signing'[s] \in {signing[s], Nothing}
      /\ DOMAIN signing' = Signings /\ waiting' \subseteq Keys
  BY DiesLeaves DEF Admit, Handle, SaveFails, clients, process, IInv, TypeOK
<1>4. FeedFits'
  BY <1>2, <1>3, StampMade, FeedKept
<1> QED
  BY <1>1, <1>2, <1>3, <1>4, StampIInv DEF IInv, TypeOK

(* What is signed names the last receipt there is.                         *)
LEMMA CheckpointAttests ==
  ASSUME IInv
  PROVE  Attests(Checkpointed)
<1> DEFINE s == mem.audit_receipts
<1>1. Len(s) \in Nat /\ (s = <<>> <=> Len(s) = 0)
  BY SeqFacts, EmptySeq DEF IInv, TypeOK, IsSeq
<1> QED
  BY <1>1 DEF Attests, Checkpointed, LastOf, Last

LEMMA StartCheckpointIInv ==
  ASSUME IInv, NEW s \in Signings, NEW k \in Keys, StartCheckpoint(s, k)
  PROVE  IInv' /\ Grows
<1>1. mem.orgs = 1
  BY LiveNeedsOrg DEF StartCheckpoint
<1>2. PICK n : Made(<<LastUsed>>, n)
  BY <1>1, StampEnds DEF StartCheckpoint, Handle, SaveFails
<1>3. /\ revSeq' \in {revSeq, Nothing} /\ UNCHANGED <<cursor, delivered, acked>>
      /\ waiting' \subseteq Keys
  BY DiesLeaves DEF StartCheckpoint, Handle, SaveFails, clients, process, IInv, TypeOK
<1>4. /\ \A t \in Signings : signing'[t] \in {signing[t], Nothing, Checkpointed}
      /\ DOMAIN signing' = Signings
  BY DiesLeaves DEF StartCheckpoint, Handle, SaveFails, process, IInv, TypeOK
<1>5. \A t \in Signings : signing'[t] \in {signing[t], Nothing} \/ Attests(signing'[t])
  BY <1>4, CheckpointAttests
<1>6. FeedFits'
  BY <1>2, <1>3, StampMade, FeedKept
<1> QED
  BY <1>1, <1>2, <1>3, <1>4, <1>5, <1>6, StampIInv DEF IInv, TypeOK

(* The numbers of the feed have a highest one, and CurrentSeq is it.       *)
LEMMA CurrentSeqIsHead ==
  ASSUME IInv
  PROVE  /\ CurrentSeq \in {0} \cup Numbers /\ CurrentSeq \in Nat
         /\ IsHead(CurrentSeq) /\ cursor <= CurrentSeq
<1>1. PICK n \in {0} \cup Numbers : IsHead(n) /\ cursor <= n /\ revSeq \in {n, Nothing}
  BY DEF IInv, FeedFits
<1>2. Numbers \subseteq Nat
  BY DEF IInv, TypeOK, Numbers
<1>3. Max({0} \cup Numbers) = n
  <2> DEFINE S == {0} \cup Numbers
  <2>1. n \in S /\ S \subseteq Int /\ \A x \in S : x <= n
    BY <1>1, <1>2 DEF IsHead
  <2> HIDE DEF S
  <2>2. Max(S) = n
    BY <2>1, MaxIs
  <2> QED
    BY <2>2 DEF S
<1>4. CurrentSeq = n
  BY <1>1, <1>3, Zenon DEF CurrentSeq
<1> QED
  BY <1>1, <1>2, <1>4

LEMMA PollIInv ==
  ASSUME IInv, NEW k \in Keys, Poll(k)
  PROVE  IInv' /\ Grows
<1>1. mem.orgs = 1
  BY LiveNeedsOrg DEF Poll
<1>2. PICK n : Made(<<LastUsed>>, n)
  BY <1>1, StampEnds DEF Poll, Handle, SaveFails
<1>3. /\ UNCHANGED acked
      /\ \A s \in Signings : signing'[s] \in {signing[s], Nothing}
      /\ DOMAIN signing' = Signings /\ waiting' \subseteq Keys
  BY DiesLeaves DEF Poll, Handle, SaveFails, clients, process, IInv, TypeOK
<1>4. mem'.revocations = mem.revocations
  BY <1>2, StampMade
<1>5. \/ revSeq' \in {revSeq, Nothing} /\ UNCHANGED <<cursor, delivered>>
      \/ /\ delivered' = delivered \cup {r \in mem.revocations : r.seq > cursor}
         /\ cursor' = CurrentSeq /\ revSeq' = CurrentSeq
  BY DiesLeaves DEF Poll, Handle, SaveFails, clients, process
<1>6. CASE revSeq' \in {revSeq, Nothing} /\ UNCHANGED <<cursor, delivered>>
  <2>1. FeedFits' /\ cursor' \in Nat
    BY <1>4, <1>6, FeedKept DEF IInv, TypeOK
  <2> QED
    BY <1>1, <1>2, <1>3, <2>1, StampIInv
<1>7. CASE /\ delivered' = delivered \cup {r \in mem.revocations : r.seq > cursor}
           /\ cursor' = CurrentSeq /\ revSeq' = CurrentSeq
  <2>1. PICK head : head = CurrentSeq
    OBVIOUS
  <2>2. /\ head \in {0} \cup Numbers /\ head \in Nat /\ IsHead(head)
    BY <2>1, CurrentSeqIsHead
  <2>3. Numbers' = Numbers
    BY <1>4 DEF Numbers
  <2>4. IsHead(head)'
    BY <2>2, <2>3 DEF IsHead
  <2>5. FollowerMissesNothing'
    <3>1. \A r \in mem.revocations : r.seq \in Nat /\ (r.seq <= cursor => r \in delivered)
      BY DEF IInv, TypeOK, FeedFits, FollowerMissesNothing
    <3>2. cursor \in Nat
      BY DEF IInv, TypeOK
    <3>3. \A r \in mem.revocations : r \in delivered'
      BY <1>7, <3>1, <3>2
    <3> QED
      BY <1>4, <3>3 DEF FollowerMissesNothing
  <2>6. cursor' <= head /\ revSeq' = head /\ cursor' \in Nat
    BY <1>7, <2>1, <2>2
  <2>7. FeedFits'
    BY <2>2, <2>3, <2>4, <2>5, <2>6 DEF FeedFits
  <2> QED
    BY <1>1, <1>2, <1>3, <2>6, <2>7, StampIInv
<1> QED
  BY <1>5, <1>6, <1>7


-----------------------------------------------------------------------------
(* Handlers that put more.                                                 *)

LEMMA MadeNever ==
  ASSUME IInv, NEW puts, NoOrgs(puts), NEW n, Made(puts, n), NEW c \in Collections,
         \A i \in 1..Len(puts) : puts[i].collection # c
  PROVE  mem'[c] = mem[c]
<1>1. n \in Nat /\ c \in DOMAIN mem /\ mem' = Written(mem, puts, n)
      /\ \A i \in 1..n : puts[i].collection # c
  BY DEF Made, NoOrgs, IInv, TypeOK
<1> QED
  BY <1>1, WrittenNever

LEMMA MadeOnce ==
  ASSUME IInv, NEW puts, NoOrgs(puts), NEW n, Made(puts, n), NEW c \in Collections,
         NEW i \in 1..Len(puts), puts[i].collection = c,
         \A j \in 1..Len(puts) : j # i => puts[j].collection # c
  PROVE  mem'[c] = IF i <= n THEN puts[i].value ELSE mem[c]
<1>1. n \in 0..Len(puts) /\ c \in DOMAIN mem /\ mem' = Written(mem, puts, n) /\ Len(puts) \in Nat
  BY DEF Made, NoOrgs, IInv, TypeOK
<1> QED
  BY <1>1, WrittenOnce, ZenonT(60)

LEMMA MadeTwice ==
  ASSUME IInv, NEW puts, NoOrgs(puts), NEW n, Made(puts, n), NEW c \in Collections,
         NEW i \in 1..Len(puts), NEW k \in 1..Len(puts), i < k,
         puts[i].collection = c, puts[k].collection = c,
         \A j \in 1..Len(puts) : j \notin {i, k} => puts[j].collection # c
  PROVE  mem'[c] = IF k <= n THEN puts[k].value ELSE IF i <= n THEN puts[i].value ELSE mem[c]
<1>1. n \in 0..Len(puts) /\ c \in DOMAIN mem /\ mem' = Written(mem, puts, n) /\ Len(puts) \in Nat
  BY DEF Made, NoOrgs, IInv, TypeOK
<1> QED
  BY <1>1, WrittenTwice, ZenonT(60)

(* However a handler ends, it made some of its puts; if all, it may reply. *)
LEMMA Ends ==
  ASSUME IInv, mem.orgs = 1, NEW puts, NoOrgs(puts),
         \/ Saved(puts)
         \/ weak = "disk" /\ UNCHANGED weak
            /\ \E n \in DOMAIN puts : /\ mem' = Written(mem, puts, n)
                                      /\ file' = Written(file, puts, n - 1)
         \/ weak = "process" /\ Dies(puts)
  PROVE  \E n : Made(puts, n) /\ (Saved(puts) => n = Len(puts))
<1>1. CASE Saved(puts)
  BY <1>1, SavedMade
<1>2. CASE ~Saved(puts)
  BY <1>2, PartMade, DiesMade
<1> QED
  BY <1>1, <1>2

LEMMA NewKeyFacts ==
  ASSUME NEW held \in Roles
  PROVE  NewKey(held) \in KeyRecords /\ NewKey(held) # Nothing /\ ~NewKey(held).revoked
<1>1. NewKey(held) \in KeyRecords
  BY DEF NewKey, KeyRecords
<1>2. ~NewKey(held).revoked
  BY DEF NewKey
<1> QED
  BY <1>1, <1>2, AdministrationAssumption

LEMMA RevokedFacts ==
  ASSUME NEW keys \in [Keys -> KeyRecords \cup {Nothing}], NEW k \in Keys, keys[k] # Nothing
  PROVE  /\ Revoked(keys, k) \in [Keys -> KeyRecords \cup {Nothing}]
         /\ Revoked(keys, k)[k] # Nothing /\ Revoked(keys, k)[k].revoked
         /\ \A j \in Keys \ {k} : Revoked(keys, k)[j] = keys[j]
<1>1. [keys[k] EXCEPT !.revoked = TRUE] \in KeyRecords
  BY DEF KeyRecords
<1>2. [keys[k] EXCEPT !.revoked = TRUE].revoked
  BY DEF KeyRecords
<1>3. Revoked(keys, k) = [keys EXCEPT ![k] = [keys[k] EXCEPT !.revoked = TRUE]]
  BY DEF Revoked
<1>4. Revoked(keys, k)[k] = [keys[k] EXCEPT !.revoked = TRUE]
  BY <1>3
<1> QED
  BY <1>1, <1>2, <1>3, <1>4, AdministrationAssumption

LEMMA MintKeyIInv ==
  ASSUME IInv, NEW k \in Keys, NEW new \in Keys, NEW held \in Roles, MintKey(k, new, held)
  PROVE  IInv' /\ Grows
<1> DEFINE keys == [mem.apikeys EXCEPT ![new] = NewKey(held)]
           puts == <<Put("apikeys", keys)>>
<1>1. mem.orgs = 1
  BY LiveNeedsOrg DEF MintKey
<1>2. Len(puts) = 1 /\ DOMAIN puts = 1..1 /\ puts[1].collection = "apikeys" /\ puts[1].value = keys
  BY DEF Put
<1>3. mem.apikeys[new] = Nothing
  BY DEF MintKey
<1>4. \/ Saved(puts) /\ LeavesWaiting(k) /\ UNCHANGED clients
      \/ SaveFails(puts, LeavesWaiting(k))
      \/ weak = "process" /\ Dies(puts)
  BY DEF MintKey, Handle
<1> HIDE DEF puts
<1>5. NoOrgs(puts)
  BY <1>2 DEF NoOrgs
<1>6. PICK n : Made(puts, n)
  BY <1>1, <1>4, <1>5, Ends DEF SaveFails
<1>7. mem'["apikeys"] = IF 1 <= n THEN keys ELSE mem["apikeys"]
  BY <1>2, <1>5, <1>6, MadeOnce DEF Collections
<1>8. \A c \in Collections \ {"apikeys"} : mem'[c] = mem[c]
  BY <1>2, <1>5, <1>6, MadeNever
<1>9. /\ mem'.policies = mem.policies /\ mem'.revocations = mem.revocations
      /\ mem'.audit_receipts = mem.audit_receipts
      /\ mem'.audit_checkpoints = mem.audit_checkpoints
  BY <1>8 DEF Collections
<1>10. /\ revSeq' \in {revSeq, Nothing} /\ UNCHANGED <<cursor, delivered, acked>>
       /\ \A s \in Signings : signing'[s] \in {signing[s], Nothing}
       /\ DOMAIN signing' = Signings /\ waiting' \subseteq Keys
  BY <1>4, DiesLeaves DEF SaveFails, LeavesWaiting, clients, IInv, TypeOK
<1>11. mem'.apikeys \in {mem.apikeys, keys}
  BY <1>7
<1>12. /\ mem'.apikeys \in [Keys -> KeyRecords \cup {Nothing}]
       /\ \A j \in Keys : Dead(j) => Dead(j)'
  BY <1>3, <1>11, NewKeyFacts DEF IInv, TypeOK, Dead
<1>13. Grows
  BY <1>9, <1>10, <1>12 DEF Grows, IInv, TypeOK
<1>14. FeedFits'
  BY <1>9, <1>10, FeedKept
<1> QED
  BY <1>1, <1>5, <1>6, <1>9, <1>10, <1>12, <1>13, <1>14, StepIInv DEF IInv, TypeOK

(* A new receipt is of the chain.                                          *)
LEMMA RecordedIs ==
  ASSUME IInv, NEW body, mem'.audit_receipts = Appended(body)
  PROVE  Receipt(body) \in ToSet(mem'.audit_receipts) /\ Receipt(body).body = body
BY AppendFacts DEF IInv, TypeOK, Appended, Receipt

LEMMA UpdatePolicyIInv ==
  ASSUME IInv, NEW k \in Keys, UpdatePolicy(k)
  PROVE  IInv' /\ Grows
<1> DEFINE version == mem.policies + 1
           body == <<"policy.update", version>>
           puts == <<LastUsed, Put("policies", version), Record(body)>>
<1>1. mem.orgs = 1
  BY LiveNeedsOrg DEF UpdatePolicy
<1>2. /\ Len(puts) = 3 /\ DOMAIN puts = 1..3
      /\ puts[1].collection = "apikeys" /\ puts[1].value = mem.apikeys
      /\ puts[2].collection = "policies" /\ puts[2].value = version
      /\ puts[3].collection = "audit_receipts" /\ puts[3].value = Appended(body)
  BY DEF Put, LastUsed, Record
<1>3. /\ body[1] = "policy.update" /\ body[2] = version
      /\ mem.policies \in Nat
  BY DEF IInv, TypeOK
<1>4. \/ Saved(puts) /\ Ack(body) /\ UNCHANGED process
      \/ SaveFails(puts, UNCHANGED process)
      \/ weak = "process" /\ Dies(puts)
  BY DEF UpdatePolicy, Handle
<1>5. Receipt(body).body = body
  BY DEF Receipt
<1> HIDE DEF puts, body
<1>6. NoOrgs(puts)
  BY <1>2 DEF NoOrgs
<1>7. PICK n : Made(puts, n) /\ (Saved(puts) => n = 3)
  BY <1>1, <1>2, <1>4, <1>6, Ends DEF SaveFails
<1>8. n \in 0..3
  BY <1>2, <1>7 DEF Made
<1>9. mem'["apikeys"] = mem["apikeys"]
  BY <1>2, <1>6, <1>7, MadeOnce, SMTT(30) DEF Collections
<1>10. mem'["policies"] = IF 2 <= n THEN version ELSE mem["policies"]
  BY <1>2, <1>6, <1>7, MadeOnce, SMTT(30) DEF Collections
<1>11. mem'["audit_receipts"] = IF 3 <= n THEN Appended(body) ELSE mem["audit_receipts"]
  <2>1. 3 \in 1..Len(puts) /\ \A j \in 1..Len(puts) : j # 3 => puts[j].collection # "audit_receipts"
    BY <1>2
  <2>2. mem'["audit_receipts"] = IF 3 <= n THEN puts[3].value ELSE mem["audit_receipts"]
    BY <1>2, <1>6, <1>7, <2>1, MadeOnce DEF Collections
  <2> QED
    BY <1>2, <2>2
<1>12. \A c \in {"revocations", "audit_checkpoints"} : mem'[c] = mem[c]
  BY <1>2, <1>6, <1>7, MadeNever DEF Collections
<1>13. mem'.revocations = mem.revocations /\ mem'.audit_checkpoints = mem.audit_checkpoints
  BY <1>12
<1>14. /\ revSeq' \in {revSeq, Nothing} /\ UNCHANGED <<cursor, delivered>>
       /\ \A s \in Signings : signing'[s] \in {signing[s], Nothing}
       /\ DOMAIN signing' = Signings /\ waiting' \subseteq Keys
       /\ acked' = acked \/ (acked' = acked \cup {Receipt(body)} /\ n = 3)
  BY <1>4, <1>7, DiesLeaves DEF SaveFails, Ack, clients, process, IInv, TypeOK
<1>15. mem'.policies \in Nat /\ mem.policies <= mem'.policies
  BY <1>3, <1>10
<1>16. ASSUME NEW r \in acked', r \notin acked PROVE StillDone(r)'
  <2>1. r = Receipt(body) /\ mem'.audit_receipts = Appended(body)
    BY <1>11, <1>14, <1>16
  <2>2. r \in ToSet(mem'.audit_receipts) /\ r.body[1] = "policy.update"
    BY <1>3, <2>1, RecordedIs
  <2> QED
    BY <2>2 DEF StillDone
<1>17. \/ mem'.audit_receipts = mem.audit_receipts
       \/ mem'.audit_receipts = Appended(body) /\ body[2] \in mem.policies + 1 .. mem'.policies
  BY <1>3, <1>8, <1>10, <1>11
<1>18. Grows
  BY <1>9, <1>13, <1>14, <1>15, <1>16, <1>17 DEF Grows, Dead
<1>19. FeedFits'
  BY <1>13, <1>14, FeedKept
<1> QED
  BY <1>1, <1>6, <1>7, <1>9, <1>13, <1>14, <1>15, <1>18, <1>19, StepIInv DEF IInv, TypeOK


LEMMA RotateKeyIInv ==
  ASSUME IInv, NEW k \in Keys, NEW old \in Keys, NEW new \in Keys, RotateKey(k, old, new)
  PROVE  IInv' /\ Grows
<1> DEFINE body == <<"apikey.rotate", old>>
           without == Revoked(mem.apikeys, old)
           with == [without EXCEPT ![new] = NewKey(mem.apikeys[old].role)]
           puts == <<Put("apikeys", without), Put("apikeys", with), Record(body)>>
<1>1. mem.orgs = 1
  BY LiveNeedsOrg DEF RotateKey
<1>2. /\ Len(puts) = 3 /\ DOMAIN puts = 1..3
      /\ puts[1].collection = "apikeys" /\ puts[1].value = without
      /\ puts[2].collection = "apikeys" /\ puts[2].value = with
      /\ puts[3].collection = "audit_receipts" /\ puts[3].value = Appended(body)
  BY DEF Put, Record
<1>3. body[1] = "apikey.rotate" /\ body[2] = old
  OBVIOUS
<1>4. \/ Saved(puts) /\ Ack(body) /\ LeavesWaiting(k)
      \/ SaveFails(puts, LeavesWaiting(k))
      \/ weak = "process" /\ Dies(puts)
  BY DEF RotateKey, Handle
<1>5. /\ mem.apikeys \in [Keys -> KeyRecords \cup {Nothing}]
      /\ mem.apikeys[old] # Nothing /\ mem.apikeys[new] = Nothing
  BY DEF IInv, TypeOK, RotateKey
<1>6. /\ without \in [Keys -> KeyRecords \cup {Nothing}]
      /\ without[old] # Nothing /\ without[old].revoked
      /\ \A j \in Keys \ {old} : without[j] = mem.apikeys[j]
  BY <1>5, RevokedFacts
<1>7. /\ with \in [Keys -> KeyRecords \cup {Nothing}]
      /\ with[old] # Nothing /\ with[old].revoked
      /\ \A j \in Keys \ {old, new} : with[j] = mem.apikeys[j]
  <2>1. mem.apikeys[old].role \in Roles
    BY <1>5 DEF KeyRecords
  <2>2. NewKey(mem.apikeys[old].role) \in KeyRecords
    BY <2>1, NewKeyFacts
  <2>3. with \in [Keys -> KeyRecords \cup {Nothing}]
    BY <1>6, <2>2
  <2>4. with[old] = without[old] /\ \A j \in Keys \ {old, new} : with[j] = without[j]
    BY <1>5, <1>6
  <2> QED
    BY <1>6, <2>3, <2>4
<1> HIDE DEF puts, body, with, without
<1>8. NoOrgs(puts)
  BY <1>2 DEF NoOrgs
<1>9. PICK n : Made(puts, n) /\ (Saved(puts) => n = 3)
  BY <1>1, <1>2, <1>4, <1>8, Ends DEF SaveFails
<1>10. n \in 0..3
  BY <1>2, <1>9 DEF Made
<1>11. mem'["apikeys"] = IF 2 <= n THEN with ELSE IF 1 <= n THEN without ELSE mem["apikeys"]
  <2>1. /\ 1 \in 1..Len(puts) /\ 2 \in 1..Len(puts) /\ 1 < 2
        /\ \A j \in 1..Len(puts) : j \notin {1, 2} => puts[j].collection # "apikeys"
    BY <1>2
  <2>2. mem'["apikeys"] = IF 2 <= n THEN puts[2].value
                          ELSE IF 1 <= n THEN puts[1].value ELSE mem["apikeys"]
    BY <1>2, <1>8, <1>9, <2>1, MadeTwice, ZenonT(60) DEF Collections
  <2> QED
    BY <1>2, <2>2
<1>12. mem'["audit_receipts"] = IF 3 <= n THEN Appended(body) ELSE mem["audit_receipts"]
  <2>1. 3 \in 1..Len(puts) /\ \A j \in 1..Len(puts) : j # 3 => puts[j].collection # "audit_receipts"
    BY <1>2
  <2>2. mem'["audit_receipts"] = IF 3 <= n THEN puts[3].value ELSE mem["audit_receipts"]
    BY <1>2, <1>8, <1>9, <2>1, MadeOnce DEF Collections
  <2> QED
    BY <1>2, <2>2
<1>13. \A c \in {"policies", "revocations", "audit_checkpoints"} : mem'[c] = mem[c]
  BY <1>2, <1>8, <1>9, MadeNever DEF Collections
<1>14. /\ mem'.policies = mem.policies /\ mem'.revocations = mem.revocations
       /\ mem'.audit_checkpoints = mem.audit_checkpoints
  BY <1>13
<1>15. /\ revSeq' \in {revSeq, Nothing} /\ UNCHANGED <<cursor, delivered>>
       /\ \A s \in Signings : signing'[s] \in {signing[s], Nothing}
       /\ DOMAIN signing' = Signings /\ waiting' \subseteq Keys
       /\ acked' = acked \/ (acked' = acked \cup {Receipt(body)} /\ n = 3)
  BY <1>4, <1>9, DiesLeaves DEF SaveFails, Ack, LeavesWaiting, clients, IInv, TypeOK
<1>16. mem'.apikeys \in {mem.apikeys, without, with}
  BY <1>11
<1>17. /\ mem'.apikeys \in [Keys -> KeyRecords \cup {Nothing}]
       /\ \A j \in Keys : Dead(j) => Dead(j)'
  <2>1. mem'.apikeys \in [Keys -> KeyRecords \cup {Nothing}]
    BY <1>5, <1>6, <1>7, <1>16
  <2>2. ASSUME NEW j \in Keys, Dead(j) PROVE Dead(j)'
    <3>1. j # new
      BY <1>5, <2>2 DEF Dead
    <3>2. CASE j = old
      BY <1>6, <1>7, <1>16, <2>2, <3>2 DEF Dead
    <3>3. CASE j # old
      <4>1. mem'.apikeys[j] = mem.apikeys[j]
        BY <1>6, <1>7, <1>16, <3>1, <3>3
      <4> QED
        BY <2>2, <4>1 DEF Dead
    <3> QED
      BY <3>2, <3>3
  <2> QED
    BY <2>1, <2>2
<1>18. ASSUME NEW r \in acked', r \notin acked PROVE StillDone(r)'
  <2>1. r = Receipt(body) /\ n = 3
    BY <1>15, <1>18
  <2>2. mem'.audit_receipts = Appended(body) /\ mem'.apikeys = with
    BY <1>11, <1>12, <2>1
  <2>3. r \in ToSet(mem'.audit_receipts) /\ r.body[1] = "apikey.rotate" /\ r.body[2] = old
    BY <1>3, <2>1, <2>2, RecordedIs
  <2>4. Dead(old)'
    BY <1>7, <2>2 DEF Dead
  <2>5. Dead(r.body[2])'
    BY <2>3, <2>4 DEF Dead
  <2> QED
    BY <2>3, <2>5 DEF StillDone
<1>19. \/ mem'.audit_receipts = mem.audit_receipts
       \/ mem'.audit_receipts = Appended(body) /\ body[1] # "policy.update"
  BY <1>3, <1>12
<1>20. Grows
  BY <1>14, <1>15, <1>17, <1>18, <1>19 DEF Grows, IInv, TypeOK
<1>21. FeedFits'
  BY <1>14, <1>15, FeedKept
<1> QED
  BY <1>1, <1>8, <1>9, <1>14, <1>15, <1>17, <1>20, <1>21, StepIInv DEF IInv, TypeOK

LEMMA EndCheckpointIInv ==
  ASSUME IInv, NEW s \in Signings, EndCheckpoint(s)
  PROVE  IInv' /\ Grows
<1> DEFINE kept == Append(mem.audit_checkpoints, signing[s])
           end == signing' = [signing EXCEPT ![s] = Nothing] /\ UNCHANGED <<revSeq, waiting>>
<1>1. mem.orgs = 1
  BY SigningNeedsOrg DEF EndCheckpoint
<1>2. PICK puts \in {<<>>, <<Put("audit_checkpoints", kept)>>} :
        \/ Saved(puts) /\ end /\ UNCHANGED clients
        \/ SaveFails(puts, end)
        \/ weak = "process" /\ Dies(puts)
  BY DEF EndCheckpoint, Handle, Signed
<1>3. /\ Len(puts) \in {0, 1} /\ DOMAIN puts = 1..Len(puts)
      /\ \A i \in 1..Len(puts) : puts[i].collection = "audit_checkpoints" /\ puts[i].value = kept
  BY DEF Put
<1>4. Attests(signing[s]) /\ IsSeq(mem.audit_checkpoints)
  BY DEF EndCheckpoint, IInv, TypeOK, ChainFits
<1>5. IsSeq(kept) /\ ToSet(kept) = ToSet(mem.audit_checkpoints) \cup {signing[s]}
  BY <1>4, AppendFacts
<1> HIDE DEF kept
<1>6. NoOrgs(puts)
  BY <1>3 DEF NoOrgs
<1>7. PICK n : Made(puts, n)
  BY <1>1, <1>2, <1>6, Ends DEF SaveFails
<1>8. mem'["audit_checkpoints"] \in {mem["audit_checkpoints"], kept}
  <2>1. CASE Len(puts) = 0
    BY <1>6, <1>7, <2>1, MadeNever DEF Collections
  <2>2. CASE Len(puts) = 1
    <3>1. 1 \in 1..Len(puts) /\ puts[1].collection = "audit_checkpoints" /\ puts[1].value = kept
      BY <1>3, <2>2
    <3>2. mem'["audit_checkpoints"] = IF 1 <= n THEN puts[1].value ELSE mem["audit_checkpoints"]
      BY <1>6, <1>7, <2>2, <3>1, MadeOnce DEF Collections
    <3> QED
      BY <3>1, <3>2
  <2> QED
    BY <1>3, <2>1, <2>2
<1>9. \A c \in Collections \ {"audit_checkpoints"} : mem'[c] = mem[c]
  BY <1>3, <1>6, <1>7, MadeNever
<1>10. /\ mem'.policies = mem.policies /\ mem'.revocations = mem.revocations
       /\ mem'.audit_receipts = mem.audit_receipts /\ mem'.apikeys = mem.apikeys
  BY <1>9 DEF Collections
<1>11. /\ revSeq' \in {revSeq, Nothing} /\ UNCHANGED <<cursor, delivered, acked>>
       /\ \A t \in Signings : signing'[t] \in {signing[t], Nothing}
       /\ DOMAIN signing' = Signings /\ waiting' \subseteq Keys
  BY <1>2, DiesLeaves DEF SaveFails, clients, IInv, TypeOK
<1>12. /\ IsSeq(mem'.audit_checkpoints)
       /\ \A c \in ToSet(mem'.audit_checkpoints) : c \in ToSet(mem.audit_checkpoints) \/ Attests(c)
  BY <1>4, <1>5, <1>8
<1>13. Grows
  BY <1>10, <1>11, <1>12 DEF Grows, Dead, IInv, TypeOK
<1>14. FeedFits'
  BY <1>10, <1>11, FeedKept
<1> QED
  BY <1>1, <1>6, <1>7, <1>10, <1>11, <1>12, <1>13, <1>14, StepIInv DEF IInv, TypeOK


(* What a sequence put together from four others is made of.               *)
LEMMA Between ==
  ASSUME NEW S, NEW x \in S, NEW s \in Seq(S), NEW t \in Seq(S), NEW y \in S, NEW u,
         u = <<x>> \o (s \o t \o <<y>>)
  PROVE  /\ Len(s) \in Nat /\ Len(t) \in Nat
         /\ Len(u) = Len(s) + Len(t) + 2 /\ DOMAIN u = 1..Len(u)
         /\ u[1] = x /\ u[Len(u)] = y
         /\ \A i \in 1..Len(s) : u[i + 1] = s[i]
         /\ \A i \in 1..Len(t) : u[Len(s) + i + 1] = t[i]
<1>1. PICK v : v = s \o t
  OBVIOUS
<1>2. PICK h, e, w : h = <<x>> /\ e = <<y>> /\ w = v \o e
  OBVIOUS
<1>3. /\ h \in Seq(S) /\ Len(h) = 1 /\ h[1] = x
      /\ e \in Seq(S) /\ Len(e) = 1 /\ e[1] = y
  BY <1>2
<1>4. u = h \o w
  BY <1>1, <1>2
<1>5. Len(s) \in Nat /\ Len(t) \in Nat
  OBVIOUS
<1>6. /\ v \in Seq(S) /\ Len(v) = Len(s) + Len(t)
      /\ \A i \in 1..Len(s) + Len(t) : v[i] = IF i <= Len(s) THEN s[i] ELSE t[i - Len(s)]
  BY ONLY <1>1, ConcatProperties, s \in Seq(S), t \in Seq(S)
<1>7. /\ w \in Seq(S) /\ Len(w) = Len(v) + Len(e)
      /\ \A i \in 1..Len(v) + Len(e) : w[i] = IF i <= Len(v) THEN v[i] ELSE e[i - Len(v)]
  BY ONLY <1>2, <1>3, <1>6, ConcatProperties
<1>8. /\ u \in Seq(S) /\ Len(u) = Len(h) + Len(w)
      /\ \A i \in 1..Len(h) + Len(w) : u[i] = IF i <= Len(h) THEN h[i] ELSE w[i - Len(h)]
  <2>1. h \in Seq(S) /\ w \in Seq(S)
    BY ONLY <1>3, <1>7
  <2>2. /\ h \o w \in Seq(S) /\ Len(h \o w) = Len(h) + Len(w)
        /\ \A i \in 1..Len(h) + Len(w) : (h \o w)[i] = IF i <= Len(h) THEN h[i] ELSE w[i - Len(h)]
    BY ONLY <2>1, ConcatProperties
  <2> QED
    BY ONLY <1>4, <2>2
<1>9. Len(v) = Len(s) + Len(t) /\ Len(w) = Len(v) + 1 /\ Len(u) = 1 + Len(w)
  BY ONLY <1>3, <1>6, <1>7, <1>8
<1>10. DOMAIN u = 1..Len(u)
  BY <1>8
<1>11. u[1] = x
  BY ONLY <1>3, <1>5, <1>8, <1>9
<1>12. u[Len(u)] = y
  <2>1. u[Len(u)] = w[Len(w)] /\ w[Len(w)] = e[1]
    BY ONLY <1>3, <1>5, <1>7, <1>8, <1>9, SMTT(30)
  <2> QED
    BY <1>3, <2>1
<1>13. ASSUME NEW i \in 1..Len(s) PROVE u[i + 1] = s[i]
  <2>1. u[i + 1] = w[i] /\ w[i] = v[i] /\ v[i] = s[i]
    BY ONLY <1>3, <1>5, <1>6, <1>7, <1>8, <1>9, i \in 1..Len(s)
  <2> QED
    BY <2>1
<1>14. ASSUME NEW i \in 1..Len(t) PROVE u[Len(s) + i + 1] = t[i]
  <2>1. /\ u[Len(s) + i + 1] = w[Len(s) + i] /\ w[Len(s) + i] = v[Len(s) + i]
        /\ v[Len(s) + i] = t[i]
    BY ONLY <1>3, <1>5, <1>6, <1>7, <1>8, <1>9, i \in 1..Len(t)
  <2> QED
    BY <2>1
<1> QED
  BY ONLY <1>5, <1>9, <1>10, <1>11, <1>12, <1>13, <1>14

LEMMA OneOrNone ==
  ASSUME NEW S, NEW x \in S, NEW s \in {<<>>, <<x>>}
  PROVE  /\ s \in Seq(S) /\ Len(s) \in {0, 1}
         /\ s # <<>> <=> Len(s) = 1
         /\ Len(s) = 1 => s[1] = x
<1>1. <<>> \in Seq(S) /\ Len(<<>>) = 0 /\ <<x>> \in Seq(S) /\ Len(<<x>>) = 1 /\ <<x>>[1] = x
  OBVIOUS
<1>2. <<x>> # <<>>
  BY <1>1
<1>3. CASE s = <<>>
  BY <1>1, <1>3
<1>4. CASE s = <<x>>
  BY <1>1, <1>2, <1>4
<1> QED
  BY <1>3, <1>4

(* The puts of a revocation: the key is stamped, and revoked (p) if it is  *)
(* one; the feed gets (q) what it does not hold; and there is the receipt. *)
RevokeShape(puts, L, p, q, keys, revocations, body) ==
  /\ L \in 2..4 /\ Len(puts) = L /\ DOMAIN puts = 1..L
  /\ p => L > 2
  /\ q => L > 2
  /\ p /\ q => L = 4
  /\ puts[1].collection = "apikeys" /\ puts[1].value = mem.apikeys
  /\ p => puts[2].collection = "apikeys" /\ puts[2].value = keys
  /\ q => puts[L - 1].collection = "revocations" /\ puts[L - 1].value = revocations
  /\ puts[L].collection = "audit_receipts" /\ puts[L].value = Appended(body)
  /\ \A i \in 1..L : i = 1 \/ i = L \/ (i = 2 /\ p) \/ (i = L - 1 /\ q)

LEMMA RevokeShapes ==
  ASSUME NEW t, NEW ofKey, NEW feed, NEW keys, NEW revocations, NEW body,
         ofKey \in {<<>>, <<Put("apikeys", keys)>>},
         feed \in {<<>>, <<Put("revocations", revocations)>>},
         NEW puts, puts = RevokePuts(t, ofKey \o feed \o <<Record(body)>>)
  PROVE  RevokeShape(puts, Len(puts), ofKey # <<>>, feed # <<>>, keys, revocations, body)
<1>1. PICK x, a, b, r : /\ x = LastUsed /\ a = Put("apikeys", keys)
                        /\ b = Put("revocations", revocations) /\ r = Record(body)
  OBVIOUS
<1>2. /\ x.collection = "apikeys" /\ x.value = mem.apikeys
      /\ a.collection = "apikeys" /\ a.value = keys
      /\ b.collection = "revocations" /\ b.value = revocations
      /\ r.collection = "audit_receipts" /\ r.value = Appended(body)
  BY ONLY <1>1 DEF LastUsed, Put, Record
<1>3. PICK S : S = {x, a, b, r}
  OBVIOUS
<1>4. x \in S /\ a \in S /\ b \in S /\ r \in S
  BY ONLY <1>3
<1>5. puts = <<x>> \o (ofKey \o feed \o <<r>>)
  BY <1>1 DEF RevokePuts
<1>6. ofKey \in {<<>>, <<a>>} /\ feed \in {<<>>, <<b>>}
  BY <1>1
<1>7. /\ ofKey \in Seq(S) /\ Len(ofKey) \in {0, 1}
      /\ ofKey # <<>> <=> Len(ofKey) = 1
      /\ Len(ofKey) = 1 => ofKey[1] = a
  BY ONLY <1>4, <1>6, OneOrNone
<1>8. /\ feed \in Seq(S) /\ Len(feed) \in {0, 1}
      /\ feed # <<>> <=> Len(feed) = 1
      /\ Len(feed) = 1 => feed[1] = b
  BY ONLY <1>4, <1>6, OneOrNone
<1>9. /\ Len(puts) = Len(ofKey) + Len(feed) + 2 /\ DOMAIN puts = 1..Len(puts)
      /\ puts[1] = x /\ puts[Len(puts)] = r
      /\ \A i \in 1..Len(ofKey) : puts[i + 1] = ofKey[i]
      /\ \A i \in 1..Len(feed) : puts[Len(ofKey) + i + 1] = feed[i]
  <2>1. x \in S /\ r \in S /\ ofKey \in Seq(S) /\ feed \in Seq(S)
    BY ONLY <1>4, <1>7, <1>8
  <2> QED
    BY ONLY <1>5, <2>1, Between, SMTT(30)
<1>10. PICK p, q, L : p = (ofKey # <<>>) /\ q = (feed # <<>>) /\ L = Len(puts)
  OBVIOUS
<1>11. /\ p <=> Len(ofKey) = 1
       /\ q <=> Len(feed) = 1
       /\ p \in BOOLEAN /\ q \in BOOLEAN
  BY ONLY <1>7, <1>8, <1>10
<1>12. /\ L \in 2..4 /\ DOMAIN puts = 1..L
       /\ p => L > 2
       /\ q => L > 2
       /\ p /\ q => L = 4
       /\ \A i \in 1..L : i = 1 \/ i = L \/ (i = 2 /\ p) \/ (i = L - 1 /\ q)
  BY ONLY <1>7, <1>8, <1>9, <1>10, <1>11
<1>13. p => puts[2] = a
  BY ONLY <1>7, <1>9, <1>11
<1>14. q => puts[L - 1] = b
  BY ONLY <1>7, <1>8, <1>9, <1>10, <1>11
<1>15. RevokeShape(puts, L, p, q, keys, revocations, body)
  BY ONLY <1>2, <1>9, <1>10, <1>12, <1>13, <1>14 DEF RevokeShape
<1> QED
  BY ONLY <1>10, <1>15

LEMMA RevokeNoOrgs ==
  ASSUME NEW puts, NEW L, NEW p \in BOOLEAN, NEW q \in BOOLEAN, NEW keys, NEW revocations, NEW body,
         RevokeShape(puts, L, p, q, keys, revocations, body)
  PROVE  NoOrgs(puts)
BY DEF RevokeShape, NoOrgs

(* However far a revocation gets.                                          *)
LEMMA RevokeMade ==
  ASSUME IInv, NEW puts, NEW L, NEW p \in BOOLEAN, NEW q \in BOOLEAN,
         NEW keys, NEW revocations, NEW body,
         RevokeShape(puts, L, p, q, keys, revocations, body),
         NEW n, Made(puts, n)
  PROVE  /\ mem'.policies = mem.policies /\ mem'.audit_checkpoints = mem.audit_checkpoints
         /\ mem'.apikeys = mem.apikeys \/ (p /\ mem'.apikeys = keys)
         /\ mem'.revocations = mem.revocations \/ (q /\ mem'.revocations = revocations)
         /\ mem'.audit_receipts \in {mem.audit_receipts, Appended(body)}
         /\ n = L => /\ p => mem'.apikeys = keys
                     /\ q => mem'.revocations = revocations
                     /\ mem'.audit_receipts = Appended(body)
<1>1. L \in 2..4 /\ Len(puts) = L /\ NoOrgs(puts) /\ n \in 0..L
  BY RevokeNoOrgs DEF RevokeShape, Made
<1>2. \A c \in {"policies", "audit_checkpoints"} : mem'[c] = mem[c]
  <2>1. \A i \in 1..Len(puts) : puts[i].collection \notin {"policies", "audit_checkpoints"}
    BY DEF RevokeShape
  <2> QED
    BY <1>1, <2>1, MadeNever DEF Collections
<1>3. mem'["audit_receipts"] = IF L <= n THEN Appended(body) ELSE mem["audit_receipts"]
  <2>1. /\ L \in 1..Len(puts) /\ puts[L].collection = "audit_receipts"
        /\ puts[L].value = Appended(body)
        /\ \A j \in 1..Len(puts) : j # L => puts[j].collection # "audit_receipts"
    BY <1>1, SMTT(30) DEF RevokeShape
  <2>2. mem'["audit_receipts"] = IF L <= n THEN puts[L].value ELSE mem["audit_receipts"]
    BY <1>1, <2>1, MadeOnce DEF Collections
  <2> QED
    BY <2>1, <2>2
<1>4. mem'["apikeys"] = IF p /\ 2 <= n THEN keys ELSE mem["apikeys"]
  <2>1. CASE p
    <3>1. /\ 1 \in 1..Len(puts) /\ 2 \in 1..Len(puts) /\ 1 < 2
          /\ puts[1].collection = "apikeys" /\ puts[1].value = mem["apikeys"]
          /\ puts[2].collection = "apikeys" /\ puts[2].value = keys
          /\ \A j \in 1..Len(puts) : j \notin {1, 2} => puts[j].collection # "apikeys"
      BY <1>1, <2>1 DEF RevokeShape
    <3>2. mem'["apikeys"] = IF 2 <= n THEN puts[2].value
                            ELSE IF 1 <= n THEN puts[1].value ELSE mem["apikeys"]
      BY <1>1, <3>1, MadeTwice DEF Collections
    <3> QED
      BY <2>1, <3>1, <3>2
  <2>2. CASE ~p
    <3>1. /\ 1 \in 1..Len(puts)
          /\ puts[1].collection = "apikeys" /\ puts[1].value = mem["apikeys"]
          /\ \A j \in 1..Len(puts) : j # 1 => puts[j].collection # "apikeys"
      BY <1>1, <2>2 DEF RevokeShape
    <3>2. mem'["apikeys"] = IF 1 <= n THEN puts[1].value ELSE mem["apikeys"]
      BY <1>1, <3>1, MadeOnce DEF Collections
    <3> QED
      BY <2>2, <3>1, <3>2
  <2> QED
    BY <2>1, <2>2
<1>5. mem'["revocations"] = IF q /\ L - 1 <= n THEN revocations ELSE mem["revocations"]
  <2>1. CASE q
    <3>1. /\ L - 1 \in 1..Len(puts)
          /\ puts[L - 1].collection = "revocations" /\ puts[L - 1].value = revocations
          /\ \A j \in 1..Len(puts) : j # L - 1 => puts[j].collection # "revocations"
      BY <1>1, <2>1 DEF RevokeShape
    <3>2. mem'["revocations"] = IF L - 1 <= n THEN puts[L - 1].value ELSE mem["revocations"]
      BY <1>1, <3>1, MadeOnce DEF Collections
    <3> QED
      BY <2>1, <3>1, <3>2
  <2>2. CASE ~q
    <3>1. \A j \in 1..Len(puts) : puts[j].collection # "revocations"
      BY <1>1, <2>2 DEF RevokeShape
    <3> QED
      BY <1>1, <2>2, <3>1, MadeNever DEF Collections
  <2> QED
    BY <2>1, <2>2
<1> QED
  BY <1>1, <1>2, <1>3, <1>4, <1>5


LEMMA RevokeIInv ==
  ASSUME IInv, NEW k \in Keys, NEW t \in Keys \cup Targets, Revoke(k, t)
  PROVE  IInv' /\ Grows
<1>1. PICK known : known = {r \in mem.revocations : r.target = t}
  OBVIOUS
<1>2. PICK rec : rec = IF known # {} THEN CHOOSE r \in known : TRUE
                       ELSE [target |-> t, seq |-> CurrentSeq + 1]
  OBVIOUS
<1>3. PICK body, keys, feedNow :
        /\ body = <<"revoke", t, rec.seq>> /\ keys = Revoked(mem.apikeys, t)
        /\ feedNow = mem.revocations \cup {rec}
  OBVIOUS
<1>4. PICK ofKey, feed :
        /\ ofKey = IF t \in Keys THEN <<Put("apikeys", keys)>> ELSE <<>>
        /\ feed = IF known # {} THEN <<>> ELSE <<Put("revocations", feedNow)>>
  OBVIOUS
<1>5. PICK puts : puts = RevokePuts(t, ofKey \o feed \o <<Record(body)>>)
  OBVIOUS
<1>6. /\ Admin(k) /\ Room
      /\ t \in Keys => mem.apikeys[t] # Nothing
      /\ \/ /\ Saved(puts) /\ Ack(body)
            /\ revSeq' = IF known # {} THEN revSeq ELSE rec.seq
            /\ UNCHANGED <<waiting, signing>>
         \/ /\ weak = "disk" /\ faults < MaxFaults /\ faults' = faults + 1
            /\ \E n \in DOMAIN puts :
                 /\ mem' = Written(mem, puts, n) /\ file' = Written(file, puts, n - 1)
                 /\ revSeq' = IF known = {} /\ mem'.revocations # mem.revocations
                              THEN rec.seq ELSE revSeq
            /\ UNCHANGED <<weak, waiting, signing, clients>>
         \/ weak = "process" /\ Dies(puts)
  BY ONLY Revoke(k, t), <1>1, <1>2, <1>3, <1>4, <1>5, ZenonT(60) DEF Revoke
<1>7. mem.orgs = 1
  BY <1>6, LiveNeedsOrg
<1>8. PICK p, q, L : p = (ofKey # <<>>) /\ q = (feed # <<>>) /\ L = Len(puts)
  OBVIOUS
<1>9. p \in BOOLEAN /\ q \in BOOLEAN /\ (p <=> t \in Keys) /\ (q <=> known = {})
  <2>1. <<Put("apikeys", keys)>> # <<>> /\ <<Put("revocations", feedNow)>> # <<>>
    OBVIOUS
  <2> QED
    BY ONLY <1>4, <1>8, <2>1
<1>10. RevokeShape(puts, L, p, q, keys, feedNow, body)
  <2>1. ofKey \in {<<>>, <<Put("apikeys", keys)>>} /\ feed \in {<<>>, <<Put("revocations", feedNow)>>}
    BY ONLY <1>4
  <2> QED
    BY ONLY <1>5, <1>8, <2>1, RevokeShapes, SMTT(30)
<1>11. NoOrgs(puts)
  BY ONLY <1>9, <1>10, RevokeNoOrgs
<1>12. PICK n : Made(puts, n) /\ (Saved(puts) => n = L)
  BY <1>6, <1>7, <1>8, <1>11, Ends
<1>13. /\ mem'.policies = mem.policies /\ mem'.audit_checkpoints = mem.audit_checkpoints
       /\ mem'.apikeys = mem.apikeys \/ (p /\ mem'.apikeys = keys)
       /\ mem'.revocations = mem.revocations \/ (q /\ mem'.revocations = feedNow)
       /\ mem'.audit_receipts \in {mem.audit_receipts, Appended(body)}
       /\ n = L => /\ p => mem'.apikeys = keys
                   /\ q => mem'.revocations = feedNow
                   /\ mem'.audit_receipts = Appended(body)
  BY ONLY IInv, <1>9, <1>10, <1>12, RevokeMade
<1>14. /\ UNCHANGED <<cursor, delivered>>
       /\ \A s \in Signings : signing'[s] \in {signing[s], Nothing}
       /\ DOMAIN signing' = Signings /\ waiting' \subseteq Keys
       /\ acked' = acked \/ (acked' = acked \cup {Receipt(body)} /\ n = L)
  BY <1>6, <1>12, DiesLeaves DEF Ack, clients, IInv, TypeOK
(* The record is in the feed already, or its number is above all others.   *)
<1>15. rec \in [target : Keys \cup Targets, seq : Nat] /\ rec.target = t
  <2>1. mem.revocations \subseteq [target : Keys \cup Targets, seq : Nat] /\ CurrentSeq \in Nat
    BY CurrentSeqIsHead DEF IInv, TypeOK
  <2>2. CASE known # {}
    <3>1. rec \in known
      BY <1>2, <2>2
    <3> QED
      BY <1>1, <2>1, <3>1
  <2>3. CASE known = {}
    BY <1>2, <2>1, <2>3
  <2> QED
    BY <2>2, <2>3
<1>16. known # {} => rec \in mem.revocations
  BY <1>1, <1>2
<1>17. known = {} => rec.seq = CurrentSeq + 1 /\ rec \notin mem.revocations
  BY <1>1, <1>2, <1>15
<1>18. /\ mem'.apikeys \in [Keys -> KeyRecords \cup {Nothing}]
       /\ \A j \in Keys : Dead(j) => Dead(j)'
       /\ n = L /\ t \in Keys => Dead(t)'
  <2>1. mem.apikeys \in [Keys -> KeyRecords \cup {Nothing}]
    BY DEF IInv, TypeOK
  <2>2. t \in Keys =>
          /\ keys \in [Keys -> KeyRecords \cup {Nothing}]
          /\ keys[t] # Nothing /\ keys[t].revoked
          /\ \A j \in Keys \ {t} : keys[j] = mem.apikeys[j]
    BY <1>3, <1>6, <2>1, RevokedFacts
  <2>3. mem'.apikeys = mem.apikeys \/ (t \in Keys /\ mem'.apikeys = keys)
    BY <1>9, <1>13
  <2>4. ASSUME NEW j \in Keys, Dead(j) PROVE Dead(j)'
    <3>1. CASE mem'.apikeys[j] = mem.apikeys[j]
      BY <2>4, <3>1 DEF Dead
    <3>2. CASE t = j /\ mem'.apikeys = keys
      BY <2>2, <3>2 DEF Dead
    <3> QED
      BY <2>2, <2>3, <3>1, <3>2
  <2>5. n = L /\ t \in Keys => Dead(t)'
    BY <1>9, <1>13, <2>2 DEF Dead
  <2>6. mem'.apikeys \in [Keys -> KeyRecords \cup {Nothing}]
    BY <2>1, <2>2, <2>3
  <2> QED
    BY <2>4, <2>5, <2>6
<1>19. mem'.revocations = mem.revocations \/ (known = {} /\ mem'.revocations = feedNow)
  BY <1>9, <1>13
<1>20. /\ mem.revocations \subseteq mem'.revocations
       /\ mem'.revocations \subseteq [target : Keys \cup Targets, seq : Nat]
       /\ n = L => rec \in mem'.revocations
  <2>1. feedNow = mem.revocations \cup {rec}
    BY <1>3
  <2> QED
    BY <1>9, <1>13, <1>15, <1>16, <1>19, <2>1 DEF IInv, TypeOK
<1>21. ASSUME NEW r \in acked', r \notin acked PROVE StillDone(r)'
  <2>1. r = Receipt(body) /\ n = L
    BY <1>14, <1>21
  <2>2. mem'.audit_receipts = Appended(body)
    BY <1>13, <2>1
  <2>3. r \in ToSet(mem'.audit_receipts) /\ r.body = body
    BY <2>1, <2>2, RecordedIs
  <2>4. body[2] = t /\ body[3] = rec.seq
    BY <1>3
  <2>5. [target |-> t, seq |-> rec.seq] = rec
    BY <1>15
  <2>6. [target |-> r.body[2], seq |-> r.body[3]] \in mem'.revocations
    BY <1>20, <2>1, <2>3, <2>4, <2>5
  <2>7. r.body[2] \in Keys => Dead(r.body[2])'
    <3>1. t \in Keys => Dead(t)'
      BY <1>18, <2>1
    <3> QED
      BY <2>3, <2>4, <3>1 DEF Dead
  <2> QED
    BY <2>3, <2>6, <2>7 DEF StillDone
<1>22. \/ mem'.audit_receipts = mem.audit_receipts
       \/ mem'.audit_receipts = Appended(body) /\ body[1] # "policy.update"
  BY <1>3, <1>13
<1>23. Grows
  BY <1>13, <1>14, <1>18, <1>20, <1>21, <1>22 DEF Grows, IInv, TypeOK
<1>24. FeedFits'
  <2>1. CASE mem'.revocations = mem.revocations
    <3>1. known = {} => ~Saved(puts)
      <4>1. known = {} /\ Saved(puts) => mem'.revocations = feedNow
        BY <1>9, <1>12, <1>13
      <4> QED
        BY <1>3, <1>17, <2>1, <4>1
    <3>2. revSeq' \in {revSeq, Nothing}
      BY <1>6, <2>1, <3>1, DiesLeaves
    <3> QED
      BY <1>14, <2>1, <3>2, FeedKept
  <2>2. CASE known = {} /\ mem'.revocations = feedNow
    <3>1. revSeq' \in {rec.seq, Nothing}
      <4>1. mem'.revocations # mem.revocations
        BY <1>3, <1>17, <2>2
      <4> QED
        BY <1>6, <2>2, <4>1, DiesLeaves
    <3>2. PICK head : head = CurrentSeq
      OBVIOUS
    <3>3. head \in Nat /\ IsHead(head) /\ cursor <= head /\ cursor \in Nat
      BY <3>2, CurrentSeqIsHead DEF IInv, TypeOK
    <3>4. rec.seq = head + 1
      BY <1>17, <2>2, <3>2
    <3>5. \A r \in mem'.revocations : r \in mem.revocations \/ r = rec
      BY <1>3, <2>2
    <3>6. \A r \in mem.revocations : r.seq \in Nat /\ r.seq <= head
      BY <3>3 DEF IsHead, Numbers, IInv, TypeOK
    <3>7. \A m \in Numbers' : m <= rec.seq
      BY <3>3, <3>4, <3>5, <3>6 DEF Numbers
    <3>8. rec.seq \in Numbers'
      BY <1>3, <2>2 DEF Numbers
    <3>9. FollowerMissesNothing'
      BY <1>14, <3>3, <3>4, <3>5 DEF FollowerMissesNothing, IInv, FeedFits
    <3>10. PICK m : m = rec.seq
      OBVIOUS
    <3>11. IsHead(m)'
      BY <3>7, <3>10 DEF IsHead
    <3>12. m \in {0} \cup Numbers' /\ cursor' <= m /\ revSeq' \in {m, Nothing}
      BY <1>14, <3>1, <3>3, <3>4, <3>8, <3>10
    <3> QED
      BY <3>9, <3>11, <3>12 DEF FeedFits
  <2> QED
    BY <1>19, <2>1, <2>2
<1>25. mem'.policies \in Nat /\ IsSeq(mem'.audit_checkpoints) /\ cursor' \in Nat
  BY <1>13, <1>14 DEF IInv, TypeOK
<1> QED
  BY <1>7, <1>11, <1>12, <1>14, <1>18, <1>20, <1>23, <1>24, <1>25, StepIInv


LEMMA CreateOrgIInv ==
  ASSUME IInv, NEW k \in Keys, CreateOrg(k)
  PROVE  IInv' /\ Grows
<1>1. PICK body, keys : body = <<"org.create">> /\ keys = [mem.apikeys EXCEPT ![k] = NewKey("admin")]
  OBVIOUS
<1>2. PICK consumed \in BOOLEAN :
        LET puts == <<NewOrg, SeedPolicies, Put("apikeys", keys), Put("boot", ~consumed),
                      Record(body)>>
        IN \/ Saved(puts) /\ Ack(body) /\ UNCHANGED process
           \/ Dies(puts)
  BY <1>1 DEF CreateOrg
<1>3. PICK puts : puts = <<NewOrg, SeedPolicies, Put("apikeys", keys), Put("boot", ~consumed),
                           Record(body)>>
  OBVIOUS
<1>4. (Saved(puts) /\ Ack(body) /\ UNCHANGED process) \/ Dies(puts)
  BY <1>2, <1>3
<1>5. /\ mem.orgs = 0 /\ file = mem /\ mem.policies = 0
      /\ \A j \in Keys : mem.apikeys[j] = Nothing
      /\ waiting = {} /\ \A s \in Signings : signing[s] = Nothing
      /\ DOMAIN mem = Collections /\ DOMAIN signing = Signings
      /\ mem.apikeys \in [Keys -> KeyRecords \cup {Nothing}]
  BY DEF CreateOrg, checkBootstrap, IInv, TypeOK, StoreFits
<1>6. /\ Len(puts) = 5 /\ puts[1].collection = "orgs" /\ puts[1].value = 1
      /\ puts[2].collection = "policies" /\ puts[2].value = 1
      /\ puts[3].collection = "apikeys" /\ puts[3].value = keys
      /\ puts[4].collection = "boot"
      /\ puts[5].collection = "audit_receipts" /\ puts[5].value = Appended(body)
  BY <1>3, <1>5 DEF NewOrg, SeedPolicies, Put, Record
<1>7. PICK n \in 0..5 : /\ mem' = Written(mem, puts, n) /\ file' = mem'
                        /\ acked' # acked => n = 5 /\ acked' = acked \cup {Receipt(body)}
  <2>1. CASE Saved(puts) /\ Ack(body) /\ UNCHANGED process
    <3>1. mem' = Written(mem, puts, 5) /\ file' = mem' /\ acked' = acked \cup {Receipt(body)}
      BY <1>5, <1>6, <2>1 DEF Saved, Ack
    <3>2. 5 \in 0..5
      OBVIOUS
    <3> QED
      BY <3>1, <3>2
  <2>2. CASE Dies(puts)
    BY <1>5, <1>6, <2>2 DEF Dies, clients
  <2> QED
    BY <1>4, <2>1, <2>2
<1>8. \A i \in 1..5 : i = 1 \/ i = 2 \/ i = 3 \/ i = 4 \/ i = 5
  OBVIOUS
<1>9. /\ \A i \in 1..5 : i # 1 => puts[i].collection # "orgs"
      /\ \A i \in 1..5 : i # 2 => puts[i].collection # "policies"
      /\ \A i \in 1..5 : i # 3 => puts[i].collection # "apikeys"
      /\ \A i \in 1..5 : i # 5 => puts[i].collection # "audit_receipts"
      /\ \A i \in 1..5 : puts[i].collection \notin {"revocations", "audit_checkpoints"}
  BY ONLY <1>6, <1>8
<1>10. {1, 2, 3, 5} \subseteq 1..5 /\ 5 \in Nat /\ n \in Nat /\ n \in 0..5
       /\ \A i \in 1..n : i \in 1..5
  OBVIOUS
<1>11. {"orgs", "policies", "apikeys", "audit_receipts", "revocations", "audit_checkpoints"}
         \subseteq DOMAIN mem
  BY <1>5 DEF Collections
<1> DEFINE Once(c, i) == /\ c \in DOMAIN mem /\ i \in 1..5 /\ puts[i].collection = c
                         /\ \A j \in 1..5 : j # i => puts[j].collection # c
<1>12. ASSUME NEW c, NEW i, Once(c, i)
       PROVE  mem'[c] = IF i <= n THEN puts[i].value ELSE mem[c]
  <2>1. /\ c \in DOMAIN mem /\ i \in 1..5 /\ puts[i].collection = c
        /\ \A j \in 1..5 : j # i => puts[j].collection # c
    BY <1>12
  <2>2. Written(mem, puts, n)[c] = IF i <= n THEN puts[i].value ELSE mem[c]
    <3>1. 5 \in Nat /\ n \in 0..5
      OBVIOUS
    <3> QED
      BY ONLY <2>1, <3>1, WrittenOnce, ZenonT(60)
  <2> QED
    BY <1>7, <2>2
<1>13. Once("orgs", 1) /\ Once("policies", 2) /\ Once("apikeys", 3) /\ Once("audit_receipts", 5)
  <2>1. 1 \in 1..5 /\ 2 \in 1..5 /\ 3 \in 1..5 /\ 5 \in 1..5
    OBVIOUS
  <2> QED
    BY ONLY <1>6, <1>9, <1>11, <2>1
<1> HIDE DEF Once
<1>14. mem'["orgs"] = IF 1 <= n THEN 1 ELSE mem["orgs"]
  BY ONLY <1>6, <1>12, <1>13
<1>15. mem'["policies"] = IF 2 <= n THEN 1 ELSE mem["policies"]
  BY ONLY <1>6, <1>12, <1>13
<1>16. mem'["apikeys"] = IF 3 <= n THEN keys ELSE mem["apikeys"]
  BY ONLY <1>6, <1>12, <1>13
<1>17. mem'["audit_receipts"] = IF 5 <= n THEN Appended(body) ELSE mem["audit_receipts"]
  BY ONLY <1>6, <1>12, <1>13
<1>18. \A c \in {"revocations", "audit_checkpoints"} : mem'[c] = mem[c]
  BY ONLY <1>7, <1>9, <1>10, <1>11, WrittenNever
<1>19. mem'.revocations = mem.revocations /\ mem'.audit_checkpoints = mem.audit_checkpoints
  BY <1>18
<1>20. /\ revSeq' \in {revSeq, Nothing} /\ UNCHANGED <<weak, cursor, delivered>>
       /\ waiting' = {} /\ DOMAIN signing' = Signings /\ \A s \in Signings : signing'[s] = Nothing
  BY <1>4, <1>5, DiesLeaves DEF Saved, Ack, process
<1>21. /\ keys \in [Keys -> KeyRecords \cup {Nothing}]
       /\ \A j \in Keys : ~Dead(j)
  <2>1. NewKey("admin") \in KeyRecords
    BY NewKeyFacts, AdministrationAssumption
  <2> QED
    BY <1>1, <1>5, <2>1 DEF Dead
<1>22. ASSUME NEW r \in acked', r \notin acked PROVE StillDone(r)'
  <2>1. r = Receipt(body) /\ n = 5
    BY <1>7, <1>22
  <2>2. mem'.audit_receipts = Appended(body)
    BY <1>17, <2>1
  <2>3. r \in ToSet(mem'.audit_receipts) /\ r.body = body
    BY <2>1, <2>2, RecordedIs
  <2>4. r.body[1] = "org.create"
    BY <1>1, <2>3
  <2> QED
    BY <2>3, <2>4 DEF StillDone
<1>23. mem'.policies \in {0, 1}
  BY <1>5, <1>15
<1>24. Grows
  <2>1. \/ mem'.audit_receipts = mem.audit_receipts
        \/ mem'.audit_receipts = Appended(body) /\ body[1] # "policy.update"
    BY <1>1, <1>17
  <2> QED
    BY <1>5, <1>19, <1>20, <1>21, <1>22, <1>23, <2>1 DEF Grows
<1>25. DOMAIN mem' = Collections
  BY <1>5, <1>7 DEF Written
<1>26. StoreFits'
  <2>1. mem'.orgs = 0 => n = 0
    BY <1>10, <1>14
  <2>2. n = 0 => mem'.policies = 0 /\ mem'.apikeys = mem.apikeys
    BY <1>5, <1>15, <1>16
  <2>3. mem'.orgs \in {0, 1}
    BY <1>5, <1>14
  <2> QED
    BY <1>5, <1>7, <1>20, <2>1, <2>2, <2>3 DEF StoreFits
<1>27. TypeOK'
  <2>1. IsSeq(mem'.audit_receipts)
    BY <1>24, ReceiptsGrow DEF IInv
  <2>2. mem'.apikeys \in [Keys -> KeyRecords \cup {Nothing}]
    BY <1>5, <1>16, <1>21
  <2> QED
    BY <1>7, <1>19, <1>20, <1>23, <1>25, <2>1, <2>2 DEF TypeOK, IInv, IsSeq
<1>28. FeedFits'
  BY <1>19, <1>20, FeedKept
<1> QED
  BY <1>24, <1>26, <1>27, <1>28, GrowsIInv

-----------------------------------------------------------------------------
(* The specification.                                                      *)

LEMMA InitIInv == Init => IInv
<1> SUFFICES ASSUME Init PROVE IInv
  OBVIOUS
<1>1. /\ mem = file /\ file.orgs = 0 /\ file.policies = 0 /\ file.revocations = {}
      /\ file.audit_receipts = <<>> /\ file.audit_checkpoints = <<>>
      /\ file.apikeys = [k \in Keys |-> Nothing] /\ DOMAIN file = Collections
      /\ weak \in {"process", "disk"} /\ revSeq = Nothing /\ waiting = {}
      /\ signing = [s \in Signings |-> Nothing] /\ cursor = 0 /\ acked = {}
  BY DEF Init, Collections
<1>2. ToSet(<<>>) = {} /\ IsSeq(<<>>) /\ Len(<<>>) = 0 /\ DOMAIN <<>> = {}
  BY DEF ToSet, IsSeq
<1>3. TypeOK
  BY <1>1, <1>2 DEF TypeOK, KeyRecords
<1>4. StoreFits
  BY <1>1 DEF StoreFits
<1>5. FeedFits
  <2>1. Numbers = {}
    BY <1>1 DEF Numbers
  <2> QED
    BY <1>1, <2>1 DEF FeedFits, IsHead, FollowerMissesNothing
<1>6. ChainFits
  BY <1>1, <1>2 DEF ChainFits, Verified, VersionsFit
<1> QED
  BY <1>1, <1>3, <1>4, <1>5, <1>6 DEF IInv

LEMMA StutterIInv == IInv /\ UNCHANGED vars => IInv' /\ Grows
<1> SUFFICES ASSUME IInv, UNCHANGED vars PROVE IInv' /\ Grows
  OBVIOUS
<1> USE DEF vars
<1>1. TypeOK' /\ StoreFits'
  BY DEF IInv, TypeOK, StoreFits
<1>2. FeedFits'
  BY FeedKept
<1>3. Grows
  BY DEF Grows, Dead, IInv, TypeOK
<1> QED
  BY <1>1, <1>2, <1>3, GrowsIInv

LEMMA NextIInv == IInv /\ [Next]_vars => IInv' /\ Grows
<1> SUFFICES ASSUME IInv, [Next]_vars PROVE IInv' /\ Grows
  OBVIOUS
<1>1. CASE UNCHANGED vars
  BY <1>1, StutterIInv
<1>2. ASSUME NEW k \in Keys, CreateOrg(k) PROVE IInv' /\ Grows
  BY <1>2, CreateOrgIInv
<1>3. ASSUME NEW k \in Keys, Admit(k) PROVE IInv' /\ Grows
  BY <1>3, AdmitIInv
<1>4. ASSUME NEW k \in Keys, Poll(k) PROVE IInv' /\ Grows
  BY <1>4, PollIInv
<1>5. ASSUME NEW k \in Keys, UpdatePolicy(k) PROVE IInv' /\ Grows
  BY <1>5, UpdatePolicyIInv
<1>6. ASSUME NEW k \in Keys, NEW new \in Keys, NEW held \in Roles, MintKey(k, new, held) PROVE IInv' /\ Grows
  BY <1>6, MintKeyIInv
<1>7. ASSUME NEW k \in Keys, NEW new \in Keys, NEW old \in Keys, RotateKey(k, old, new) PROVE IInv' /\ Grows
  BY <1>7, RotateKeyIInv
<1>8. ASSUME NEW k \in Keys, NEW t \in Keys \cup Targets, Revoke(k, t) PROVE IInv' /\ Grows
  BY <1>8, RevokeIInv
<1>9. ASSUME NEW k \in Keys, NEW s \in Signings, StartCheckpoint(s, k) PROVE IInv' /\ Grows
  BY <1>9, StartCheckpointIInv
<1>10. ASSUME NEW s \in Signings, EndCheckpoint(s) PROVE IInv' /\ Grows
  BY <1>10, EndCheckpointIInv
<1> QED
  BY <1>1, <1>2, <1>3, <1>4, <1>5, <1>6, <1>7, <1>8, <1>9, <1>10, Zenon DEF Next

(* The invariant holds, whichever puts a crash or a full disk cuts short.  *)
THEOREM Inductive == Spec => []IInv
BY InitIInv, NextIInv, PTL DEF Spec

(* The bootstrap token makes one organization, in memory and in the file.  *)
THEOREM TokenMakesOne == Spec => []OneOrganization
<1>1. IInv => OneOrganization
  BY DEF IInv, StoreFits, OneOrganization
<1> QED
  BY <1>1, Inductive, PTL

(* A key whose revocation or rotation was answered is never let in again.  *)
THEOREM RevokedKeysStayOut == Spec => []DeadKeysStayDead
<1>1. ASSUME IInv PROVE DeadKeysStayDead
  <2> SUFFICES ASSUME NEW k \in Keys, NEW r \in acked,
                      r.body[1] \in {"apikey.rotate", "revoke"}, r.body[2] = k
               PROVE  ~Live(k)
    BY DEF DeadKeysStayDead
  <2>1. StillDone(r)
    BY <1>1 DEF IInv
  <2> QED
    BY <2>1 DEF StillDone, Dead, Live
<1> QED
  BY <1>1, Inductive, PTL

(* A follower of the feed has every revocation up to the head it was told, *)
(* across restarts of the gateway that numbers them.                       *)
THEOREM FeedIsGapless == Spec => []FollowerMissesNothing
<1>1. IInv => FollowerMissesNothing
  BY DEF IInv, FeedFits
<1> QED
  BY <1>1, Inductive, PTL

(* Every checkpoint names a receipt that is still where it was, though     *)
(* others were appended while the signer was awaited.                      *)
THEOREM CheckpointsHold == Spec => []CheckpointsAttest
<1>1. ASSUME IInv PROVE CheckpointsAttest
  <2>1. Len(mem.audit_receipts) \in Nat
    BY <1>1, SeqFacts DEF IInv, TypeOK
  <2> QED
    BY <1>1, <2>1 DEF IInv, ChainFits, Attests, CheckpointsAttest
<1> QED
  BY <1>1, Inductive, PTL

(* What was answered is in the chain for good, a revocation under its own  *)
(* number in the feed, and no version of a policy is recorded twice.       *)
THEOREM AnswersAreRecorded == Spec => []AckedIsRecorded
<1>1. ASSUME IInv PROVE AckedIsRecorded
  <2>1. \A r \in acked : StillDone(r)
    BY <1>1 DEF IInv
  <2>2. VersionsFit
    BY <1>1 DEF IInv, ChainFits
  <2> QED
    BY <2>1, <2>2 DEF AckedIsRecorded, StillDone, VersionsFit
<1> QED
  BY <1>1, Inductive, PTL

(* No step takes back what clients were shown, for any number of keys and  *)
(* requests: every handler leaves the chain, the feed, the policies and    *)
(* the revoked keys as they were or with more in them, whichever of its    *)
(* puts a crash or a full disk cuts short.                                 *)
THEOREM NothingIsTakenBack == Spec => HistoryOnlyGrows
<1>1. ASSUME IInv, [Next]_vars PROVE [KeepsHistory]_vars
  <2>1. Grows
    BY <1>1, NextIInv
  <2>2. IsPrefix(mem.audit_receipts, mem'.audit_receipts)
    <3>1. PICK s, t : s = mem.audit_receipts /\ t = mem'.audit_receipts
      OBVIOUS
    <3>2. /\ Len(s) \in Nat /\ Len(t) \in Nat /\ Len(s) <= Len(t)
          /\ DOMAIN s = 1..Len(s) /\ DOMAIN t = 1..Len(t)
          /\ \A i \in 1..Len(s) : t[i] = s[i]
      BY <1>1, <2>1, <3>1, ReceiptsGrow DEF IInv
    <3>3. IsSeq(s) /\ IsSeq(t)
      BY <1>1, <2>1, <3>1, ReceiptsGrow DEF IInv, TypeOK
    <3>4. SubSeq(s, 1, Len(s)) = SubSeq(t, 1, Len(s))
      BY <3>2, <3>3 DEF IsSeq
    <3> QED
      BY <3>1, <3>2, <3>4 DEF IsPrefix
  <2> QED
    BY <2>1, <2>2 DEF Grows, Dead, KeepsHistory
<1> QED
  BY <1>1, Inductive, PTL DEF Spec, HistoryOnlyGrows

-----------------------------------------------------------------------------
(* Callers of an OIDC provider: the checks of a token, and its role.       *)

(* A token that names one application, or a party it is for, lets its      *)
(* caller into one application of the provider (oidc.js verifyJwt).        *)
THEOREM TokenIsForOne ==
  ASSUME NEW v, NEW w, NEW S, NEW tokens, \A t \in tokens : t.aud \in Seq(S), NEW now
  PROVE  OneAudience(v, w, tokens, now)
<1> SUFFICES ASSUME v.audience # w.audience, NEW t \in tokens,
                    verifyJwt(v, t, Missing, now), verifyJwt(w, t, Missing, now)
             PROVE  FALSE
  BY DEF OneAudience
<1>1. /\ v.audience \in ToSet(t.aud) /\ (Len(t.aud) > 1 => t.azp = v.audience)
      /\ w.audience \in ToSet(t.aud) /\ (Len(t.aud) > 1 => t.azp = w.audience)
  BY DEF verifyJwt
<1>2. Len(t.aud) \in Nat /\ DOMAIN t.aud = 1..Len(t.aud)
  OBVIOUS
<1>3. PICK i, j \in 1..Len(t.aud) : v.audience = t.aud[i] /\ w.audience = t.aud[j]
  BY <1>1, <1>2 DEF ToSet
<1>4. i # j
  BY <1>3
<1>5. Len(t.aud) > 1
  BY <1>2, <1>4
<1> QED
  BY <1>1, <1>5

(* What comes first of a list, when nothing before it passes.              *)
LEMMA FirstOf ==
  ASSUME NEW n \in Nat, NEW I \in SUBSET (1..n), NEW k \in I, \A y \in I : k <= y,
         NEW m, m = IF I # {} THEN CHOOSE x \in I : \A y \in I : x <= y ELSE 0
  PROVE  m = k
<1>1. m \in I /\ \A y \in I : m <= y
  <2>1. m = CHOOSE x \in I : \A y \in I : x <= y
    OBVIOUS
  <2> QED
    BY ONLY <2>1, k \in I, \A y \in I : k <= y
<1>2. m \in Int /\ k \in Int
  BY ONLY <1>1, k \in I, I \in SUBSET (1..n), n \in Nat
<1>3. m <= k /\ k <= m
  BY ONLY <1>1, k \in I, \A y \in I : k <= y
<1> QED
  BY ONLY <1>2, <1>3

LEMMA RankIs ==
  /\ Rank("reporter") = 1 /\ Rank("executor") = 2 /\ Rank("approver") = 3 /\ Rank("admin") = 4
<1>1. ASSUME NEW k \in 1..4 PROVE Rank(Ranks[k]) = k
  <2>1. Len(Ranks) = 4
    BY DEF Ranks
  <2>2. PICK I : I = {i \in 1..4 : Ranks[i] = Ranks[k]}
    OBVIOUS
  <2>3. I = {k}
    BY <2>2 DEF Ranks
  <2>4. Rank(Ranks[k]) = IF I # {} THEN CHOOSE x \in I : \A y \in I : x <= y ELSE 0
    BY <2>1, <2>2 DEF Rank, SelectInSeq, Min
  <2>5. I \in SUBSET (1..4) /\ k \in I /\ \A y \in I : k <= y
    BY <2>3
  <2> QED
    BY ONLY <2>4, <2>5, FirstOf, 4 \in Nat
<1> QED
  BY <1>1 DEF Ranks

LEMMA DefaultRoleIs ==
  ASSUME NEW roles
  PROVE  role(DefaultRoleMap, "reporter", roles) =
           IF {"admin", "owner"} \cap roles # {} THEN "admin"
           ELSE IF {"approver"} \cap roles # {} THEN "approver"
           ELSE IF {"executor"} \cap roles # {} THEN "executor" ELSE "reporter"
<1>1. PICK i : i = SelectInSeq(DefaultRoleMap, LAMBDA entry : entry.accepted \cap roles # {})
  OBVIOUS
<1>2. PICK I : I = {k \in 1..4 : DefaultRoleMap[k].accepted \cap roles # {}}
  OBVIOUS
<1>3. Len(DefaultRoleMap) = 4
  BY DEF DefaultRoleMap
<1>4. i = IF I # {} THEN CHOOSE x \in I : \A y \in I : x <= y ELSE 0
  BY <1>1, <1>2, <1>3 DEF SelectInSeq, Min
<1>5. role(DefaultRoleMap, "reporter", roles) = IF i = 0 THEN "reporter" ELSE DefaultRoleMap[i].role
  BY <1>1 DEF role
<1>6. /\ 1 \in I <=> {"admin", "owner"} \cap roles # {}
      /\ 2 \in I <=> {"approver"} \cap roles # {}
      /\ 3 \in I <=> {"executor"} \cap roles # {}
      /\ I \in SUBSET (1..4)
  BY <1>2 DEF DefaultRoleMap
<1>7. ASSUME NEW k \in I, \A y \in I : k <= y PROVE i = k
  BY ONLY <1>4, <1>6, <1>7, FirstOf, 4 \in Nat
<1>8. /\ DefaultRoleMap[1].role = "admin" /\ DefaultRoleMap[2].role = "approver"
      /\ DefaultRoleMap[3].role = "executor" /\ DefaultRoleMap[4].role = "reporter"
  BY DEF DefaultRoleMap
<1>9. CASE 1 \in I
  <2>1. i = 1
    BY ONLY <1>6, <1>7, <1>9
  <2> QED
    BY ONLY <1>5, <1>6, <1>8, <1>9, <2>1
<1>10. CASE 1 \notin I /\ 2 \in I
  <2>1. \A y \in I : 2 <= y
    BY ONLY <1>6, <1>10
  <2>2. i = 2
    BY ONLY <1>7, <1>10, <2>1
  <2> QED
    BY ONLY <1>5, <1>6, <1>8, <1>10, <2>2
<1>11. CASE 1 \notin I /\ 2 \notin I /\ 3 \in I
  <2>1. \A y \in I : 3 <= y
    BY ONLY <1>6, <1>11
  <2>2. i = 3
    BY ONLY <1>7, <1>11, <2>1
  <2> QED
    BY ONLY <1>5, <1>6, <1>8, <1>11, <2>2
<1>12. CASE 1 \notin I /\ 2 \notin I /\ 3 \notin I
  <2>1. \A y \in I : y = 4
    BY ONLY <1>6, <1>12
  <2>2. i = 0 \/ i = 4
    <3>1. CASE I = {}
      BY ONLY <1>4, <3>1
    <3>2. CASE I # {}
      <4>1. 4 \in I /\ \A y \in I : 4 <= y
        BY ONLY <2>1, <3>2
      <4> QED
        BY ONLY <1>7, <4>1
    <3> QED
      BY ONLY <3>1, <3>2
  <2> QED
    BY ONLY <1>5, <1>6, <1>8, <1>12, <2>2
<1> QED
  BY ONLY <1>9, <1>10, <1>11, <1>12

(* With the map of a gateway that was given none, a claim more never makes *)
(* less of a caller, whatever the claims (oidc.js principal).              *)
THEOREM DefaultRolesGrow ==
  ASSUME NEW claims PROVE MoreRolesNeverLess(DefaultRoleMap, claims)
<1> SUFFICES ASSUME NEW few \in SUBSET claims, NEW many \in SUBSET claims, few \subseteq many
             PROVE  Rank(role(DefaultRoleMap, "reporter", few))
                      <= Rank(role(DefaultRoleMap, "reporter", many))
  BY DEF MoreRolesNeverLess
<1>1. /\ {"admin", "owner"} \cap few # {} => {"admin", "owner"} \cap many # {}
      /\ {"approver"} \cap few # {} => {"approver"} \cap many # {}
      /\ {"executor"} \cap few # {} => {"executor"} \cap many # {}
  OBVIOUS
<1>2. \A roles : Rank(role(DefaultRoleMap, "reporter", roles)) =
                   IF {"admin", "owner"} \cap roles # {} THEN 4
                   ELSE IF {"approver"} \cap roles # {} THEN 3
                   ELSE IF {"executor"} \cap roles # {} THEN 2 ELSE 1
  <2> TAKE roles
  <2>1. PICK r : r = role(DefaultRoleMap, "reporter", roles)
    OBVIOUS
  <2>2. r = IF {"admin", "owner"} \cap roles # {} THEN "admin"
            ELSE IF {"approver"} \cap roles # {} THEN "approver"
            ELSE IF {"executor"} \cap roles # {} THEN "executor" ELSE "reporter"
    BY ONLY <2>1, DefaultRoleIs
  <2> QED
    BY ONLY <2>1, <2>2, RankIs
<1>3. PICK x, y : /\ x = Rank(role(DefaultRoleMap, "reporter", few))
                  /\ y = Rank(role(DefaultRoleMap, "reporter", many))
  OBVIOUS
<1>4. x = IF {"admin", "owner"} \cap few # {} THEN 4
          ELSE IF {"approver"} \cap few # {} THEN 3
          ELSE IF {"executor"} \cap few # {} THEN 2 ELSE 1
  BY ONLY <1>2, <1>3
<1>5. y = IF {"admin", "owner"} \cap many # {} THEN 4
          ELSE IF {"approver"} \cap many # {} THEN 3
          ELSE IF {"executor"} \cap many # {} THEN 2 ELSE 1
  BY ONLY <1>2, <1>3
<1>6. x <= y
  BY ONLY <1>1, <1>4, <1>5
<1> QED
  BY ONLY <1>3, <1>6

=============================================================================
