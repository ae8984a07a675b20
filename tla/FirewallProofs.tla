--------------------------- MODULE FirewallProofs ---------------------------
(***************************************************************************)
(* What "iptables -I" and "iptables -D" do to a chain that holds part of   *)
(* the program's own rules above the rules it found: the lemmas on which   *)
(* the proofs about the engine's apply, rollback and revert loops rest.    *)
(***************************************************************************)
EXTENDS Firewall, SequenceTheorems, WellFoundedInduction, TLAPS

\* Shape of the rule set apply_for leaves behind: the mark rule on top, the
\* table of iptables.c below it in reverse order, no rule twice.
LEMMA OurRulesShape ==
  /\ kRuleCount \in Nat
  /\ OurRules \in [1 .. kRuleCount + 1 -> Rules]
  /\ OurRules[1] = MarkRule
  /\ \A i \in 1 .. kRuleCount : OurRules[kRuleCount + 2 - i] = kRules[i]
  /\ \A i, j \in 1 .. kRuleCount + 1 : OurRules[i] = OurRules[j] => i = j
<1>1. /\ kRuleCount \in Nat
      /\ \A i \in 1 .. kRuleCount : kRules[i] \in NfqRules
  BY RuleTableAssumption DEF kRuleCount
<1>2. OurRules \in [1 .. kRuleCount + 1 -> Rules]
  BY <1>1 DEF OurRules, Rules
<1>3. /\ OurRules[1] = MarkRule
      /\ \A i \in 2 .. kRuleCount + 1 : OurRules[i] = kRules[kRuleCount + 2 - i]
  BY <1>1 DEF OurRules
<1>4. \A i \in 1 .. kRuleCount : OurRules[kRuleCount + 2 - i] = kRules[i]
  <2>1. TAKE i \in 1 .. kRuleCount
  <2>2. /\ kRuleCount + 2 - i \in 2 .. kRuleCount + 1
        /\ kRuleCount + 2 - (kRuleCount + 2 - i) = i
    BY <1>1
  <2> QED BY <1>3, <2>2
<1>5. ASSUME NEW i \in 1 .. kRuleCount + 1, NEW j \in 1 .. kRuleCount + 1,
             OurRules[i] = OurRules[j]
      PROVE  i = j
  <2>1. CASE i = 1
    BY <1>1, <1>3, <1>5, <2>1, RuleTableAssumption
  <2>2. CASE j = 1
    BY <1>1, <1>3, <1>5, <2>2, RuleTableAssumption
  <2>3. CASE i # 1 /\ j # 1
    <3>1. /\ kRuleCount + 2 - i \in 1 .. Len(kRules)
          /\ kRuleCount + 2 - j \in 1 .. Len(kRules)
      BY <1>1, <2>3 DEF kRuleCount
    <3>2. kRuleCount + 2 - i = kRuleCount + 2 - j
      BY <1>1, <1>3, <1>5, <2>3, <3>1, RuleTableAssumption
    <3> QED BY <1>1, <3>2
  <2> QED BY <2>1, <2>2, <2>3
<1> QED BY <1>1, <1>2, <1>3, <1>4, <1>5

\* An insertion puts its rule at position 1 and moves every other down.
LEMMA InsertsOnTop ==
  ASSUME NEW c \in Seq(Rules), NEW r \in Rules
  PROVE  /\ Insert(c, r) \in Seq(Rules)
         /\ Len(Insert(c, r)) = Len(c) + 1
         /\ Insert(c, r)[1] = r
         /\ \A i \in 2 .. Len(c) + 1 : Insert(c, r)[i] = c[i - 1]
<1> DEFINE s == <<r>>
<1>1. s \in Seq(Rules) /\ Len(s) = 1 /\ s[1] = r
  OBVIOUS
<1>2. Insert(c, r) = s \o c
  BY DEF Insert, Cons
<1> HIDE DEF s
<1>3. /\ s \o c \in Seq(Rules)
      /\ Len(s \o c) = Len(s) + Len(c)
      /\ \A i \in 1 .. Len(s) + Len(c) :
           (s \o c)[i] = IF i <= Len(s) THEN s[i] ELSE c[i - Len(s)]
  BY <1>1, ConcatProperties
<1>4. Len(s \o c) = Len(c) + 1 /\ (s \o c)[1] = r
  BY <1>1, <1>3
<1>5. ASSUME NEW i \in 2 .. Len(c) + 1 PROVE (s \o c)[i] = c[i - 1]
  <2>1. i \in 1 .. Len(s) + Len(c) /\ ~(i <= Len(s))
    BY <1>1
  <2> QED BY <1>1, <1>3, <2>1
<1>6. QED
  BY <1>2, <1>3, <1>4, <1>5

\* A deletion removes the first equal rule, closes the gap and touches no
\* rule above or below it.
LEMMA DeletesFirst ==
  ASSUME NEW c \in Seq(Rules), NEW r, NEW k \in 1 .. Len(c),
         c[k] = r, \A i \in 1 .. k - 1 : c[i] # r
  PROVE  /\ Delete(c, r) \in Seq(Rules)
         /\ Len(Delete(c, r)) = Len(c) - 1
         /\ \A i \in 1 .. k - 1 : Delete(c, r)[i] = c[i]
         /\ \A i \in k .. Len(c) - 1 : Delete(c, r)[i] = c[i + 1]
<1> DEFINE I == {i \in 1 .. Len(c) : c[i] = r}
<1>1. k \in I /\ \A i \in I : k <= i
  OBVIOUS
<1>2. Min(I) = k
  <2>1. \E x \in I : \A y \in I : x <= y
    BY <1>1
  <2>2. /\ Min(I) \in I /\ \A y \in I : Min(I) <= y
    BY <2>1 DEF Min
  <2> QED BY <1>1, <2>2
<1>3. Delete(c, r) = SubSeq(c, 1, k - 1) \o SubSeq(c, k + 1, Len(c))
  <2>1. SelectInSeq(c, LAMBDA v : v = r) = k
    BY <1>1, <1>2 DEF SelectInSeq
  <2>2. \E i \in 1 .. Len(c) : c[i] = r
    BY <1>1
  <2> QED BY <2>1, <2>2 DEF Delete, RemoveFirst, RemoveAt
<1> HIDE DEF I
<1>4. /\ SubSeq(c, 1, k - 1) \in Seq(Rules)
      /\ Len(SubSeq(c, 1, k - 1)) = k - 1
      /\ \A i \in 1 .. k - 1 : SubSeq(c, 1, k - 1)[i] = c[i]
  OBVIOUS
<1>5. /\ SubSeq(c, k + 1, Len(c)) \in Seq(Rules)
      /\ Len(SubSeq(c, k + 1, Len(c))) = Len(c) - k
      /\ \A i \in 1 .. Len(c) - k : SubSeq(c, k + 1, Len(c))[i] = c[k + i]
  OBVIOUS
<1> DEFINE s == SubSeq(c, 1, k - 1)
           t == SubSeq(c, k + 1, Len(c))
<1>6. s \in Seq(Rules) /\ t \in Seq(Rules) /\ Len(s) = k - 1 /\ Len(t) = Len(c) - k
  BY <1>4, <1>5
<1>7. Delete(c, r) = s \o t
  BY <1>3
<1>8. /\ \A i \in 1 .. k - 1 : s[i] = c[i]
      /\ \A i \in 1 .. Len(c) - k : t[i] = c[k + i]
  BY <1>4, <1>5
<1> HIDE DEF s, t
<1>9. /\ s \o t \in Seq(Rules)
      /\ Len(s \o t) = Len(s) + Len(t)
      /\ \A i \in 1 .. Len(s) + Len(t) :
           (s \o t)[i] = IF i <= Len(s) THEN s[i] ELSE t[i - Len(s)]
  BY <1>6, ConcatProperties
<1>10. Len(s) + Len(t) = Len(c) - 1
  BY <1>6
<1>11. \A i \in 1 .. k - 1 : (s \o t)[i] = c[i]
  BY <1>6, <1>8, <1>9
<1>12. ASSUME NEW i \in k .. Len(c) - 1 PROVE (s \o t)[i] = c[i + 1]
  <2>1. i - (k - 1) \in 1 .. Len(c) - k /\ k + (i - (k - 1)) = i + 1
    OBVIOUS
  <2>2. (s \o t)[i] = t[i - (k - 1)]
    BY <1>6, <1>9
  <2> QED BY <1>8, <2>1, <2>2
<1> QED BY <1>7, <1>9, <1>10, <1>11, <1>12

\* A non-empty set of positions in a chain has a first one.
LEMMA LeastElement ==
  ASSUME NEW T \in SUBSET Nat, T # {}
  PROVE  \E k \in T : \A i \in T : k <= i
<1> DEFINE R == OpToRel(<, Nat)
<1>1. IsWellFoundedOn(R, Nat)
  BY NatLessThanWellFounded
<1>2. R = {ss \in Nat \X Nat : ss[1] < ss[2]}
  BY Zenon DEF OpToRel
<1> HIDE DEF R
<1>3. PICK k \in T : \A i \in T : ~ (<<i, k>> \in R)
  BY <1>1, WFMin
<1>4. ASSUME NEW i \in T PROVE k <= i
  <2>1. i \in Nat /\ k \in Nat
    OBVIOUS
  <2>2. i < k => <<i, k>> \in R
    BY <1>2, <2>1
  <2> QED BY <1>3, <2>1, <2>2
<1> QED BY <1>4

\* A deletion yields a chain, whether or not the rule is there.
LEMMA DeleteType ==
  ASSUME NEW c \in Seq(Rules), NEW r
  PROVE  Delete(c, r) \in Seq(Rules)
<1>1. CASE \E i \in 1 .. Len(c) : c[i] = r
  <2> DEFINE I == {i \in 1 .. Len(c) : c[i] = r}
  <2>1. PICK k \in I : \A i \in I : k <= i
    <3>1. I \in SUBSET Nat /\ I # {}
      BY <1>1
    <3> HIDE DEF I
    <3> QED BY <3>1, LeastElement
  <2>2. \A i \in 1 .. k - 1 : c[i] # r
    BY <2>1
  <2> QED BY <2>1, <2>2, DeletesFirst
<1>2. CASE ~ \E i \in 1 .. Len(c) : c[i] = r
  BY <1>2 DEF Delete, RemoveFirst
<1> QED BY <1>1, <1>2

-----------------------------------------------------------------------------
\* A function over 1 .. n is a chain of length n.
LEMMA ChainOfFunction ==
  ASSUME NEW n \in Nat, NEW f \in [1 .. n -> Rules]
  PROVE  f \in Seq(Rules) /\ Len(f) = n
<1>1. f \in Seq(Rules)
  BY SeqDef
<1>2. DOMAIN f = 1 .. Len(f) /\ Len(f) \in Nat
  BY <1>1
<1>3. 1 .. Len(f) = 1 .. n
  BY <1>2
<1> QED BY <1>1, <1>2, <1>3

\* Two chains of one length with the same rule at each position are equal.
LEMMA ChainEqual ==
  ASSUME NEW c \in Seq(Rules), NEW d \in Seq(Rules), Len(c) = Len(d),
         \A i \in 1 .. Len(c) : c[i] = d[i]
  PROVE  c = d
BY SeqEqual

\* Above(lo, n, c) is a chain: n of our rules from entry lo on, then c.
LEMMA AboveShape ==
  ASSUME NEW c \in Seq(Rules), NEW lo \in Nat \ {0}, NEW n \in Nat,
         lo + n <= kRuleCount + 2
  PROVE  /\ Above(lo, n, c) \in Seq(Rules)
         /\ Len(Above(lo, n, c)) = n + Len(c)
         /\ \A i \in 1 .. n : Above(lo, n, c)[i] = OurRules[lo + i - 1]
         /\ \A i \in n + 1 .. n + Len(c) : Above(lo, n, c)[i] = c[i - n]
<1>1. Len(c) \in Nat /\ kRuleCount \in Nat
  BY OurRulesShape
<1>2. \A i \in 1 .. n : lo + i - 1 \in 1 .. kRuleCount + 1
  BY <1>1
<1>3. \A i \in n + 1 .. n + Len(c) : i - n \in 1 .. Len(c)
  BY <1>1
<1>4. ASSUME NEW i \in 1 .. n + Len(c)
      PROVE  (IF i <= n THEN OurRules[lo + i - 1] ELSE c[i - n]) \in Rules
  <2>1. CASE i <= n
    BY <1>1, <1>2, <2>1, OurRulesShape
  <2>2. CASE ~(i <= n)
    <3>1. i - n \in 1 .. Len(c)
      BY <1>1, <1>3, <2>2
    <3> QED BY <2>2, <3>1
  <2> QED BY <2>1, <2>2
<1>5. Above(lo, n, c) \in [1 .. n + Len(c) -> Rules]
  BY <1>4 DEF Above
<1>6. n + Len(c) \in Nat
  BY <1>1
<1>7. /\ Above(lo, n, c) \in Seq(Rules)
      /\ Len(Above(lo, n, c)) = n + Len(c)
  BY <1>5, <1>6, ChainOfFunction
<1>8. /\ \A i \in 1 .. n : Above(lo, n, c)[i] = OurRules[lo + i - 1]
      /\ \A i \in n + 1 .. n + Len(c) : Above(lo, n, c)[i] = c[i - n]
  BY <1>1 DEF Above
<1> QED BY <1>7, <1>8

\* With none of our rules above it a chain is as it was found.
LEMMA AboveNone ==
  ASSUME NEW c \in Seq(Rules), NEW lo \in 1 .. kRuleCount + 2
  PROVE  Above(lo, 0, c) = c
<1>1. kRuleCount \in Nat /\ Len(c) \in Nat /\ lo \in Nat \ {0}
      /\ lo + 0 <= kRuleCount + 2
  BY OurRulesShape
<1>2. /\ Above(lo, 0, c) \in Seq(Rules)
      /\ Len(Above(lo, 0, c)) = 0 + Len(c)
      /\ \A i \in 0 + 1 .. 0 + Len(c) : Above(lo, 0, c)[i] = c[i - 0]
  BY <1>1, AboveShape
<1>3. /\ Len(Above(lo, 0, c)) = Len(c)
      /\ \A i \in 1 .. Len(c) : Above(lo, 0, c)[i] = c[i]
  BY <1>1, <1>2
<1> QED BY <1>2, <1>3, ChainEqual

\* An insertion of the next rule up extends our part at the top: what a
\* successful step of apply_for does.
LEMMA AboveInsert ==
  ASSUME NEW c \in Seq(Rules), NEW lo \in Nat \ {0}, NEW n \in Nat,
         (lo + 1) + n <= kRuleCount + 2
  PROVE  Insert(Above(lo + 1, n, c), OurRules[lo]) = Above(lo, n + 1, c)
<1>1. /\ kRuleCount \in Nat /\ Len(c) \in Nat
      /\ lo \in 1 .. kRuleCount + 1 /\ OurRules[lo] \in Rules
      /\ lo + 1 \in Nat \ {0} /\ n + 1 \in Nat
      /\ lo + (n + 1) <= kRuleCount + 2
  BY OurRulesShape
<1> DEFINE a == Above(lo + 1, n, c)
           b == Above(lo, n + 1, c)
           d == Insert(a, OurRules[lo])
<1>2. /\ a \in Seq(Rules) /\ Len(a) = n + Len(c)
      /\ \A i \in 1 .. n : a[i] = OurRules[(lo + 1) + i - 1]
      /\ \A i \in n + 1 .. n + Len(c) : a[i] = c[i - n]
  BY <1>1, AboveShape
<1>3. /\ b \in Seq(Rules) /\ Len(b) = (n + 1) + Len(c)
      /\ \A i \in 1 .. n + 1 : b[i] = OurRules[lo + i - 1]
      /\ \A i \in (n + 1) + 1 .. (n + 1) + Len(c) : b[i] = c[i - (n + 1)]
  BY <1>1, AboveShape
<1>4. /\ d \in Seq(Rules) /\ Len(d) = Len(a) + 1
      /\ d[1] = OurRules[lo]
      /\ \A i \in 2 .. Len(a) + 1 : d[i] = a[i - 1]
  BY <1>1, <1>2, InsertsOnTop
<1> HIDE DEF a, b, d
<1>5. Len(d) = Len(b)
  BY <1>1, <1>2, <1>3, <1>4
<1>6. ASSUME NEW i \in 1 .. Len(d) PROVE d[i] = b[i]
  <2>1. CASE i = 1
    <3>1. lo + 1 - 1 = lo /\ 1 \in 1 .. n + 1
      BY <1>1
    <3>2. b[1] = OurRules[lo]
      BY <1>3, <3>1
    <3> QED BY <1>4, <2>1, <3>2
  <2>2. CASE i \in 2 .. n + 1
    <3>1. i - 1 \in 1 .. n /\ i \in 1 .. n + 1 /\ i \in 2 .. Len(a) + 1
          /\ (lo + 1) + (i - 1) - 1 = lo + i - 1
      BY <1>1, <1>2, <2>2
    <3> QED BY <1>2, <1>3, <1>4, <3>1
  <2>3. CASE i \in n + 2 .. n + 1 + Len(c)
    <3>1. i - 1 \in n + 1 .. n + Len(c) /\ i \in 2 .. Len(a) + 1
          /\ i \in (n + 1) + 1 .. (n + 1) + Len(c)
          /\ (i - 1) - n = i - (n + 1)
      BY <1>1, <1>2, <2>3
    <3>2. d[i] = a[i - 1] /\ a[i - 1] = c[(i - 1) - n] /\ b[i] = c[i - (n + 1)]
      BY <1>2, <1>3, <1>4, <3>1
    <3> QED BY <3>1, <3>2
  <2> QED BY <1>1, <1>2, <1>4, <2>1, <2>2, <2>3
<1>7. d = b
  BY <1>3, <1>4, <1>5, <1>6, ChainEqual
<1> QED BY <1>7 DEF b, d, a

\* Deleting our topmost rule takes it off the top, even when a rule like it
\* was left further down by an earlier run: the mark rule in revert_for, and
\* each rule in the downward rollback of apply_for.
LEMMA AboveDeleteTop ==
  ASSUME NEW c \in Seq(Rules), NEW lo \in Nat \ {0}, NEW n \in Nat,
         lo + (n + 1) <= kRuleCount + 2
  PROVE  Delete(Above(lo, n + 1, c), OurRules[lo]) = Above(lo + 1, n, c)
<1>1. /\ kRuleCount \in Nat /\ Len(c) \in Nat
      /\ lo + 1 \in Nat \ {0} /\ n + 1 \in Nat
      /\ lo + n <= kRuleCount + 2 /\ (lo + 1) + n <= kRuleCount + 2
  BY OurRulesShape
<1> DEFINE a == Above(lo, n + 1, c)
           b == Above(lo + 1, n, c)
           d == Delete(a, OurRules[lo])
<1>2. /\ a \in Seq(Rules) /\ Len(a) = (n + 1) + Len(c)
      /\ \A i \in 1 .. n + 1 : a[i] = OurRules[lo + i - 1]
      /\ \A i \in (n + 1) + 1 .. (n + 1) + Len(c) : a[i] = c[i - (n + 1)]
  BY <1>1, AboveShape
<1>3. /\ b \in Seq(Rules) /\ Len(b) = n + Len(c)
      /\ \A i \in 1 .. n : b[i] = OurRules[(lo + 1) + i - 1]
      /\ \A i \in n + 1 .. n + Len(c) : b[i] = c[i - n]
  BY <1>1, AboveShape
<1> HIDE DEF a, b
<1>4. 1 \in 1 .. Len(a) /\ a[1] = OurRules[lo] /\ 1 .. 1 - 1 = {}
  <2>1. 1 \in 1 .. n + 1 /\ lo + 1 - 1 = lo
    OBVIOUS
  <2> QED BY <1>1, <1>2, <2>1
<1>5. /\ d \in Seq(Rules) /\ Len(d) = Len(a) - 1
      /\ \A i \in 1 .. Len(a) - 1 : d[i] = a[i + 1]
  BY <1>2, <1>4, DeletesFirst
<1> HIDE DEF d
<1>6. Len(d) = Len(b)
  BY <1>1, <1>2, <1>3, <1>5
<1>7. ASSUME NEW i \in 1 .. Len(d) PROVE d[i] = b[i]
  <2>1. d[i] = a[i + 1]
    BY <1>5
  <2>2. CASE i \in 1 .. n
    <3>1. i + 1 \in 1 .. n + 1 /\ lo + (i + 1) - 1 = (lo + 1) + i - 1
      BY <2>2
    <3> QED BY <1>2, <1>3, <2>1, <2>2, <3>1
  <2>3. CASE i \in n + 1 .. n + Len(c)
    <3>1. i + 1 \in (n + 1) + 1 .. (n + 1) + Len(c)
          /\ (i + 1) - (n + 1) = i - n
      BY <1>1, <2>3
    <3>2. a[i + 1] = c[(i + 1) - (n + 1)] /\ b[i] = c[i - n]
      BY <1>2, <1>3, <2>3, <3>1
    <3> QED BY <2>1, <3>1, <3>2
  <2> QED BY <1>1, <1>2, <1>5, <2>2, <2>3
<1>8. d = b
  BY <1>3, <1>5, <1>6, <1>7, ChainEqual
<1> QED BY <1>8 DEF a, b, d

\* Deleting our lowest rule leaves the others and everything below alone,
\* since no rule of the set is there twice: the table loop of revert_for and
\* the upward rollback of apply_for.
LEMMA AboveDeleteBottom ==
  ASSUME NEW c \in Seq(Rules), NEW lo \in Nat \ {0}, NEW n \in Nat,
         lo + (n + 1) <= kRuleCount + 2
  PROVE  Delete(Above(lo, n + 1, c), OurRules[lo + n]) = Above(lo, n, c)
<1>1. /\ kRuleCount \in Nat /\ Len(c) \in Nat
      /\ lo + 1 \in Nat \ {0} /\ n + 1 \in Nat
      /\ lo + n <= kRuleCount + 2 /\ (lo + 1) + n <= kRuleCount + 2
  BY OurRulesShape
<1> DEFINE a == Above(lo, n + 1, c)
           b == Above(lo, n, c)
           d == Delete(a, OurRules[lo + n])
<1>2. /\ a \in Seq(Rules) /\ Len(a) = (n + 1) + Len(c)
      /\ \A i \in 1 .. n + 1 : a[i] = OurRules[lo + i - 1]
      /\ \A i \in (n + 1) + 1 .. (n + 1) + Len(c) : a[i] = c[i - (n + 1)]
  BY <1>1, AboveShape
<1>3. /\ b \in Seq(Rules) /\ Len(b) = n + Len(c)
      /\ \A i \in 1 .. n : b[i] = OurRules[lo + i - 1]
      /\ \A i \in n + 1 .. n + Len(c) : b[i] = c[i - n]
  BY <1>1, AboveShape
<1> HIDE DEF a, b
<1>4. n + 1 \in 1 .. Len(a) /\ a[n + 1] = OurRules[lo + n]
  <2>1. n + 1 \in 1 .. n + 1 /\ lo + (n + 1) - 1 = lo + n
    OBVIOUS
  <2>2. a[n + 1] = OurRules[lo + (n + 1) - 1]
    BY <1>2, <2>1
  <2> QED BY <1>1, <1>2, <2>1, <2>2, SMTT(30)
<1>5. ASSUME NEW i \in 1 .. (n + 1) - 1 PROVE a[i] # OurRules[lo + n]
  <2>1. i \in 1 .. n + 1 /\ lo + i - 1 # lo + n
        /\ lo + i - 1 \in 1 .. kRuleCount + 1 /\ lo + n \in 1 .. kRuleCount + 1
    BY <1>1
  <2>2. a[i] = OurRules[lo + i - 1]
    BY <1>2, <2>1
  <2> QED BY <2>1, <2>2, OurRulesShape
<1>6. /\ d \in Seq(Rules) /\ Len(d) = Len(a) - 1
      /\ \A i \in 1 .. (n + 1) - 1 : d[i] = a[i]
      /\ \A i \in n + 1 .. Len(a) - 1 : d[i] = a[i + 1]
  <2> DEFINE k == n + 1
             r == OurRules[lo + n]
  <2>1. a \in Seq(Rules) /\ k \in 1 .. Len(a) /\ a[k] = r
    BY <1>2, <1>4
  <2>2. \A i \in 1 .. k - 1 : a[i] # r
    BY <1>5
  <2> HIDE DEF k, r
  <2>3. /\ Delete(a, r) \in Seq(Rules)
        /\ Len(Delete(a, r)) = Len(a) - 1
        /\ \A i \in 1 .. k - 1 : Delete(a, r)[i] = a[i]
        /\ \A i \in k .. Len(a) - 1 : Delete(a, r)[i] = a[i + 1]
    BY <2>1, <2>2, DeletesFirst
  <2> QED BY <2>3 DEF k, r
<1> HIDE DEF d
<1>7. Len(d) = Len(b)
  BY <1>1, <1>2, <1>3, <1>6
<1>8. ASSUME NEW i \in 1 .. Len(d) PROVE d[i] = b[i]
  <2>1. CASE i \in 1 .. n
    <3>1. i \in 1 .. n + 1 /\ i \in 1 .. (n + 1) - 1
      BY <2>1
    <3> QED BY <1>2, <1>3, <1>6, <2>1, <3>1
  <2>2. CASE i \in n + 1 .. n + Len(c)
    <3>1. i + 1 \in (n + 1) + 1 .. (n + 1) + Len(c)
          /\ (i + 1) - (n + 1) = i - n /\ i \in n + 1 .. Len(a) - 1
      BY <1>1, <1>2, <2>2
    <3>2. d[i] = a[i + 1] /\ a[i + 1] = c[(i + 1) - (n + 1)] /\ b[i] = c[i - n]
      BY <1>2, <1>3, <1>6, <2>2, <3>1
    <3> QED BY <3>1, <3>2
  <2> QED BY <1>1, <1>2, <1>6, <2>1, <2>2
<1>9. d = b
  BY <1>3, <1>6, <1>7, <1>8, ChainEqual
<1> QED BY <1>9 DEF a, b, d

=============================================================================
