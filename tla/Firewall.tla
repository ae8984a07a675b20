------------------------------ MODULE Firewall ------------------------------
(***************************************************************************)
(* The netfilter OUTPUT chain as iptables.c sees it: the rule table, the   *)
(* two iptables operations the program runs (-I and -D), and the kernel's  *)
(* first-match traversal for an outgoing packet.  Pure operators; the step *)
(* by step apply / rollback / revert procedures are actions of Engine.     *)
(***************************************************************************)
EXTENDS Naturals, Sequences, SequencesExt

CONSTANTS
  NfqRules,   \* the NFQUEUE rules the program can install (proto/dport pairs)
  kRules,     \* the rule table, in table order
  MarkRule,   \* the "-m mark --mark FWMARK -j ACCEPT" rule
  OtherRules  \* rules of other programs, which match none of our packets

ASSUME RuleTableAssumption ==
  /\ kRules \in Seq(NfqRules)
  /\ \A i, j \in 1 .. Len(kRules) : kRules[i] = kRules[j] => i = j
  /\ MarkRule \notin NfqRules
  /\ OtherRules \cap (NfqRules \cup {MarkRule}) = {}

kRuleCount == Len(kRules)

Rules == NfqRules \cup {MarkRule} \cup OtherRules

\* The two programs the engine runs: one OUTPUT chain each.
Bins == {"iptables", "ip6tables"}

\* "iptables -I OUTPUT rule": the rule lands at the top of the chain.
Insert(c, r) == Cons(r, c)

\* "iptables -D OUTPUT rule": the first equal rule goes; without one the
\* command fails and the chain is unchanged.
DeleteEvery(c, r) == SelectSeq(c, LAMBDA v : v # r)    \* mutant of Delete
Delete(c, r) == RemoveFirst(c, r)

\* Reference: what a completed apply_for leaves on top of the chain (every
\* insertion goes to the top, the mark rule last), and the chain that holds
\* n consecutive rules of it, from entry lo on, above c.
OurRules ==
  [i \in 1 .. kRuleCount + 1 |->
     IF i = 1 THEN MarkRule ELSE kRules[kRuleCount + 2 - i]]

Above(lo, n, c) ==
  [i \in 1 .. n + Len(c) |-> IF i <= n THEN OurRules[lo + i - 1] ELSE c[i - n]]

-----------------------------------------------------------------------------
\* The kernel's traversal for a packet that matches NFQUEUE rule `class'
\* (or none) and carries our firewall mark or not.

Matches(r, class, marked) == r = class \/ (marked /\ r = MarkRule)

\* TRUE when the packet ends in the NFQUEUE target rather than going out.
Queued(c, class, marked) ==
  LET i == SelectInSeq(c, LAMBDA r : Matches(r, class, marked))
  IN  i # 0 /\ c[i] \in NfqRules

=============================================================================
