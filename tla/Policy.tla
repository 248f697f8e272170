------------------------------- MODULE Policy -------------------------------
(***************************************************************************)
(* Decide (internal/policy/policy.go): one scan over the rules in the      *)
(* order of the policy file, which returns at the first matching deny and  *)
(* remembers the first matching allow.                                     *)
(***************************************************************************)
EXTENDS PolicyRules

CONSTANTS
  Rules,      \* well-formed rules [id, effect, subject, actions, resource]
  Policies,   \* the rule lists that Parse accepts
  Queries,    \* the requests [who, action, resource] that may be decided
  NoRule      \* the rule id of a default denial

\* Parse rejects any other effect, an empty id and a doubled id.
ASSUME PolicyAssumption ==
  /\ \A r \in Rules : r.effect \in {"allow", "deny"} /\ r.id # NoRule
  /\ Policies \subseteq Seq(Rules)
  /\ \A rs \in Policies : \A i, j \in 1..Len(rs) : rs[i].id = rs[j].id => i = j

VARIABLES
  rules,      \* the loaded policy
  query,      \* the request being decided
  next,       \* the next rule to look at
  allow,      \* the first matching allow so far, 0 if none
  decision    \* [done, allow, rule]

vars == <<rules, query, next, allow, decision>>

Undecided == [done |-> FALSE, allow |-> FALSE, rule |-> NoRule]
Decided(a, id) == [done |-> TRUE, allow |-> a, rule |-> id]

Init ==
  /\ rules \in Policies
  /\ query \in Queries
  /\ next = 1
  /\ allow = 0
  /\ decision = Undecided

Looking == ~decision.done /\ next <= Len(rules)

Skip ==
  /\ Looking
  /\ ~Matches(rules[next], query)
  /\ next' = next + 1
  /\ UNCHANGED <<rules, query, allow, decision>>

Deny ==
  /\ Looking
  /\ Matches(rules[next], query)
  /\ rules[next].effect = "deny"
  /\ decision' = Decided(FALSE, rules[next].id)
  /\ UNCHANGED <<rules, query, next, allow>>

\* Mutant: the first matching allow ends the scan.
AllowDecides ==
  /\ Looking
  /\ Matches(rules[next], query)
  /\ rules[next].effect # "deny"
  /\ decision' = Decided(TRUE, rules[next].id)
  /\ UNCHANGED <<rules, query, next, allow>>

\* Mutant: the last matching allow is named.
AllowLast ==
  /\ Looking
  /\ Matches(rules[next], query)
  /\ rules[next].effect # "deny"
  /\ allow' = next
  /\ next' = next + 1
  /\ UNCHANGED <<rules, query, decision>>

Allow ==
  /\ Looking
  /\ Matches(rules[next], query)
  /\ rules[next].effect # "deny"
  /\ allow' = IF allow = 0 THEN next ELSE allow
  /\ next' = next + 1
  /\ UNCHANGED <<rules, query, decision>>

Finish ==
  /\ ~decision.done
  /\ next > Len(rules)
  /\ decision' = IF allow # 0 THEN Decided(TRUE, rules[allow].id)
                              ELSE Decided(FALSE, NoRule)
  /\ UNCHANGED <<rules, query, next, allow>>

Next == Skip \/ Deny \/ Allow \/ Finish

Spec == Init /\ [][Next]_vars

-----------------------------------------------------------------------------
ScanTypeOK ==
  /\ rules \in Policies
  /\ next \in 1..(Len(rules) + 1)
  /\ allow \in 0..(next - 1)
  /\ decision \in [done: BOOLEAN, allow: BOOLEAN,
                   rule: {NoRule} \cup {r.id : r \in Rules}]

TypeOK == query \in Queries /\ ScanTypeOK

\* Whatever order the file lists its rules in, a matching deny wins over
\* every allow and no match at all is a denial (policy.go:145-163).
DecisionIsPermission ==
  decision.done => (decision.allow <=> Permits(rules, query))

Deciding(i) ==
  /\ Matches(rules[i], query)
  /\ rules[i].effect = "allow" <=> decision.allow

\* The rule a decision names, which the audit log records, is the first one
\* of the winning effect that matches; a default denial names none
\* (policy.go:152-162, registry.go:96).
NamedRuleDecided ==
  decision.done =>
    \/ /\ decision.rule = NoRule
       /\ \A i \in DOMAIN rules : ~Matches(rules[i], query)
    \/ \E i \in DOMAIN rules :
         /\ decision.rule = rules[i].id
         /\ Deciding(i)
         /\ \A j \in 1..(i - 1) : ~Deciding(j)
=============================================================================
