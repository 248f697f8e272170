----------------------------- MODULE PolicyRules -----------------------------
(***************************************************************************)
(* The matching rules of the policy engine (internal/policy/policy.go) and *)
(* the decision they amount to.  A glob is the set of names it matches: "" *)
(* and "*" are every name.  A version is its rank in semantic-version      *)
(* order, NoVersion that of a request which is not tied to one.            *)
(***************************************************************************)
EXTENDS Naturals, Sequences

NoVersion == 0

Actions == {"fetch", "publish", "deprecate", "admin"}

\* One comparison of a version constraint.
Meets(v, c) == CASE c.op = ">=" -> v >= c.ver
                 [] c.op = "<=" -> v <= c.ver
                 [] c.op = ">"  -> v > c.ver
                 [] c.op = "<"  -> v < c.ver
                 [] c.op = "="  -> v = c.ver

\* A list that is set must name the principal; an unset one is no condition.
Selects(list, have) == list = {} \/ list \cap have # {}

SubjectMatches(s, p) ==
  \/ s.any
  \/ /\ Selects(s.users, {p.user})
     /\ Selects(s.teams, p.teams)
     /\ Selects(s.roles, p.roles)
     /\ Selects(s.agents, {p.agent})

\* A version constraint speaks only of requests for a concrete version.
ResourceMatches(m, r) ==
  /\ r.namespace \in m.namespaces
  /\ r.name \in m.names
  /\ m.constraints = {} \/ r.version # NoVersion
  /\ \A c \in m.constraints : Meets(r.version, c)

\* The request is [who, action, resource].
Matches(rule, q) ==
  /\ q.action \in rule.actions
  /\ SubjectMatches(rule.subject, q.who)
  /\ ResourceMatches(rule.resource, q.resource)

\* A deny always wins, and no match is a denial.
Permits(rules, q) ==
  /\ \E i \in DOMAIN rules : rules[i].effect = "allow" /\ Matches(rules[i], q)
  /\ ~\E i \in DOMAIN rules : rules[i].effect = "deny" /\ Matches(rules[i], q)
=============================================================================
