----------------------------- MODULE MCRegistry -----------------------------
(***************************************************************************)
(* A registry with one skill.  The owner may do everything but export, the *)
(* guest may fetch all versions but version 2, the robot may do nothing.   *)
(***************************************************************************)
EXTENDS Registry

CONSTANTS f1, f2

Skill == [namespace |-> "pay", name |-> "pci"]
MCSkills == {Skill}

Person(n, a) == [user |-> n, teams |-> {}, roles |-> {}, agent |-> a]
Owner == Person("owner", "claude")
Guest == Person("guest", "claude")
MCPrincipals == {Owner, Guest}

Nobody == [any |-> FALSE, users |-> {}, teams |-> {}, roles |-> {}, agents |-> {}]
Pay(cs) == [namespaces |-> {"pay"}, names |-> {"pci"}, constraints |-> cs]
MCRules == <<
  [effect |-> "allow", subject |-> [Nobody EXCEPT !.any = TRUE],
   actions |-> {"fetch"}, resource |-> Pay({})],
  [effect |-> "allow", subject |-> [Nobody EXCEPT !.users = {"owner"}],
   actions |-> {"publish", "deprecate"}, resource |-> Pay({})],
  [effect |-> "deny", subject |-> [Nobody EXCEPT !.users = {"guest"}],
   actions |-> {"fetch"}, resource |-> Pay({[op |-> "=", ver |-> 2]})] >>

\* With the owner as an administrator, exports are permitted too.
AdminRules == Append(MCRules,
  [effect |-> "allow", subject |-> [Nobody EXCEPT !.users = {"owner"}],
   actions |-> {"admin"},
   resource |-> [namespaces |-> {"*"}, names |-> {"*"}, constraints |-> {}]])

Ask(op, who, v) == [op |-> op, who |-> who, skill |-> Skill, version |-> v,
                    content |-> {f1}, valid |-> TRUE, audited |-> FALSE]

MCRequests == {
  Ask("publish", Owner, 1),
  [Ask("publish", Owner, 1) EXCEPT !.content = {f1, f2}],
  [Ask("publish", Owner, 2) EXCEPT !.content = {f2}],
  [Ask("publish", Owner, 2) EXCEPT !.valid = FALSE],
  Ask("deprecate", Owner, 1),
  Ask("deprecate", Guest, 1),
  Ask("get", Guest, 2),
  [Ask("get", Guest, Latest) EXCEPT !.audited = TRUE],
  [Ask("get", Owner, 1) EXCEPT !.audited = TRUE],
  Ask("versions", Guest, Latest),
  Ask("export", Owner, 1) }

=============================================================================
