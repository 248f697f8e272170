------------------------------- MODULE Catalog -------------------------------
(***************************************************************************)
(* What the registry promises its callers, whatever requests, failures and *)
(* restarts interleave underneath: a catalogue of immutable versions whose *)
(* only change is published -> deprecated, and a log to which every change *)
(* is appended in the same step as the change, once per request.           *)
(***************************************************************************)
EXTENDS Naturals, Sequences

CONSTANTS
  Keys,        \* (namespace, name, version)
  Digests,
  Principals,
  Ids          \* request ids

Row == [status: {"published", "deprecated"}, digest: Digests, publisher: Principals]
Event == [id: Ids, action: {"publish", "deprecate", "fetch"}, who: Principals,
          key: Keys, outcome: {"ok", "denied"}]

VARIABLES
  rows,        \* the versions there are
  log          \* the audit log

vars == <<rows, log>>

IsChange(e) == e.action # "fetch" /\ e.outcome = "ok"

TypeOK ==
  /\ DOMAIN rows \subseteq Keys
  /\ rows \in [DOMAIN rows -> Row]
  /\ log \in Seq(Event)

Init ==
  /\ rows = [k \in {} |-> {}]
  /\ log = <<>>

FreshIds == Ids \ {log[j].id : j \in DOMAIN log}

\* A new version appears together with the record of its publication.
Publish(k) ==
  /\ k \notin DOMAIN rows
  /\ \E d \in Digests, p \in Principals, i \in FreshIds :
       /\ rows' = [j \in DOMAIN rows \cup {k} |->
                    IF j = k THEN [status |-> "published", digest |-> d, publisher |-> p]
                             ELSE rows[j]]
       /\ log' = Append(log, [id |-> i, action |-> "publish", who |-> p,
                              key |-> k, outcome |-> "ok"])

\* A published version is deprecated together with the record of it.
Deprecate(k) ==
  /\ k \in DOMAIN rows
  /\ rows[k].status = "published"
  /\ rows' = [rows EXCEPT ![k].status = "deprecated"]
  /\ \E p \in Principals, i \in FreshIds :
       log' = Append(log, [id |-> i, action |-> "deprecate", who |-> p,
                           key |-> k, outcome |-> "ok"])

\* Fetches and denials are recorded too, and change nothing.
Note ==
  /\ \E e \in Event : /\ e.id \in FreshIds
                      /\ ~IsChange(e)
                      /\ log' = Append(log, e)
  /\ UNCHANGED rows

Next == Note \/ \E k \in Keys : Publish(k) \/ Deprecate(k)

Spec == Init /\ [][Next]_vars

-----------------------------------------------------------------------------
Records(action, k) ==
  {i \in DOMAIN log : log[i].action = action /\ log[i].outcome = "ok" /\ log[i].key = k}

AtMostOne(S) == \A i, j \in S : i = j

\* The log tells the history of the catalogue: every version in it has
\* exactly one record of its publication, by its publisher, every deprecated
\* version exactly one record of its deprecation, later in the log, and there
\* are no other records of changes (registry.go:120-125, 320-334).
LogMatchesRows ==
  \A k \in Keys :
    /\ k \in DOMAIN rows <=> Records("publish", k) # {}
    /\ AtMostOne(Records("publish", k))
    /\ \A i \in Records("publish", k) : log[i].who = rows[k].publisher
    /\ AtMostOne(Records("deprecate", k))
    /\ Records("deprecate", k) # {}
         <=> k \in DOMAIN rows /\ rows[k].status = "deprecated"
    /\ \A i \in Records("publish", k), j \in Records("deprecate", k) : i < j
=============================================================================
