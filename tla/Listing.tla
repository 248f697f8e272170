------------------------------- MODULE Listing -------------------------------
(***************************************************************************)
(* Reading the catalogue page by page while others publish and deprecate:  *)
(* Service.List and Service.Resolve (internal/registry), called            *)
(*   - by `sgw list` and Gateway.Peek, which read all pages ("list"),      *)
(*   - by Gateway.List and then, for every skill listed, Gateway.Resolve,  *)
(*     which asks for `latest` and downloads that version ("gateway"),     *)
(*   - by a client of the MCP server, whose skills/list loads the `latest` *)
(*     of every skill of a page before it answers ("mcp").                 *)
(* A call of List is one query and so one step.  Skills are the ranks of   *)
(* their keys "namespace/name"; a digest is known by its version.          *)
(***************************************************************************)
EXTENDS VersionOrder, Sequences, FiniteSetsExt

CONSTANTS
  Skills,     \* ranks of the keys, from 1
  Keys,       \* the versions of skills that are ever published
  May,        \* the versions that the policy lets the caller fetch
  Matches,    \* the versions that match the query and tag of `sgw list`
  Limit,      \* entries on a page
  Modes,      \* the ways to read that are of interest
  MaxFaults   \* bound on requests that fail

None == 0     \* no version, no cursor, no skill
Item == [skill: Skills, version: Versions]

ASSUME ListingAssumption ==
  /\ Skills \subseteq Nat \ {None} /\ IsFiniteSet(Skills)
  /\ Versions \subseteq Nat \ {None}
  /\ Stable \subseteq Versions
  /\ Keys \subseteq Skills \X Versions
  /\ May \subseteq Keys /\ Matches \subseteq Keys
  /\ Limit \in Nat \ {0}
  /\ Modes \subseteq {"list", "gateway", "mcp"}
  /\ MaxFaults \in Nat

VARIABLES
  rows,     \* the status of every version
  pc, mode,
  cursor,   \* where the next page starts
  todo,     \* the skills listed that are still to be loaded or resolved
  meta,     \* the version that the gateway named as latest
  found,    \* the entries read so far, in order
  seen,     \* history: what the caller's latest has been since the reading began
  faults

readVars == <<pc, mode, cursor, todo, meta, found>>
vars == <<rows, readVars, seen, faults>>

TypeOK ==
  /\ rows \in [Keys -> {"none", "published", "deprecated"}]
  /\ pc \in {"idle", "page", "load", "meta", "bundle", "done", "failed"}
  /\ mode \in Modes
  /\ cursor \in Skills \cup {None}
  /\ todo \in Seq(Skills)
  /\ meta \in Versions \cup {None}
  /\ found \in Seq(Item)
  /\ seen \in [Skills -> SUBSET (Versions \cup {None})]
  /\ faults \in 0..MaxFaults

Init ==
  /\ rows = [k \in Keys |-> "none"]
  /\ pc = "idle"
  /\ mode \in Modes
  /\ cursor = None /\ todo = <<>> /\ meta = None /\ found = <<>>
  /\ seen = [k \in Skills |-> {}]
  /\ faults = 0

-----------------------------------------------------------------------------
\* The candidates for `latest`: published, and the caller may fetch them.
Fetchable(db, k) == {v \in Versions : <<k, v>> \in May /\ db[<<k, v>>] = "published"}

\* Resolve("latest").
Latest(db, k) == LET vs == Fetchable(db, k) IN IF vs = {} THEN None ELSE Best(vs)

\* List: the filter of the query chooses versions, and the best of those
\* that are left stands for the skill.  Only `sgw list` filters.
Sought(k, v) == mode = "list" => <<k, v>> \in Matches
Listed(k) == {v \in Fetchable(rows, k) : Sought(k, v)}

\* Mutant: a page starts with the cursor's own skill.
AfterInclusive(c) == {k \in Skills : Listed(k) # {} /\ k >= c}

After(c) == {k \in Skills : Listed(k) # {} /\ k > c}

Page == {k \in After(cursor) : Cardinality({j \in After(cursor) : j < k}) < Limit}

\* Mutant: there is always a next page, and an empty one echoes the cursor.
NextCursorEchoed == IF Page = {} THEN cursor ELSE Max(Page)

NextCursor == IF Page = After(cursor) THEN None ELSE Max(Page)

\* The query returns a page ordered by key.
InOrder(S) ==
  CHOOSE ks \in [1..Cardinality(S) -> S] : \A i, j \in DOMAIN ks : i < j => ks[i] < ks[j]

\* Mutant: the highest version stands for the skill, pre-release or not.
HighestEntries(ks) == [i \in DOMAIN ks |-> [skill |-> ks[i], version |-> Max(Listed(ks[i]))]]

Entries(ks) == [i \in DOMAIN ks |-> [skill |-> ks[i], version |-> Best(Listed(ks[i]))]]

-----------------------------------------------------------------------------
Start ==
  /\ pc = "idle"
  /\ pc' = "page"
  /\ mode' \in Modes
  /\ seen' = [k \in Skills |-> {Latest(rows, k)}]
  /\ UNCHANGED <<rows, cursor, todo, meta, found, faults>>

\* The last page ends the listing; the gateway's references are resolved
\* then, one by one.
AfterPage == IF NextCursor # None THEN "page"
             ELSE IF mode = "gateway" THEN "meta" ELSE "done"

ReadPage ==
  /\ pc = "page"
  /\ cursor' = NextCursor
  /\ IF mode = "mcp"
     THEN /\ todo' = InOrder(Page)
          /\ pc' = "load"
          /\ UNCHANGED found
     ELSE /\ todo' = IF mode = "gateway" THEN todo \o InOrder(Page) ELSE todo
          /\ found' = IF mode = "list" THEN found \o Entries(InOrder(Page)) ELSE found
          /\ pc' = AfterPage
  /\ UNCHANGED <<rows, mode, meta, seen, faults>>

Add(v) == found' = Append(found, [skill |-> Head(todo), version |-> v])

\* skills/list loads every skill of the page and skips one that has vanished
\* since the query.
Load ==
  LET v == Latest(rows, Head(todo))
  IN
  /\ pc = "load"
  /\ todo # <<>>
  /\ IF v = None THEN UNCHANGED found ELSE Add(v)
  /\ todo' = Tail(todo)
  /\ UNCHANGED <<rows, pc, mode, cursor, meta, seen, faults>>

\* Any other error of loading a skill skips it as well.
LoadFails ==
  /\ pc = "load"
  /\ todo # <<>>
  /\ faults < MaxFaults
  /\ faults' = faults + 1
  /\ todo' = Tail(todo)
  /\ UNCHANGED <<rows, pc, mode, cursor, meta, found, seen>>

\* The page is answered; the client asks for the next one.
AnswerPage ==
  /\ pc = "load"
  /\ todo = <<>>
  /\ pc' = IF cursor = None THEN "done" ELSE "page"
  /\ UNCHANGED <<rows, mode, cursor, todo, meta, found, seen, faults>>

\* Gateway.Resolve, first request: what is `latest`?
GetMeta ==
  LET v == Latest(rows, Head(todo))
  IN
  /\ pc = "meta"
  /\ todo # <<>>
  /\ meta' = v
  /\ pc' = IF v = None THEN "failed" ELSE "bundle"
  /\ UNCHANGED <<rows, mode, cursor, todo, found, seen, faults>>

\* Mutant: the second request asks for `latest` again.
ServedLatest(k) == Latest(rows, k)

\* Second request: that version, which is served even when it has been
\* deprecated since.
Served(k) ==
  IF <<k, meta>> \in May /\ rows[<<k, meta>>] # "none" THEN meta ELSE None

\* The bundle's digest must be the one in the metadata.
GetBundle ==
  /\ pc = "bundle"
  /\ IF Served(Head(todo)) = meta
     THEN /\ Add(meta)
          /\ todo' = Tail(todo)
          /\ pc' = "meta"
     ELSE /\ pc' = "failed"
          /\ UNCHANGED <<found, todo>>
  /\ meta' = None
  /\ UNCHANGED <<rows, mode, cursor, seen, faults>>

ResolvedAll ==
  /\ pc = "meta"
  /\ todo = <<>>
  /\ pc' = "done"
  /\ UNCHANGED <<rows, mode, cursor, todo, meta, found, seen, faults>>

Leave ==
  /\ pc' = "idle"
  /\ cursor' = None /\ todo' = <<>> /\ meta' = None /\ found' = <<>>
  /\ seen' = [k \in Skills |-> {}]
  /\ UNCHANGED <<rows, mode>>

Finish == pc \in {"done", "failed"} /\ Leave /\ UNCHANGED faults

\* A request fails and ends the reading without a result.
Fail ==
  /\ pc \notin {"idle", "done", "failed"}
  /\ faults < MaxFaults
  /\ faults' = faults + 1
  /\ Leave

\* Other callers publish and deprecate.
Change(k, from, to) ==
  /\ rows[k] = from
  /\ rows' = [rows EXCEPT ![k] = to]
  /\ seen' = [s \in Skills |->
       IF pc = "idle" THEN {} ELSE seen[s] \cup {Latest(rows', s)}]
  /\ UNCHANGED <<readVars, faults>>

Publish(k) == Change(k, "none", "published")
Deprecate(k) == Change(k, "published", "deprecated")

Read == Start \/ ReadPage \/ Load \/ AnswerPage \/ GetMeta \/ GetBundle \/ ResolvedAll \/ Finish

Next == Read \/ LoadFails \/ Fail \/ \E k \in Keys : Publish(k) \/ Deprecate(k)

Spec == Init /\ [][Next]_vars

\* The server answers and the client asks for the next page.
FairSpec == Spec /\ WF_vars(Read)

-----------------------------------------------------------------------------
\* An entry has a version that was the caller's `latest` while the listing was
\* read: List agrees with Resolve (registry.go:142-144, 270-271).
ListsTheLatest ==
  \A i \in DOMAIN found : found[i].version \in seen[found[i].skill]

Missing == {k \in Skills : (\E v \in Versions : Sought(k, v))
                          /\ \A i \in DOMAIN found : found[i].skill # k}
Vanished == {k \in Skills : None \in seen[k]}

\* A listing is true of the time it took, although its pages are of different
\* catalogues: every skill is listed at most once and in order, and a skill
\* that is missing had no version for the caller meanwhile, unless loading it
\* failed in skills/list (registry.go:270-308, mcp.go:414-424).
ListingIsFaithful ==
  pc = "done" =>
    /\ \A i, j \in DOMAIN found : i < j => found[i].skill < found[j].skill
    /\ (mode = "mcp" => faults = 0) => Missing \subseteq Vanished

\* Only skills that have vanished are missing: "raced with a deprecation or
\* policy change", says the comment where they are skipped (mcp.go:421).
OnlyVanishedSkillsMissing == pc = "done" => Missing \subseteq Vanished

\* Fetching what was listed fails only over a skill that the caller lost in
\* the meantime: the two requests of Gateway.Resolve never mix two versions
\* (gateway.go:45-47).
OnlyVanishedSkillsFail == pc = "failed" => None \in seen[Head(todo)]

\* Whatever others publish and deprecate meanwhile, reading ends: every page
\* starts after the one before it (registry.go:290-306, gateway.go:30-42).
ReadingEnds == pc # "idle" ~> pc = "idle"
=============================================================================
