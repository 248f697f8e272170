------------------------------ MODULE HookRun -------------------------------
(***************************************************************************)
(* `sgw sync -hook` (cmd/sgw/hook.go, internal/hook/state.go): the run a   *)
(* session start triggers.  It is throttled by state.json, which all       *)
(* installs of a user share, and skips the sync when the source's          *)
(* fingerprint (internal/source/peek.go) is the one it recorded last time. *)
(* Every session is a process of its own.  The sync itself is one read and *)
(* one write here; module Sync takes it apart.                             *)
(*                                                                         *)
(* Time is abstract: a record is fresh until its interval has passed.  A   *)
(* fingerprint is the content it is computed from.                         *)
(***************************************************************************)
EXTENDS Naturals

CONSTANTS
  Kind,        \* "git", "dir" or "gateway"
  Reverts,     \* whether a source may offer again what it offered before
  Sessions,
  Installs,    \* a manifest and the root it is synced into
  Serves,      \* Serves[s]: the installs session s may run for
  Refs,        \* git refs of one repository, folders or gateways
  RefOf,       \* RefOf[k]: the ref that install k follows
  None,        \* nothing complete, no record
  MaxMoves,    \* bound on moves of the sources
  MaxManifests,\* bound on manifest changes
  MaxFailures, \* bound on syncs that fail
  MaxOutages   \* bound on unreachable sources and killed sessions

Content == Refs \X (0..MaxMoves)
Manifest == 0..MaxManifests
Installed == [content: Content, manifest: Manifest]
Run == [fresh: BOOLEAN, peek: Content \cup {None}]
State == [Installs -> Run \cup {None}]

ASSUME HookAssumption ==
  /\ Kind \in {"git", "dir", "gateway"}
  /\ Reverts \in BOOLEAN
  /\ Serves \in [Sessions -> (SUBSET Installs) \ {{}}]
  /\ RefOf \in [Installs -> Refs]
  /\ None \notin Content \cup Run \cup Installed
  /\ MaxMoves \in Nat /\ MaxManifests \in Nat /\ MaxFailures \in Nat
  /\ MaxOutages \in Nat

VARIABLES
  source,     \* what each ref holds now
  checkout,   \* what the work tree of the git cache holds
  manifest,   \* the version of each install's manifest
  installed,  \* what each install's root was last synced to
  state,      \* state.json
  torn,       \* state.json is truncated and not yet written
  pc, install, loaded, man, got, print,
  contacts,   \* history: checks of a source since its interval last passed
  moves, changes, failures, outages

sessionVars == <<pc, install, loaded, man, got, print>>
worldVars == <<source, manifest>>
countVars == <<moves, changes, failures, outages>>
vars == <<source, checkout, manifest, installed, state, torn, sessionVars,
          contacts, countVars>>

NoState == [k \in Installs |-> None]
AnyInstall == CHOOSE k \in Installs : TRUE

Steps == {"idle", "source", "peek", "read", "write", "truncate", "save"}

TypeOK ==
  /\ source \in [Refs -> Content]
  /\ checkout \in Content \cup {None}
  /\ manifest \in [Installs -> Manifest]
  /\ installed \in [Installs -> Installed \cup {None}]
  /\ state \in State
  /\ torn \in BOOLEAN
  /\ pc \in [Sessions -> Steps]
  /\ install \in [Sessions -> Installs]
  /\ loaded \in [Sessions -> State]
  /\ man \in [Sessions -> Manifest]
  /\ got \in [Sessions -> Content \cup {None}]
  /\ print \in [Sessions -> Content \cup {None}]
  /\ contacts \in [Installs -> 0..2]
  /\ moves \in 0..MaxMoves /\ changes \in 0..MaxManifests
  /\ failures \in 0..MaxFailures /\ outages \in 0..MaxOutages

Init ==
  /\ source = [r \in Refs |-> <<r, 0>>]
  /\ checkout = None
  /\ manifest = [k \in Installs |-> 0]
  /\ installed = [k \in Installs |-> None]
  /\ state = NoState
  /\ torn = FALSE
  /\ pc = [s \in Sessions |-> "idle"]
  /\ install = [s \in Sessions |-> AnyInstall]
  /\ loaded = [s \in Sessions |-> NoState]
  /\ man = [s \in Sessions |-> 0]
  /\ got = [s \in Sessions |-> None]
  /\ print = [s \in Sessions |-> None]
  /\ contacts = [k \in Installs |-> 0]
  /\ moves = 0 /\ changes = 0 /\ failures = 0 /\ outages = 0

Goto(s, step) == pc' = [pc EXCEPT ![s] = step]

\* The process exits.
Exit(s) ==
  /\ Goto(s, "idle")
  /\ install' = [install EXCEPT ![s] = AnyInstall]
  /\ loaded' = [loaded EXCEPT ![s] = NoState]
  /\ man' = [man EXCEPT ![s] = 0]
  /\ got' = [got EXCEPT ![s] = None]
  /\ print' = [print EXCEPT ![s] = None]

Ref(s) == RefOf[install[s]]

\* The fingerprint recorded last time, if there is one.
Previous(s) == IF loaded[s][install[s]] = None THEN None ELSE loaded[s][install[s]].peek

\* The source is asked something over the network or scanned.
Contact(s) ==
  contacts' = [contacts EXCEPT ![install[s]] = IF @ < 2 THEN @ + 1 ELSE @]

-----------------------------------------------------------------------------
(* One run.                                                                *)

Due(st, k) == st[k] # None => ~st[k].fresh

\* A state file that does not parse is an empty state.
Load == IF torn THEN NoState ELSE state

\* The session loads the manifest and the state; if the run is not due it
\* ends at once.
Start(s, k) ==
  /\ pc[s] = "idle"
  /\ k \in Serves[s]
  /\ Due(Load, k)
  /\ install' = [install EXCEPT ![s] = k]
  /\ loaded' = [loaded EXCEPT ![s] = Load]
  /\ man' = [man EXCEPT ![s] = manifest[k]]
  /\ Goto(s, "source")
  /\ UNCHANGED <<got, print, worldVars, checkout, installed, state, torn, contacts, countVars>>

\* Mutant: the cache is cloned once and not fetched or checked out again.
OpenSourceOnce(s) ==
  /\ pc[s] = "source"
  /\ Contact(s)
  /\ checkout' = IF checkout = None THEN source[Ref(s)] ELSE checkout
  /\ Goto(s, "peek")
  /\ UNCHANGED <<install, loaded, man, got, print, worldVars, installed, state, torn, countVars>>

\* Building the source: NewGit fetches and checks the ref out in the cache
\* that all installs from one repository share; the others do nothing yet.
OpenSource(s) ==
  /\ pc[s] = "source"
  /\ IF Kind = "git"
     THEN Contact(s) /\ checkout' = source[Ref(s)]
     ELSE UNCHANGED <<contacts, checkout>>
  /\ Goto(s, "peek")
  /\ UNCHANGED <<install, loaded, man, got, print, worldVars, installed, state, torn, countVars>>

\* The fingerprint of what the source offers now decides whether to sync.
\* For git it asks the remote, not the cache; one run is one check.
Peek(s) ==
  LET now == source[Ref(s)]
  IN
  /\ pc[s] = "peek"
  /\ IF Kind = "git" THEN UNCHANGED contacts ELSE Contact(s)
  /\ print' = [print EXCEPT ![s] = now]
  /\ Goto(s, IF now = Previous(s) THEN "truncate" ELSE "read")
  /\ UNCHANGED <<install, loaded, man, got, worldVars, checkout, installed, state, torn, countVars>>

\* Sync reads every skill before it writes any: from the checkout, the
\* folder or the gateway as it is by then.
SyncRead(s) ==
  /\ pc[s] = "read"
  /\ got' = [got EXCEPT ![s] = IF Kind = "git" THEN checkout ELSE source[Ref(s)]]
  /\ Goto(s, "write")
  /\ UNCHANGED <<install, loaded, man, print, worldVars, checkout, installed, state, torn,
                 contacts, countVars>>

Planned(s) == [content |-> got[s], manifest |-> man[s]]

SyncWrite(s) ==
  /\ pc[s] = "write"
  /\ installed' = [installed EXCEPT ![install[s]] = Planned(s)]
  /\ Goto(s, "truncate")
  /\ UNCHANGED <<install, loaded, man, got, print, worldVars, checkout, state, torn,
                 contacts, countVars>>

\* Writing stops midway; files that were there already are as they were.
Interrupted(s) ==
  installed' = [installed EXCEPT ![install[s]] = IF @ = Planned(s) THEN @ ELSE None]

\* A sync that fails before or amid its writes.
Broken(s) ==
  /\ failures < MaxFailures
  /\ failures' = failures + 1
  /\ \/ pc[s] = "read" /\ UNCHANGED installed
     \/ pc[s] = "write" /\ Interrupted(s)

\* Mutant: a failed sync records the fingerprint it failed on.
SyncFailsForgotten(s) ==
  /\ Broken(s)
  /\ Goto(s, "truncate")
  /\ UNCHANGED <<install, loaded, man, got, print, worldVars, checkout, state, torn, contacts,
                 moves, changes, outages>>

\* Mutant: a failed sync is not recorded.
SyncFailsUnrecorded(s) ==
  /\ Broken(s)
  /\ Exit(s)
  /\ UNCHANGED <<worldVars, checkout, state, torn, contacts, moves, changes, outages>>

\* A failed sync keeps the old fingerprint, so that the next due session
\* retries, and the throttle.
SyncFails(s) ==
  /\ Broken(s)
  /\ print' = [print EXCEPT ![s] = Previous(s)]
  /\ Goto(s, "truncate")
  /\ UNCHANGED <<install, loaded, man, got, worldVars, checkout, state, torn, contacts,
                 moves, changes, outages>>

\* Save: WriteFile truncates the file, then writes the state that was loaded
\* at the start with this run's record in it.
SaveTruncates(s) ==
  /\ pc[s] = "truncate"
  /\ torn' = TRUE
  /\ Goto(s, "save")
  /\ UNCHANGED <<install, loaded, man, got, print, worldVars, checkout, installed, state,
                 contacts, countVars>>

SaveWrites(s) ==
  /\ pc[s] = "save"
  /\ state' = [loaded[s] EXCEPT ![install[s]] = [fresh |-> TRUE, peek |-> print[s]]]
  /\ torn' = FALSE
  /\ Exit(s)
  /\ UNCHANGED <<worldVars, checkout, installed, contacts, countVars>>

\* The source cannot be reached, or the process is killed: the run ends
\* without a record.
Outage(s) ==
  /\ pc[s] # "idle"
  /\ outages < MaxOutages
  /\ outages' = outages + 1
  /\ IF pc[s] = IF Kind = "git" THEN "source" ELSE "peek"
     THEN Contact(s) ELSE UNCHANGED contacts
  /\ IF pc[s] = "write" THEN Interrupted(s) ELSE UNCHANGED installed
  /\ Exit(s)
  /\ UNCHANGED <<worldVars, checkout, state, torn, moves, changes, failures>>

-----------------------------------------------------------------------------
(* The world.                                                              *)

SourceMoves(r) ==
  /\ moves < MaxMoves
  /\ moves' = moves + 1
  /\ \E n \in 0..MaxMoves :
       /\ n # source[r][2]
       /\ Reverts \/ n = source[r][2] + 1
       /\ source' = [source EXCEPT ![r] = <<r, n>>]
  /\ UNCHANGED <<manifest, checkout, installed, state, torn, sessionVars, contacts,
                 changes, failures, outages>>

\* The developer edits the list of skills or formats.
ChangeManifest(k) ==
  /\ changes < MaxManifests
  /\ changes' = changes + 1
  /\ manifest' = [manifest EXCEPT ![k] = changes + 1]
  /\ UNCHANGED <<source, checkout, installed, state, torn, sessionVars, contacts,
                 moves, failures, outages>>

Stale(st, k) == [st EXCEPT ![k] = IF @ = None THEN None ELSE [@ EXCEPT !.fresh = FALSE]]

\* More than the interval passes since the last record of install k, in the
\* file and in the copies that sessions hold.
Elapse(k) ==
  /\ \/ state[k] # None /\ state[k].fresh
     \/ \E s \in Sessions : loaded[s][k] # None /\ loaded[s][k].fresh
     \/ contacts[k] > 0
  /\ state' = Stale(state, k)
  /\ loaded' = [s \in Sessions |-> Stale(loaded[s], k)]
  /\ contacts' = [contacts EXCEPT ![k] = 0]
  /\ UNCHANGED <<worldVars, checkout, installed, torn, pc, install, man, got, print,
                 moves, changes, failures, outages>>

Go(s) ==
  \/ OpenSource(s) \/ Peek(s) \/ SyncRead(s) \/ SyncWrite(s)
  \/ SaveTruncates(s) \/ SaveWrites(s)

Next ==
  \/ \E s \in Sessions : Go(s) \/ SyncFails(s) \/ Outage(s)
  \/ \E s \in Sessions, k \in Installs : Start(s, k)
  \/ \E r \in Refs : SourceMoves(r)
  \/ \E k \in Installs : ChangeManifest(k) \/ Elapse(k)

Spec == Init /\ [][Next]_vars

\* Sessions keep starting, a process that runs makes progress, and intervals
\* pass.
FairSpec ==
  /\ Spec
  /\ \A s \in Sessions : WF_vars(Go(s))
  /\ \A s \in Sessions, k \in Installs : WF_vars(Start(s, k))
  /\ \A k \in Installs : WF_vars(Elapse(k))

-----------------------------------------------------------------------------
Current(k) ==
  installed[k] = [content |-> source[RefOf[k]], manifest |-> manifest[k]]

\* A caller that holds the fingerprint of last time knows there is no work to
\* do (peek.go:14-15): an install whose recorded fingerprint is the source's
\* holds what the source offers, as the manifest wants it.
NothingToDo ==
  \A k \in Installs :
    state[k] # None /\ state[k].peek = source[RefOf[k]] => Current(k)

\* At most one check of the source per interval and install (README.md:186,
\* hook.go:203-206, 222-225).
Throttled == \A k \in Installs : contacts[k] <= 1

\* An install holds content of the ref it follows, although installs share
\* one checkout per repository (git.go:65-66, 97-98).
OwnRefOnly ==
  \A k \in Installs : installed[k] # None => installed[k].content[1] = RefOf[k]

\* Once the sources stop moving, sessions bring every install up to date, in
\* spite of failed syncs, unreachable sources, killed sessions and records
\* that sessions of other installs overwrite (hook.go:219-227).
Converges == \A k \in Installs : <>[]Current(k)
=============================================================================
