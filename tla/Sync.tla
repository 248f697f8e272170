-------------------------------- MODULE Sync --------------------------------
(***************************************************************************)
(* The sync engine of sgw (internal/syncer/syncer.go): it installs the     *)
(* skills a manifest names into a project, keeps edited files, removes     *)
(* stale ones and records what it wrote in sgw-lock.json.  Every run is a  *)
(* process of its own (a session hook, a manual `sgw sync`, an `sgw        *)
(* fetch`), so each file-system call is a step that other runs and the     *)
(* developer may interleave with.  A bundle's digest is its content: two   *)
(* contents hash alike only when they are equal.                           *)
(***************************************************************************)
EXTENDS Naturals, FiniteSets

CONSTANTS
  Syncs,         \* the runs that may be in flight at once
  Sources,       \* what Describe() names: folders, git refs, gateways
  Fixed,         \* the sources with Fixed() = true (git tag or commit)
  Pinnable,      \* the sources with Pinnable() = true (Fixed and gateways)
  Refs,          \* skill references, as a manifest writes them
  Versions,
  Contents,      \* bundle contents, and so also digests
  Bundles,       \* Bundles[x]: what source x may serve for a reference
  FirstOffers,   \* what every source serves at the start
  Paths,         \* output paths of the translators
  Unsafe,        \* the paths safeJoin refuses
  Out,           \* Out[r][c][p]: the data content c of skill r has at path p
  Data,          \* what translators write
  Edits,         \* what the developer writes
  Manifests,     \* the manifests the developer may choose between
  None,          \* no file, no lock entry, nothing served
  Empty,         \* a file that was opened for writing and has nothing yet
  Torn,          \* a file with a part of what was to be written, or a mixture
  ForceOptions,  \* the values -force may have
  Fetchable,     \* the skills `sgw fetch` may write into the same project
  Sealable,      \* the paths whose files may become unreadable
  RacingEdits,   \* whether the developer edits while a run is in flight
  MaxMoves,      \* bound on source and manifest changes
  MaxEdits,      \* bound on developer edits
  MaxFaults      \* bound on crashes, I/O errors and network errors, and on
                 \* the files that become unreadable

Bundle == [version: Versions, digest: Contents, content: Contents]
FileMap == [Paths -> Data \cup {None}]
Entry == [source: Sources, version: Versions, digest: Contents, files: FileMap]
Lock == [Refs -> Entry \cup {None}]
Manifest == [source: Sources, star: BOOLEAN, skills: SUBSET Refs]

ASSUME NoneAssumption ==
  /\ None \notin Data \cup Edits \cup Entry \cup Bundle
  /\ None \notin Lock \cup Paths
ASSUME DataAssumption == Data \cap Edits = {}
\* What is cut short or mixed hashes like nothing else and is not JSON.
Broken == {Empty, Torn}
ASSUME BrokenAssumption ==
  \A x \in Broken : x \notin Data \cup Edits /\ x \notin Lock /\ x # None
ASSUME SourceAssumption ==
  /\ Fixed \subseteq Pinnable
  /\ Pinnable \subseteq Sources
  /\ Bundles \in [Sources -> SUBSET Bundle]
  /\ FirstOffers \in [Sources -> [Refs -> Bundle \cup {None}]]
  /\ \A x \in Sources : \A r \in Refs :
       FirstOffers[x][r] \in Bundles[x] \cup {None}
\* Out[r] is defined for the contents that parse and translate as skill r.
ASSUME OutAssumption ==
  /\ DOMAIN Out = Refs
  /\ \A r \in Refs : /\ DOMAIN Out[r] \subseteq Contents
                     /\ \A c \in DOMAIN Out[r] : Out[r][c] \in FileMap
ASSUME ProjectAssumption ==
  /\ Unsafe \subseteq Paths
  /\ Sealable \subseteq Paths
  /\ Manifests \subseteq Manifest
  /\ Manifests # {}
  /\ ForceOptions \subseteq BOOLEAN
  /\ Fetchable \subseteq Refs
  /\ RacingEdits \in BOOLEAN
  /\ MaxMoves \in Nat /\ MaxEdits \in Nat /\ MaxFaults \in Nat

VARIABLES
  offers,    \* what each source serves now
  manifest,  \* sgw-sync.yaml
  disk,      \* the project's files
  temp,      \* the .sgw-tmp file beside each path, shared by all runs
  lock,      \* sgw-lock.json
  lockTemp,  \* sgw-lock.json.sgw-tmp
  author,    \* history: who wrote the file now at a path
  unreadable,\* the files that cannot be read: permissions, a lock, the disk
  fd,        \* where the file a run has open for writing is by now
  pc, man, wanted, old, plan, out, todo, cur, kept, force, blind, mode,
  moves, edits, faults

runVars == <<pc, man, wanted, old, plan, out, todo, cur, kept, force, blind, mode>>
fileVars == <<disk, temp, lock, lockTemp, author, unreadable, fd>>
worldVars == <<offers, manifest>>
countVars == <<moves, edits, faults>>
vars == <<offers, manifest, disk, temp, lock, lockTemp, author, unreadable, fd, pc, man, wanted,
          old, plan, out, todo, cur, kept, force, blind, mode, moves, edits, faults>>

NoLock == [r \in Refs |-> None]
NoFiles == [p \in Paths |-> None]

\* The hashes a lock records for path p: `written` in SyncWith.
Recorded(l, p) ==
  {l[r].files[p] : r \in {q \in Refs : l[q] # None}} \ {None}

\* The steps of a run, in the order SyncWith takes them.
Preparing == {"readLock", "refs", "prepare"}
Writing == {"check", "temp", "fill", "rename"}
Finishing == {"stale", "remove", "fillLock", "commit"}
Steps == {"idle"} \cup Preparing \cup Writing \cup Finishing

TypeOK ==
  /\ offers \in [Sources -> [Refs -> Bundle \cup {None}]]
  /\ manifest \in Manifest
  /\ disk \in [Paths -> Data \cup Edits \cup {None} \cup Broken]
  /\ temp \in [Paths -> Data \cup {None} \cup Broken]
  /\ lock \in Lock \cup Broken
  /\ lockTemp \in Lock \cup {None} \cup Broken
  /\ author \in [Paths -> {"none", "sync", "edit", "raced"}]
  /\ unreadable \in SUBSET Paths
  /\ fd \in [Syncs -> {"temp", "placed", "gone"}]
  /\ pc \in [Syncs -> Steps]
  /\ man \in [Syncs -> Manifest]
  /\ wanted \in [Syncs -> SUBSET Refs]
  /\ old \in [Syncs -> Lock]
  /\ plan \in [Syncs -> Lock]
  /\ out \in [Syncs -> FileMap]
  /\ todo \in [Syncs -> SUBSET Paths]
  /\ cur \in [Syncs -> Paths \cup {None}]
  /\ kept \in [Syncs -> SUBSET Paths]
  /\ force \in [Syncs -> BOOLEAN]
  /\ blind \in [Syncs -> BOOLEAN]
  /\ mode \in [Syncs -> {"sync", "fetch"}]
  /\ moves \in 0..MaxMoves
  /\ edits \in 0..MaxEdits
  /\ faults \in 0..MaxFaults

NoManifest == CHOOSE m \in Manifests : TRUE

Init ==
  /\ offers = FirstOffers
  /\ manifest \in Manifests
  /\ disk = NoFiles
  /\ temp = NoFiles
  /\ lock = NoLock
  /\ lockTemp = None
  /\ author = [p \in Paths |-> "none"]
  /\ unreadable = {}
  /\ fd = [s \in Syncs |-> "temp"]
  /\ pc = [s \in Syncs |-> "idle"]
  /\ man = [s \in Syncs |-> NoManifest]
  /\ wanted = [s \in Syncs |-> {}]
  /\ old = [s \in Syncs |-> NoLock]
  /\ plan = [s \in Syncs |-> NoLock]
  /\ out = [s \in Syncs |-> NoFiles]
  /\ todo = [s \in Syncs |-> {}]
  /\ cur = [s \in Syncs |-> None]
  /\ kept = [s \in Syncs |-> {}]
  /\ force = [s \in Syncs |-> FALSE]
  /\ blind = [s \in Syncs |-> FALSE]
  /\ mode = [s \in Syncs |-> "sync"]
  /\ moves = 0 /\ edits = 0 /\ faults = 0

-----------------------------------------------------------------------------
(* Starting a run.                                                         *)

\* `sgw sync`, by hand or by the session hook: load the manifest, build its
\* source.
Start(s) ==
  /\ pc[s] = "idle"
  /\ pc' = [pc EXCEPT ![s] = "readLock"]
  /\ man' = [man EXCEPT ![s] = manifest]
  /\ \E f \in ForceOptions : force' = [force EXCEPT ![s] = f]
  /\ mode' = [mode EXCEPT ![s] = "sync"]
  /\ UNCHANGED <<wanted, old, plan, out, todo, cur, kept, blind>>
  /\ UNCHANGED <<fileVars, worldVars, countVars>>

\* `sgw fetch`: Install prepares one reference with no pin and writes with
\* force, without looking at the lock.
StartFetch(s) ==
  /\ pc[s] = "idle"
  /\ pc' = [pc EXCEPT ![s] = "prepare"]
  /\ \E x \in Sources, r \in Fetchable :
       /\ man' = [man EXCEPT ![s] = [source |-> x, star |-> FALSE, skills |-> {r}]]
       /\ wanted' = [wanted EXCEPT ![s] = {r}]
  /\ force' = [force EXCEPT ![s] = TRUE]
  /\ mode' = [mode EXCEPT ![s] = "fetch"]
  /\ UNCHANGED <<old, plan, out, todo, cur, kept, blind>>
  /\ UNCHANGED <<fileVars, worldVars, countVars>>

\* A run that returns, with or without an error, leaves nothing behind in
\* memory.
Return(s) ==
  /\ pc' = [pc EXCEPT ![s] = "idle"]
  /\ man' = [man EXCEPT ![s] = NoManifest]
  /\ wanted' = [wanted EXCEPT ![s] = {}]
  /\ old' = [old EXCEPT ![s] = NoLock]
  /\ plan' = [plan EXCEPT ![s] = NoLock]
  /\ out' = [out EXCEPT ![s] = NoFiles]
  /\ todo' = [todo EXCEPT ![s] = {}]
  /\ cur' = [cur EXCEPT ![s] = None]
  /\ kept' = [kept EXCEPT ![s] = {}]
  /\ force' = [force EXCEPT ![s] = FALSE]
  /\ blind' = [blind EXCEPT ![s] = FALSE]
  /\ mode' = [mode EXCEPT ![s] = "sync"]

\* A lock that is empty or torn does not parse and ends the run.
ReadLock(s) ==
  /\ pc[s] = "readLock"
  /\ IF lock \in Broken
     THEN Return(s)
     ELSE /\ pc' = [pc EXCEPT ![s] = "refs"]
          /\ old' = [old EXCEPT ![s] = lock]
          /\ UNCHANGED <<man, wanted, plan, out, todo, cur, kept, force, blind, mode>>
  /\ UNCHANGED <<fileVars, worldVars, countVars>>

\* "*" is everything the source offers; an empty offer is an error.
Listed(s) ==
  IF man[s].star THEN {r \in Refs : offers[man[s].source][r] # None}
                 ELSE man[s].skills

ListRefs(s) ==
  /\ pc[s] = "refs"
  /\ IF Listed(s) = {}
     THEN Return(s)
     ELSE /\ pc' = [pc EXCEPT ![s] = "prepare"]
          /\ wanted' = [wanted EXCEPT ![s] = Listed(s)]
          /\ man' = [man EXCEPT ![s].skills = Listed(s)]
          /\ UNCHANGED <<old, plan, out, todo, cur, kept, force, blind, mode>>
  /\ UNCHANGED <<fileVars, worldVars, countVars>>

-----------------------------------------------------------------------------
(* Preparing: fetch, verify and translate every skill before any write.    *)

\* Mutant: the digest is not recomputed.
VerifiedNever(b) == b.digest \in Contents

\* The files a source delivers hash to the digest it announced.
Verified(b) == b.digest = b.content

\* A fixed source must keep resolving to the recorded version.
FixedPinHolds(pin, x, b) ==
  pin # None /\ x \in Fixed /\ pin.source = x => pin.version = b.version

\* Mutant: gateways are not pinned.
DigestPinHoldsIfFixed(pin, x, b) ==
  pin # None /\ x \in Fixed /\ pin.version = b.version
    => pin.digest = b.content

\* A recorded version of an immutable source must keep its digest.
DigestPinHolds(pin, x, b) ==
  pin # None /\ x \in Pinnable /\ pin.version = b.version
    => pin.digest = b.content

\* prepare succeeds: the skill resolves, its files match its digest, the pin
\* agrees and the content parses and translates.
Acceptable(s, r, b) ==
  /\ b # None
  /\ Verified(b)
  /\ FixedPinHolds(old[s][r], man[s].source, b)
  /\ DigestPinHolds(old[s][r], man[s].source, b)
  /\ b.content \in DOMAIN Out[r]

\* Mutant: no collision check.
CollidesNever(s, files) == FALSE

\* Two skills may not write one path.
Collides(s, files) == \E p \in Paths : files[p] # None /\ out[s][p] # None

Merge(a, b) == [p \in Paths |-> IF b[p] # None THEN b[p] ELSE a[p]]

Prepare(s, r) ==
  LET x == man[s].source
      b == offers[x][r]
      files == Out[r][b.content]
  IN
  /\ pc[s] = "prepare"
  /\ r \in wanted[s]
  /\ wanted' = [wanted EXCEPT ![s] = @ \ {r}]
  /\ Acceptable(s, r, b)
  /\ ~Collides(s, files)
  /\ plan' = [plan EXCEPT ![s][r] = [source |-> x, version |-> b.version,
                                     digest |-> b.content, files |-> files]]
  /\ out' = [out EXCEPT ![s] = Merge(@, files)]
  /\ UNCHANGED <<pc, man, old, todo, cur, kept, force, blind, mode>>
  /\ UNCHANGED <<fileVars, worldVars, countVars>>

\* Any refusal ends the whole run before anything is written.
PrepareFails(s, r) ==
  LET b == offers[man[s].source][r]
  IN
  /\ pc[s] = "prepare"
  /\ r \in wanted[s]
  /\ Acceptable(s, r, b) => Collides(s, Out[r][b.content])
  /\ Return(s)
  /\ UNCHANGED <<fileVars, worldVars, countVars>>

\* Mutant: writing starts while skills are still to be prepared.
BeginWriteEarly(s) ==
  /\ pc[s] = "prepare"
  /\ pc' = [pc EXCEPT ![s] = "check"]
  /\ todo' = [todo EXCEPT ![s] = {p \in Paths : out[s][p] # None} \ Unsafe]
  /\ UNCHANGED <<man, wanted, old, plan, out, cur, kept, force, blind, mode>>
  /\ UNCHANGED <<fileVars, worldVars, countVars>>

\* Mutant: output paths are not validated.
BeginWriteUnchecked(s) ==
  /\ pc[s] = "prepare"
  /\ wanted[s] = {}
  /\ pc' = [pc EXCEPT ![s] = "check"]
  /\ todo' = [todo EXCEPT ![s] = {p \in Paths : out[s][p] # None}]
  /\ UNCHANGED <<man, wanted, old, plan, out, cur, kept, force, blind, mode>>
  /\ UNCHANGED <<fileVars, worldVars, countVars>>

\* Every path is validated before the disk is touched.
BeginWrite(s) ==
  /\ pc[s] = "prepare"
  /\ wanted[s] = {}
  /\ LET planned == {p \in Paths : out[s][p] # None}
     IN IF planned \cap Unsafe # {}
        THEN Return(s)
        ELSE /\ pc' = [pc EXCEPT ![s] = "check"]
             /\ todo' = [todo EXCEPT ![s] = planned]
             /\ UNCHANGED <<man, wanted, old, plan, out, cur, kept, force, blind, mode>>
  /\ UNCHANGED <<fileVars, worldVars, countVars>>

-----------------------------------------------------------------------------
(* writeAll: per file, look for a local edit, open and fill the .sgw-tmp   *)
(* file and rename it into place.                                          *)

\* Mutant: a recorded hash on disk counts as an edit.
LocallyEditedIgnoringLock(s, p) ==
  /\ Recorded(old[s], p) # {}
  /\ disk[p] # None /\ p \notin unreadable
  /\ disk[p] # out[s][p]

\* Mutant: a file that is gone counts as an edit.
LocallyEditedWhenGone(s, p) ==
  /\ Recorded(old[s], p) # {}
  /\ p \notin unreadable
  /\ disk[p] \notin Recorded(old[s], p)
  /\ disk[p] # out[s][p]

\* The file differs both from what sync recorded and from what it brings; a
\* file sync never recorded is adopted, and one that is gone or cannot be read
\* is rewritten.
LocallyEdited(s, p) ==
  /\ Recorded(old[s], p) # {}
  /\ disk[p] # None /\ p \notin unreadable
  /\ disk[p] \notin Recorded(old[s], p)
  /\ disk[p] # out[s][p]

KeepEdited(s, p) ==
  /\ pc[s] = "check"
  /\ p \in todo[s]
  /\ ~force[s] /\ LocallyEdited(s, p)
  /\ kept' = [kept EXCEPT ![s] = @ \cup {p}]
  /\ todo' = [todo EXCEPT ![s] = @ \ {p}]
  /\ UNCHANGED <<pc, man, wanted, old, plan, out, cur, force, blind, mode>>
  /\ UNCHANGED <<fileVars, worldVars, countVars>>

ChooseWrite(s, p) ==
  /\ pc[s] = "check"
  /\ p \in todo[s]
  /\ force[s] \/ ~LocallyEdited(s, p)
  /\ pc' = [pc EXCEPT ![s] = "temp"]
  /\ cur' = [cur EXCEPT ![s] = p]
  /\ blind' = [blind EXCEPT ![s] = ~force[s] /\ p \in unreadable]
  /\ UNCHANGED <<man, wanted, old, plan, out, todo, kept, force, mode>>
  /\ UNCHANGED <<fileVars, worldVars, countVars>>

\* r.WriteFile creates or empties the .sgw-tmp file before it writes: two
\* calls, between which the file may be another run's as well.
OpenTemp(s) ==
  /\ pc[s] = "temp"
  /\ pc' = [pc EXCEPT ![s] = "fill"]
  /\ temp' = [temp EXCEPT ![cur[s]] = Empty]
  /\ fd' = [fd EXCEPT ![s] = "temp"]
  /\ UNCHANGED <<man, wanted, old, plan, out, todo, cur, kept, force, blind, mode>>
  /\ UNCHANGED <<disk, lock, lockTemp, author, unreadable, worldVars, countVars>>

\* What a file holds after a write from its start: the rest of anything that
\* was longer stays behind the new data.
Over(was, new) == IF was \in {Empty, new} THEN {new} ELSE {new, Torn}

\* The file a run has open may by now be in place, and one whose name
\* another file has taken is nobody's.
Opened(s) == CASE fd[s] = "temp"   -> temp[cur[s]]
               [] fd[s] = "placed" -> disk[cur[s]]
               [] fd[s] = "gone"   -> Empty

PutInto(s, d) ==
  /\ temp' = IF fd[s] = "temp" THEN [temp EXCEPT ![cur[s]] = d] ELSE temp
  /\ disk' = IF fd[s] = "placed" THEN [disk EXCEPT ![cur[s]] = d] ELSE disk

FillTemp(s) ==
  /\ pc[s] = "fill"
  /\ pc' = [pc EXCEPT ![s] = "rename"]
  /\ \E d \in Over(Opened(s), out[s][cur[s]]) : PutInto(s, d)
  /\ UNCHANGED <<man, wanted, old, plan, out, todo, cur, kept, force, blind, mode>>
  /\ UNCHANGED <<lock, lockTemp, author, unreadable, fd, worldVars, countVars>>

\* A rename takes the open files along, and puts those out of place that had
\* the name before; so does a removal, or a save of the developer's.
Renamed(runs) == [t \in Syncs |->
  IF t \notin runs THEN fd[t] ELSE IF fd[t] = "temp" THEN "placed" ELSE "gone"]
Unlinked(runs) == [t \in Syncs |->
  IF t \in runs /\ fd[t] = "placed" THEN "gone" ELSE fd[t]]

Filling(p) == {t \in Syncs : pc[t] = "fill" /\ cur[t] = p}
FillingLock == {t \in Syncs : pc[t] = "fillLock"}

\* The rename moves whatever the .sgw-tmp file holds by now, which another
\* run may have replaced or emptied; it fails when another run has already
\* moved it.
Rename(s) ==
  /\ pc[s] = "rename"
  /\ IF temp[cur[s]] = None
     THEN /\ Return(s)
          /\ UNCHANGED fileVars
     ELSE /\ disk' = [disk EXCEPT ![cur[s]] = temp[cur[s]]]
          /\ temp' = [temp EXCEPT ![cur[s]] = None]
          /\ author' = [author EXCEPT ![cur[s]] = "sync"]
          /\ unreadable' = unreadable \ {cur[s]}
          /\ fd' = Renamed(Filling(cur[s]))
          /\ pc' = [pc EXCEPT ![s] = "check"]
          /\ todo' = [todo EXCEPT ![s] = @ \ {cur[s]}]
          /\ cur' = [cur EXCEPT ![s] = None]
          /\ blind' = [blind EXCEPT ![s] = FALSE]
          /\ UNCHANGED <<man, wanted, old, plan, out, kept, force, mode>>
          /\ UNCHANGED <<lock, lockTemp>>
  /\ UNCHANGED <<worldVars, countVars>>

\* Mutant: only skills that leave have stale files.
StaleFilesOfLeavers(s) ==
  {p \in Paths : \E r \in Refs : /\ old[s][r] # None /\ plan[s][r] = None
                               /\ old[s][r].files[p] # None}

\* The files the old lock records and this sync no longer produces.
StaleFiles(s) == {p \in Paths : Recorded(old[s], p) # {} /\ out[s][p] = None}

\* Mutant: files that are still to be written do not hold up the lock.
EndWriteEarly(s) ==
  /\ pc[s] = "check"
  /\ pc' = [pc EXCEPT ![s] = "stale"]
  /\ todo' = [todo EXCEPT ![s] = StaleFiles(s)]
  /\ UNCHANGED <<man, wanted, old, plan, out, cur, kept, force, blind, mode>>
  /\ UNCHANGED <<fileVars, worldVars, countVars>>

\* writeAll is done: a fetch returns, a sync goes on to the stale files.
EndWrite(s) ==
  /\ pc[s] = "check"
  /\ todo[s] = {}
  /\ IF mode[s] = "fetch"
     THEN Return(s)
     ELSE /\ pc' = [pc EXCEPT ![s] = "stale"]
          /\ todo' = [todo EXCEPT ![s] = StaleFiles(s)]
          /\ UNCHANGED <<man, wanted, old, plan, out, cur, kept, force, blind, mode>>
  /\ UNCHANGED <<fileVars, worldVars, countVars>>

-----------------------------------------------------------------------------
(* Removing stale files and writing the lock.                              *)

\* Mutant: stale files are removed without a look at their hash.
UnchangedIfThere(s, p) == disk[p] # None

\* The file can be read and still has a hash sync recorded for it.
Unchanged(s, p) == p \notin unreadable /\ disk[p] \in Recorded(old[s], p)

\* A stale file that is unchanged is removed next; one that is gone, was
\* modified, cannot be read or has an unsafe path is passed over.
CheckStale(s, p) ==
  /\ pc[s] = "stale"
  /\ p \in todo[s]
  /\ IF p \notin Unsafe /\ Unchanged(s, p)
     THEN /\ pc' = [pc EXCEPT ![s] = "remove"]
          /\ cur' = [cur EXCEPT ![s] = p]
          /\ UNCHANGED todo
     ELSE /\ todo' = [todo EXCEPT ![s] = @ \ {p}]
          /\ UNCHANGED <<pc, cur>>
  /\ UNCHANGED <<man, wanted, old, plan, out, kept, force, blind, mode>>
  /\ UNCHANGED <<fileVars, worldVars, countVars>>

\* The file is removed, whatever it holds by now; a failing remove is
\* ignored.
Remove(s) ==
  /\ pc[s] = "remove"
  /\ \/ /\ disk' = [disk EXCEPT ![cur[s]] = None]
        /\ author' = [author EXCEPT ![cur[s]] = "none"]
        /\ unreadable' = unreadable \ {cur[s]}
        /\ fd' = Unlinked(Filling(cur[s]))
        /\ UNCHANGED faults
     \/ /\ faults < MaxFaults
        /\ faults' = faults + 1
        /\ UNCHANGED <<disk, author, unreadable, fd>>
  /\ pc' = [pc EXCEPT ![s] = "stale"]
  /\ todo' = [todo EXCEPT ![s] = @ \ {cur[s]}]
  /\ cur' = [cur EXCEPT ![s] = None]
  /\ UNCHANGED <<man, wanted, old, plan, out, kept, force, blind, mode>>
  /\ UNCHANGED <<temp, lock, lockTemp, worldVars, moves, edits>>

\* The lock is written like every other file: sgw-lock.json.sgw-tmp is
\* emptied, filled and renamed.
SaveLock(s) ==
  /\ pc[s] = "stale"
  /\ todo[s] = {}
  /\ pc' = [pc EXCEPT ![s] = "fillLock"]
  /\ lockTemp' = Empty
  /\ fd' = [fd EXCEPT ![s] = "temp"]
  /\ UNCHANGED <<man, wanted, old, plan, out, todo, cur, kept, force, blind, mode>>
  /\ UNCHANGED <<disk, temp, lock, author, unreadable, worldVars, countVars>>

OpenedLock(s) == CASE fd[s] = "temp"   -> lockTemp
                   [] fd[s] = "placed" -> lock
                   [] fd[s] = "gone"   -> Empty

PutIntoLock(s, l) ==
  /\ lockTemp' = IF fd[s] = "temp" THEN l ELSE lockTemp
  /\ lock' = IF fd[s] = "placed" THEN l ELSE lock

FillLock(s) ==
  /\ pc[s] = "fillLock"
  /\ pc' = [pc EXCEPT ![s] = "commit"]
  /\ \E l \in Over(OpenedLock(s), plan[s]) : PutIntoLock(s, l)
  /\ UNCHANGED <<man, wanted, old, plan, out, todo, cur, kept, force, blind, mode>>
  /\ UNCHANGED <<disk, temp, author, unreadable, fd, worldVars, countVars>>

\* Renaming sgw-lock.json.sgw-tmp, which fails when another run has done so.
CommitLock(s) ==
  /\ pc[s] = "commit"
  /\ IF lockTemp = None
     THEN UNCHANGED <<lock, lockTemp, fd>>
     ELSE /\ lock' = lockTemp
          /\ lockTemp' = None
          /\ fd' = Renamed(FillingLock)
  /\ Return(s)
  /\ UNCHANGED <<disk, temp, author, unreadable, worldVars, countVars>>

\* Mutant: an error of the write is dropped and the rename goes ahead.
FailUnnoticed(s) ==
  /\ pc[s] = "fill"
  /\ faults < MaxFaults
  /\ faults' = faults + 1
  /\ PutInto(s, Torn)
  /\ pc' = [pc EXCEPT ![s] = "rename"]
  /\ UNCHANGED <<man, wanted, old, plan, out, todo, cur, kept, force, blind, mode>>
  /\ UNCHANGED <<lock, lockTemp, author, unreadable, fd, worldVars, moves, edits>>

\* The process dies, or a fetch, a write or a rename returns an error (a
\* network failure, a full disk, a symlink that writeFile refuses): the run
\* ends where it is and what it has written so far stays, amid a write a part
\* of it.
Fail(s) ==
  /\ pc[s] # "idle"
  /\ faults < MaxFaults
  /\ faults' = faults + 1
  /\ Return(s)
  /\ \/ UNCHANGED <<disk, temp, lock, lockTemp>>
     \/ pc[s] = "fill" /\ PutInto(s, Torn) /\ UNCHANGED <<lock, lockTemp>>
     \/ pc[s] = "fillLock" /\ PutIntoLock(s, Torn) /\ UNCHANGED <<disk, temp>>
  /\ UNCHANGED <<author, unreadable, fd, worldVars, moves, edits>>

-----------------------------------------------------------------------------
(* The world around the runs.                                              *)

\* The source serves something else, or no longer serves the skill.
SourceMoves(x, r) ==
  /\ moves < MaxMoves
  /\ \E b \in (Bundles[x] \cup {None}) \ {offers[x][r]} :
       offers' = [offers EXCEPT ![x][r] = b]
  /\ moves' = moves + 1
  /\ UNCHANGED <<manifest, fileVars, runVars, edits, faults>>

\* The developer changes the source or the skills the manifest names.
ChangeManifest ==
  /\ moves < MaxMoves
  /\ manifest' \in Manifests \ {manifest}
  /\ moves' = moves + 1
  /\ UNCHANGED <<offers, fileVars, runVars, edits, faults>>

\* A run has looked at the file and is about to replace or remove it.
Targeted(p) ==
  \E s \in Syncs : cur[s] = p /\ pc[s] \in {"temp", "fill", "rename", "remove"}

\* The developer writes a file as a whole or deletes it.  author tells an edit of a file
\* sync wrote from a file sync never wrote, and from an edit that comes
\* between a run's look at the file and its write.
Edit(p) ==
  /\ edits < MaxEdits
  /\ RacingEdits \/ \A s \in Syncs : pc[s] = "idle"
  /\ \E d \in (Edits \cup {None}) \ {disk[p]} :
       /\ disk' = [disk EXCEPT ![p] = d]
       /\ author' = [author EXCEPT ![p] =
            CASE d = None \/ @ = "none" -> "none"
              [] d # None /\ @ # "none" -> IF Targeted(p) THEN "raced" ELSE "edit"]
  /\ unreadable' = unreadable \ {p}
  /\ fd' = Unlinked(Filling(p))
  /\ edits' = edits + 1
  /\ UNCHANGED <<temp, lock, lockTemp, worldVars, runVars, moves, faults>>

\* A file can no longer be read, if it can be replaced or not: its mode, a
\* lock of another program, a failing disk.
Seal(p) ==
  /\ p \in Sealable \ unreadable
  /\ disk[p] # None
  /\ faults < MaxFaults
  /\ unreadable' = unreadable \cup {p}
  /\ faults' = faults + 1
  /\ UNCHANGED <<disk, temp, lock, lockTemp, author, fd, worldVars, runVars, moves, edits>>

Unseal(p) ==
  /\ p \in unreadable
  /\ unreadable' = unreadable \ {p}
  /\ UNCHANGED <<disk, temp, lock, lockTemp, author, fd, worldVars, runVars, countVars>>

Step(s) ==
  \/ Start(s) \/ ReadLock(s) \/ ListRefs(s)
  \/ \E r \in Refs : Prepare(s, r) \/ PrepareFails(s, r)
  \/ BeginWrite(s)
  \/ \E p \in Paths : KeepEdited(s, p) \/ ChooseWrite(s, p)
  \/ OpenTemp(s) \/ FillTemp(s) \/ Rename(s) \/ EndWrite(s)
  \/ \E p \in Paths : CheckStale(s, p)
  \/ Remove(s) \/ SaveLock(s) \/ FillLock(s) \/ CommitLock(s)

World ==
  \/ \E x \in Sources, r \in Refs : SourceMoves(x, r)
  \/ ChangeManifest
  \/ \E p \in Paths : Edit(p) \/ Seal(p) \/ Unseal(p)

Next ==
  \/ \E s \in Syncs : Step(s) \/ StartFetch(s) \/ Fail(s)
  \/ World

Spec == Init /\ [][Next]_vars

\* Every session starts a sync, and a process that runs makes progress.
FairSpec == Spec /\ \A s \in Syncs : WF_vars(Step(s))

-----------------------------------------------------------------------------
(* What a correct sync guarantees.                                         *)

AllIdle == \A s \in Syncs : pc[s] = "idle"

\* Data some bundle whose files match its digest produces at p, if p is a
\* path inside the project at all.
Genuine == [p \in Paths |->
  {d \in Data : /\ p \notin Unsafe
                /\ \E x \in Sources, r \in Refs : \E b \in Bundles[x] :
                     /\ b.digest = b.content
                     /\ b.content \in DOMAIN Out[r]
                     /\ d = Out[r][b.content][p]}]

\* Files that do not match the digest they were served with never reach the
\* project, whatever the runs, faults and other writers do: all that a run is
\* going to write is what a verified bundle translates to at that path, inside
\* the project, and a file on disk is that, the developer's, or what became of
\* such data when runs that write at once cut it short or mixed it (prepare,
\* syncer.go:175-177; safeJoin, 222-227; WriteFile and Rename, 314-317).
VerifiedOnly ==
  /\ \A s \in Syncs : pc[s] \in Writing => \A p \in todo[s] : out[s][p] \in Genuine[p]
  /\ \A p \in Paths :
       LET pieces == IF p \in Unsafe THEN {} ELSE Broken
       IN /\ disk[p] \in Genuine[p] \cup Edits \cup {None} \cup pieces
          /\ temp[p] \in Genuine[p] \cup {None} \cup pieces

\* While runs do not overlap, a crash or an error amid a write of a file or of
\* the lock leaves nothing behind that a later run, or anybody who opens the
\* project, could take for the file: each is whole and verified or the
\* developer's, and the lock parses (writeFile by way of .sgw-tmp,
\* syncer.go:313-317; writeLock, 501-507).
WrittenWhole ==
  /\ lock \notin Broken
  /\ \A p \in Paths : disk[p] \in Genuine[p] \cup Edits \cup {None}

\* Two skills of a lock never own one path, so a stale removal can never take
\* a file another skill still needs, and `written` in SyncWith has one hash
\* per path (the collision check at syncer.go:394-399).
OnePathOneOwner(l) ==
  \A q, r \in Refs : \A p \in Paths :
    l[q] # None /\ l[r] # None /\ l[q].files[p] # None /\ l[r].files[p] # None
      => q = r

LocksAreCollisionFree ==
  \A l \in {lock, lockTemp} \ (Broken \cup {None}) : OnePathOneOwner(l)

\* Nothing is written until every skill has been fetched, verified against
\* its pin and checked for collisions (syncer.go:408-409): a run that writes
\* has a plan for every skill it wants, and the plan agrees with the pins.
PlanIsComplete ==
  \A s \in Syncs : pc[s] \in Writing \cup Finishing =>
    /\ \A r \in man[s].skills : plan[s][r] # None
    /\ OnePathOneOwner(plan[s])
    /\ \A r \in Refs :
         /\ plan[s][r] # None /\ old[s][r] # None
         /\ plan[s][r].source \in Pinnable
         /\ plan[s][r].version = old[s][r].version
         => plan[s][r].digest = old[s][r].digest

\* A file is kept only because the developer edited it: sync never mistakes
\* its own output for an edit (writeAll, syncer.go:215-216, and the message
\* at 417).
KeptWereEdited ==
  \A s \in Syncs : \A p \in kept[s] : author[p] # "sync"

\* Between runs the lock file describes the project: a file that sync wrote
\* and nobody edited is recorded, with the hash it has on disk
\* (syncer.go:125-142, 442).
SyncedFilesAreRecorded ==
  AllIdle => \A p \in Paths : author[p] = "sync" => disk[p] \in Recorded(lock, p)

\* A failure never leaves half-written folders (README.md:110): beside a file
\* sync wrote stand the other files of the same skill in the same version.
SkillsAreWhole ==
  AllIdle => \A p \in Paths : author[p] = "sync" =>
    \E r \in Refs : \E c \in DOMAIN Out[r] :
      /\ disk[p] = Out[r][c][p]
      /\ \A q \in Paths : Out[r][c][q] # None =>
           author[q] \in {"edit", "raced"} \/ disk[q] = Out[r][c][q]

\* The step is the developer's, or a forced write.
Deliberate(p) ==
  \/ edits' # edits
  \/ \E s \in Syncs : pc[s] = "rename" /\ cur[s] = p /\ force[s] /\ pc'[s] # "rename"

\* Sync never overwrites or removes a file that was edited after it was
\* written (README.md:189).  This property and those below speak of a lock
\* that parses, as it does while runs do not overlap (WrittenWhole).
EditsSurvive ==
  [][\A p \in Paths : author[p] \in {"edit", "raced"} /\ disk'[p] # disk[p] => Deliberate(p)]_vars

\* A run that could not read the file replaces it.
Overlooked(p) == \E s \in Syncs : pc[s] = "rename" /\ cur[s] = p /\ blind[s]

\* What the code does guarantee: while the lock file records the path, an
\* edit is neither overwritten nor removed, through crashes, failed writes
\* and changes of source and manifest, and at whatever moment of a run it
\* comes, but for two cases: one that comes between the run's look at that
\* file and its write, and a file that the look failed to read, for which the
\* code takes every error for "gone" (locallyEdited, syncer.go:244-263;
\* removeIfUnchanged, 322-338).
RecordedEditsSurvive ==
  [][\A p \in Paths :
       author[p] = "edit" /\ Recorded(lock, p) # {} /\ disk'[p] # disk[p]
         => Deliberate(p) \/ Overlooked(p)]_vars

\* The second case alone: a file that is not gone is not rewritten as one that
\* is (the comment in locallyEdited, syncer.go:257).  It is.
OnlyGoneFilesAreRewritten ==
  [][\A p \in Paths :
       author[p] = "edit" /\ Recorded(lock, p) # {} /\ disk'[p] # disk[p]
         => Deliberate(p)]_vars

\* A committed lock never replaces the digest recorded for a version of an
\* immutable source, and never moves the version recorded for a fixed source
\* (syncer.go:178-189, README.md:200).
PinsHold ==
  [][\A r \in Refs : lock[r] # None /\ lock'[r] # None =>
       /\ lock'[r].source \in Pinnable /\ lock'[r].version = lock[r].version
            => lock'[r].digest = lock[r].digest
       /\ lock'[r].source \in Fixed /\ lock'[r].source = lock[r].source
            => lock'[r].version = lock[r].version]_vars

\* Once the source and the manifest stop moving, every file of a wanted
\* skill the source serves is the developer's own or what is served.
UpToDate ==
  \A r \in manifest.skills :
    LET b == offers[manifest.source][r]
    IN \A p \in Paths : b # None /\ Out[r][b.content][p] # None =>
         disk[p] \in Edits \cup {Out[r][b.content][p]}

Converges == <>[]UpToDate

-----------------------------------------------------------------------------
(* What all this amounts to for the owner of the project (Project.tla).    *)

\* The lock entries that prepare may make for a skill.
Installable == [r \in Refs |->
  UNION {{[source |-> x, version |-> b.version, digest |-> b.content,
           files |-> Out[r][b.content]] :
            b \in {c \in Bundles[x] : Verified(c) /\ c.content \in DOMAIN Out[r]}} :
         x \in Sources}]

\* The run that is at work, and the file it is about to replace or remove.
AtWork == IF AllIdle THEN "none"
          ELSE IF \E s \in Syncs : force[s] THEN "forced" ELSE "careful"
InHand == {p \in Paths : Targeted(p)}

P == INSTANCE Project WITH
       Offered <- Installable, Wanted <- Manifests, run <- AtWork, held <- InHand

\* A run takes one step of the promise after another, and only a look at a
\* file, its replacement or removal and the commit of the lock are visible
\* in the project, whatever fails (SyncWith, syncer.go:354-447).
ImplementsProject == P!Spec

=============================================================================
