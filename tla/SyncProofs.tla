----------------------------- MODULE SyncProofs -----------------------------
(***************************************************************************)
(* Proofs about Sync for any number of runs, sources, skills and paths.    *)
(***************************************************************************)
EXTENDS Sync, TLAPS

\* A run that returns keeps its memory well typed.
LEMMA ReturnType ==
  ASSUME TypeOK, NEW s \in Syncs, Return(s)
  PROVE  /\ pc' \in [Syncs -> Steps]
         /\ man' \in [Syncs -> Manifest]
         /\ wanted' \in [Syncs -> SUBSET Refs]
         /\ old' \in [Syncs -> Lock]
         /\ plan' \in [Syncs -> Lock]
         /\ out' \in [Syncs -> FileMap]
         /\ todo' \in [Syncs -> SUBSET Paths]
         /\ cur' \in [Syncs -> Paths \cup {None}]
         /\ kept' \in [Syncs -> SUBSET Paths]
         /\ force' \in [Syncs -> BOOLEAN]
         /\ blind' \in [Syncs -> BOOLEAN]
         /\ mode' \in [Syncs -> {"sync", "fetch"}]
<1>1. NoManifest \in Manifest
  BY ProjectAssumption DEF NoManifest
<1>2. NoLock \in Lock /\ NoFiles \in FileMap
  BY DEF NoLock, NoFiles, Lock, FileMap
<1> QED
  BY <1>1, <1>2 DEF TypeOK, Return, Steps

\* What a write puts into a file is the data or torn, and it goes where the
\* run has the file open.
LEMMA FillType ==
  ASSUME TypeOK, NEW s \in Syncs, NEW d, PutInto(s, d),
         cur[s] \in Paths => d \in Data \cup {None} \cup Broken
  PROVE  /\ disk' \in [Paths -> Data \cup Edits \cup {None} \cup Broken]
         /\ temp' \in [Paths -> Data \cup {None} \cup Broken]
<1>1. temp' = temp \/ temp' = [temp EXCEPT ![cur[s]] = d]
  BY DEF PutInto
<1>2. disk' = disk \/ disk' = [disk EXCEPT ![cur[s]] = d]
  BY DEF PutInto
<1>3. /\ disk \in [Paths -> Data \cup Edits \cup {None} \cup Broken]
      /\ temp \in [Paths -> Data \cup {None} \cup Broken]
  BY DEF TypeOK
<1>4. CASE cur[s] \in Paths
  <2>1. d \in Data \cup {None} \cup Broken
    BY <1>4
  <2> QED
    BY <1>1, <1>2, <1>3, <2>1
<1>5. CASE cur[s] \notin Paths
  BY <1>1, <1>2, <1>3, <1>5
<1> QED
  BY <1>4, <1>5

LEMMA FillLockType ==
  ASSUME TypeOK, NEW s \in Syncs, NEW l \in Lock \cup Broken, PutIntoLock(s, l)
  PROVE  lock' \in Lock \cup Broken /\ lockTemp' \in Lock \cup {None} \cup Broken
BY DEF TypeOK, PutIntoLock

LEMMA OverIs == ASSUME NEW was, NEW new, NEW d \in Over(was, new) PROVE d \in {new} \cup Broken
BY DEF Over, Broken

\* An empty file takes all of what is written.
LEMMA OverEmpty == ASSUME NEW new, NEW d \in Over(Empty, new) PROVE d = new
BY DEF Over

LEMMA OpenFilesType ==
  ASSUME TypeOK, NEW runs
  PROVE  /\ Renamed(runs) \in [Syncs -> {"temp", "placed", "gone"}]
         /\ Unlinked(runs) \in [Syncs -> {"temp", "placed", "gone"}]
BY DEF TypeOK, Renamed, Unlinked

LEMMA TypeInit == Init => TypeOK
<1> SUFFICES ASSUME Init PROVE TypeOK
  OBVIOUS
<1>1. NoManifest \in Manifest /\ manifest \in Manifest
  BY ProjectAssumption DEF NoManifest, Init
<1>2. NoLock \in Lock /\ NoFiles \in FileMap
  BY DEF NoLock, NoFiles, Lock, FileMap
<1>3. /\ disk \in [Paths -> Data \cup Edits \cup {None} \cup Broken]
      /\ temp \in [Paths -> Data \cup {None} \cup Broken]
  BY DEF Init, NoFiles
<1> QED
  BY <1>1, <1>2, <1>3, SourceAssumption, ProjectAssumption DEF Init, TypeOK, Steps

LEMMA TypeStep == TypeOK /\ [Next]_vars => TypeOK'
<1> SUFFICES ASSUME TypeOK, [Next]_vars PROVE TypeOK'
  OBVIOUS
<1> USE DEF fileVars, worldVars, countVars, runVars
<1>1. ASSUME NEW s \in Syncs, Start(s) PROVE TypeOK'
  BY <1>1, ProjectAssumption DEF TypeOK, Start, Steps, Preparing
<1>2. ASSUME NEW s \in Syncs, StartFetch(s) PROVE TypeOK'
  <2>1. PICK x \in Sources, r \in Refs :
          /\ man' = [man EXCEPT ![s] = [source |-> x, star |-> FALSE, skills |-> {r}]]
          /\ wanted' = [wanted EXCEPT ![s] = {r}]
    BY <1>2, ProjectAssumption DEF StartFetch
  <2>2. man' \in [Syncs -> Manifest] /\ wanted' \in [Syncs -> SUBSET Refs]
    BY <2>1 DEF TypeOK, Manifest
  <2>3. pc' \in [Syncs -> Steps]
    BY <1>2 DEF TypeOK, StartFetch, Steps, Preparing
  <2> QED
    BY <1>2, <2>2, <2>3 DEF TypeOK, StartFetch
<1>3. ASSUME NEW s \in Syncs, ReadLock(s) PROVE TypeOK'
  <2>1. CASE lock \in Broken
    BY <1>3, <2>1, ReturnType DEF TypeOK, ReadLock
  <2>2. CASE lock \notin Broken
    BY <1>3, <2>2 DEF TypeOK, ReadLock, Steps, Preparing
  <2> QED
    BY <2>1, <2>2
<1>4. ASSUME NEW s \in Syncs, ListRefs(s) PROVE TypeOK'
  <2>1. CASE Listed(s) = {}
    BY <1>4, <2>1, ReturnType DEF TypeOK, ListRefs
  <2>2. CASE Listed(s) # {}
    <3>1. Listed(s) \in SUBSET Refs
      BY DEF TypeOK, Listed, Manifest
    <3>2. wanted' = [wanted EXCEPT ![s] = Listed(s)]
          /\ man' = [man EXCEPT ![s].skills = Listed(s)]
          /\ pc' = [pc EXCEPT ![s] = "prepare"]
      BY <1>4, <2>2 DEF ListRefs
    <3>3. [man[s] EXCEPT !.skills = Listed(s)] \in Manifest
      <4>1. man[s] \in Manifest
        BY DEF TypeOK
      <4> QED
        BY <3>1, <4>1 DEF Manifest
    <3>4. man' \in [Syncs -> Manifest]
      BY <3>2, <3>3 DEF TypeOK
    <3>5. pc' \in [Syncs -> Steps]
      BY <3>2 DEF TypeOK, Steps, Preparing
    <3> QED
      BY <1>4, <2>2, <3>1, <3>2, <3>4, <3>5 DEF TypeOK, ListRefs
  <2> QED
    BY <2>1, <2>2
<1>5. ASSUME NEW s \in Syncs, NEW r \in Refs, Prepare(s, r) PROVE TypeOK'
  <2> DEFINE x == man[s].source
             b == offers[x][r]
             files == Out[r][b.content]
             entry == [source |-> x, version |-> b.version,
                       digest |-> b.content, files |-> files]
  <2>1. x \in Sources
    BY DEF TypeOK, Manifest
  <2>2. b \in Bundle /\ b.content \in DOMAIN Out[r]
    <3>1. offers \in [Sources -> [Refs -> Bundle \cup {None}]]
      BY DEF TypeOK
    <3>2. Acceptable(s, r, b)
      BY <1>5 DEF Prepare
    <3>3. b # None /\ b.content \in DOMAIN Out[r]
      BY <3>2 DEF Acceptable
    <3>4. b \in Bundle \cup {None}
      BY <2>1, <3>1
    <3> QED
      BY <3>3, <3>4
  <2>3. files \in FileMap
    BY <2>2, OutAssumption
  <2>4. entry \in Entry
    <3>1. b.version \in Versions /\ b.content \in Contents
      BY <2>2 DEF Bundle
    <3> HIDE DEF x, b, files
    <3> QED
      BY <2>1, <2>3, <3>1 DEF Entry
  <2>5. plan' \in [Syncs -> Lock]
    <3>1. plan' = [plan EXCEPT ![s][r] = entry]
      BY <1>5 DEF Prepare
    <3>2. plan \in [Syncs -> Lock]
      BY DEF TypeOK
    <3> HIDE DEF entry
    <3>3. [plan[s] EXCEPT ![r] = entry] \in Lock
      BY <3>2, <2>4 DEF Lock
    <3> QED
      BY <3>1, <3>2, <3>3
  <2>6. out' \in [Syncs -> FileMap]
    <3>1. out[s] \in FileMap
      BY DEF TypeOK
    <3> HIDE DEF files
    <3>2. Merge(out[s], files) \in FileMap
      BY <2>3, <3>1 DEF Merge, FileMap
    <3> QED
      BY <1>5, <3>2 DEF TypeOK, Prepare, files
  <2>7. wanted' \in [Syncs -> SUBSET Refs]
    BY <1>5 DEF TypeOK, Prepare
  <2> HIDE DEF x, b, files, entry
  <2> QED
    BY <1>5, <2>5, <2>6, <2>7 DEF TypeOK, Prepare
<1>6. ASSUME NEW s \in Syncs, NEW r \in Refs, PrepareFails(s, r) PROVE TypeOK'
  BY <1>6, ReturnType DEF TypeOK, PrepareFails
<1>7. ASSUME NEW s \in Syncs, BeginWrite(s) PROVE TypeOK'
  <2> DEFINE planned == {p \in Paths : out[s][p] # None}
  <2>1. CASE planned \cap Unsafe # {}
    <3>1. Return(s)
      BY <1>7, <2>1 DEF BeginWrite
    <3> QED
      BY <1>7, <3>1, ReturnType DEF TypeOK, BeginWrite
  <2>2. CASE ~(planned \cap Unsafe # {})
    <3>1. planned \in SUBSET Paths
      OBVIOUS
    <3>2. /\ pc' = [pc EXCEPT ![s] = "check"]
          /\ todo' = [todo EXCEPT ![s] = planned]
      BY <1>7, <2>2 DEF BeginWrite
    <3>3. pc' \in [Syncs -> Steps] /\ todo' \in [Syncs -> SUBSET Paths]
      BY <3>1, <3>2 DEF TypeOK, Steps, Writing
    <3> QED
      BY <1>7, <2>2, <3>3 DEF TypeOK, BeginWrite
  <2> QED
    BY <2>1, <2>2
<1>8. ASSUME NEW s \in Syncs, NEW p \in Paths, KeepEdited(s, p) PROVE TypeOK'
  BY <1>8 DEF TypeOK, KeepEdited
<1>9. ASSUME NEW s \in Syncs, NEW p \in Paths, ChooseWrite(s, p) PROVE TypeOK'
  BY <1>9 DEF TypeOK, ChooseWrite, Steps, Writing
<1>10. ASSUME NEW s \in Syncs, OpenTemp(s) PROVE TypeOK'
  <2>1. /\ temp' \in [Paths -> Data \cup {None} \cup Broken]
        /\ fd' \in [Syncs -> {"temp", "placed", "gone"}]
    BY <1>10 DEF TypeOK, OpenTemp, Broken
  <2>2. pc' \in [Syncs -> Steps]
    BY <1>10 DEF TypeOK, OpenTemp, Steps, Writing
  <2> QED
    BY <1>10, <2>1, <2>2 DEF TypeOK, OpenTemp
<1>10f. ASSUME NEW s \in Syncs, FillTemp(s) PROVE TypeOK'
  <2>1. PICK d \in Over(Opened(s), out[s][cur[s]]) : PutInto(s, d)
    BY <1>10f DEF FillTemp
  <2>2. cur[s] \in Paths => d \in Data \cup {None} \cup Broken
    <3>1. d \in {out[s][cur[s]]} \cup Broken
      BY OverIs
    <3>2. out[s] \in [Paths -> Data \cup {None}]
      BY DEF TypeOK, FileMap
    <3> QED
      BY <3>1, <3>2
  <2>3. /\ disk' \in [Paths -> Data \cup Edits \cup {None} \cup Broken]
        /\ temp' \in [Paths -> Data \cup {None} \cup Broken]
    BY <2>1, <2>2, FillType
  <2>4. pc' \in [Syncs -> Steps]
    BY <1>10f DEF TypeOK, FillTemp, Steps, Writing
  <2> QED
    BY <1>10f, <2>3, <2>4 DEF TypeOK, FillTemp
<1>11. ASSUME NEW s \in Syncs, Rename(s) PROVE TypeOK'
  <2>1. CASE temp[cur[s]] = None
    BY <1>11, <2>1, ReturnType DEF TypeOK, Rename
  <2>2. CASE temp[cur[s]] # None
    <3>1. disk' = [disk EXCEPT ![cur[s]] = temp[cur[s]]]
      BY <1>11, <2>2 DEF Rename
    <3>2. disk' \in [Paths -> Data \cup Edits \cup {None} \cup Broken]
      BY <3>1 DEF TypeOK
    <3>3. temp' \in [Paths -> Data \cup {None} \cup Broken]
      BY <1>11, <2>2 DEF TypeOK, Rename
    <3>4. author' \in [Paths -> {"none", "sync", "edit", "raced"}]
      BY <1>11, <2>2 DEF TypeOK, Rename
    <3>5. pc' \in [Syncs -> Steps]
      BY <1>11, <2>2 DEF TypeOK, Rename, Steps, Writing
    <3>6. todo' \in [Syncs -> SUBSET Paths] /\ unreadable' \in SUBSET Paths
      <4>1. /\ todo' = [todo EXCEPT ![s] = @ \ {cur[s]}]
            /\ unreadable' = unreadable \ {cur[s]}
        BY <1>11, <2>2 DEF Rename
      <4> QED
        BY <4>1 DEF TypeOK
    <3>7. cur' \in [Syncs -> Paths \cup {None}] /\ blind' \in [Syncs -> BOOLEAN]
      BY <1>11, <2>2 DEF TypeOK, Rename
    <3>8. fd' \in [Syncs -> {"temp", "placed", "gone"}]
      BY <1>11, <2>2, OpenFilesType DEF Rename
    <3> QED
      BY <1>11, <2>2, <3>2, <3>3, <3>4, <3>5, <3>6, <3>7, <3>8 DEF TypeOK, Rename
  <2> QED
    BY <2>1, <2>2
<1>12. ASSUME NEW s \in Syncs, EndWrite(s) PROVE TypeOK'
  <2>1. CASE mode[s] = "fetch"
    BY <1>12, <2>1, ReturnType DEF TypeOK, EndWrite
  <2>2. CASE mode[s] # "fetch"
    <3>1. pc' \in [Syncs -> Steps]
      BY <1>12, <2>2 DEF TypeOK, EndWrite, Steps, Finishing
    <3>2. todo' = [todo EXCEPT ![s] = StaleFiles(s)]
      BY <1>12, <2>2 DEF EndWrite
    <3>3. StaleFiles(s) \subseteq Paths
      BY DEF StaleFiles
    <3>4. todo' \in [Syncs -> SUBSET Paths]
      BY <3>2, <3>3 DEF TypeOK
    <3> QED
      BY <1>12, <2>2, <3>1, <3>4 DEF TypeOK, EndWrite
  <2> QED
    BY <2>1, <2>2
<1>13. ASSUME NEW s \in Syncs, NEW p \in Paths, CheckStale(s, p) PROVE TypeOK'
  <2>1. pc' \in [Syncs -> Steps]
    BY <1>13 DEF TypeOK, CheckStale, Steps, Finishing
  <2>2. cur' \in [Syncs -> Paths \cup {None}] /\ todo' \in [Syncs -> SUBSET Paths]
    <3>1. \/ cur' = [cur EXCEPT ![s] = p] /\ todo' = todo
          \/ cur' = cur /\ todo' = [todo EXCEPT ![s] = @ \ {p}]
      BY <1>13 DEF CheckStale
    <3> QED
      BY <3>1 DEF TypeOK
  <2> QED
    BY <1>13, <2>1, <2>2 DEF TypeOK, CheckStale
<1>14. ASSUME NEW s \in Syncs, Remove(s) PROVE TypeOK'
  <2>1. /\ disk' \in [Paths -> Data \cup Edits \cup {None} \cup Broken]
        /\ author' \in [Paths -> {"none", "sync", "edit", "raced"}]
    <3>1. /\ disk \in [Paths -> Data \cup Edits \cup {None} \cup Broken]
          /\ author \in [Paths -> {"none", "sync", "edit", "raced"}]
      BY DEF TypeOK
    <3>2. \/ /\ disk' = [disk EXCEPT ![cur[s]] = None]
             /\ author' = [author EXCEPT ![cur[s]] = "none"]
          \/ UNCHANGED <<disk, author>>
      BY <1>14 DEF Remove
    <3> QED
      BY <3>1, <3>2
  <2>2. faults' \in 0..MaxFaults
    BY <1>14, ProjectAssumption DEF TypeOK, Remove
  <2>3. pc' \in [Syncs -> Steps]
    BY <1>14 DEF TypeOK, Remove, Steps, Finishing
  <2>4. todo' \in [Syncs -> SUBSET Paths] /\ cur' \in [Syncs -> Paths \cup {None}]
    BY <1>14 DEF TypeOK, Remove
  <2>5. unreadable' \in SUBSET Paths /\ fd' \in [Syncs -> {"temp", "placed", "gone"}]
    BY <1>14, OpenFilesType DEF TypeOK, Remove
  <2> QED
    BY <1>14, <2>1, <2>2, <2>3, <2>4, <2>5 DEF TypeOK, Remove
<1>15. ASSUME NEW s \in Syncs, SaveLock(s) PROVE TypeOK'
  BY <1>15 DEF TypeOK, SaveLock, Steps, Finishing, Broken
<1>15f. ASSUME NEW s \in Syncs, FillLock(s) PROVE TypeOK'
  <2>1. PICK l \in Over(OpenedLock(s), plan[s]) : PutIntoLock(s, l)
    BY <1>15f DEF FillLock
  <2>2. l \in Lock \cup Broken
    BY OverIs DEF TypeOK
  <2>3. lock' \in Lock \cup Broken /\ lockTemp' \in Lock \cup {None} \cup Broken
    BY <2>1, <2>2, FillLockType
  <2>4. pc' \in [Syncs -> Steps]
    BY <1>15f DEF TypeOK, FillLock, Steps, Finishing
  <2> QED
    BY <1>15f, <2>3, <2>4 DEF TypeOK, FillLock
<1>16. ASSUME NEW s \in Syncs, CommitLock(s) PROVE TypeOK'
  <2>1. /\ lock' \in Lock \cup Broken /\ lockTemp' \in Lock \cup {None} \cup Broken
        /\ fd' \in [Syncs -> {"temp", "placed", "gone"}]
    BY <1>16, OpenFilesType DEF TypeOK, CommitLock
  <2> QED
    BY <1>16, <2>1, ReturnType DEF TypeOK, CommitLock
<1>17. ASSUME NEW s \in Syncs, Fail(s) PROVE TypeOK'
  <2>1. /\ disk' \in [Paths -> Data \cup Edits \cup {None} \cup Broken]
        /\ temp' \in [Paths -> Data \cup {None} \cup Broken]
        /\ lock' \in Lock \cup Broken /\ lockTemp' \in Lock \cup {None} \cup Broken
    <3>1. CASE UNCHANGED <<disk, temp, lock, lockTemp>>
      BY <3>1 DEF TypeOK
    <3>2. CASE PutInto(s, Torn) /\ UNCHANGED <<lock, lockTemp>>
      BY <3>2, FillType DEF TypeOK, Broken
    <3>3. CASE PutIntoLock(s, Torn) /\ UNCHANGED <<disk, temp>>
      BY <3>3, FillLockType DEF TypeOK, Broken
    <3> QED
      BY <1>17, <3>1, <3>2, <3>3 DEF Fail
  <2>2. faults' \in 0..MaxFaults
    BY <1>17, ProjectAssumption DEF TypeOK, Fail
  <2> QED
    BY <1>17, <2>1, <2>2, ReturnType DEF TypeOK, Fail
<1>18. ASSUME NEW x \in Sources, NEW r \in Refs, SourceMoves(x, r) PROVE TypeOK'
  <2>1. PICK b \in Bundles[x] \cup {None} : offers' = [offers EXCEPT ![x][r] = b]
    BY <1>18 DEF SourceMoves
  <2>2. b \in Bundle \cup {None}
    BY SourceAssumption
  <2>3. offers' \in [Sources -> [Refs -> Bundle \cup {None}]]
    BY <2>1, <2>2 DEF TypeOK
  <2>4. moves' \in 0..MaxMoves
    BY <1>18, ProjectAssumption DEF TypeOK, SourceMoves
  <2> QED
    BY <1>18, <2>3, <2>4 DEF TypeOK, SourceMoves
<1>19. CASE ChangeManifest
  BY <1>19, ProjectAssumption DEF TypeOK, ChangeManifest
<1>20. ASSUME NEW p \in Paths, Edit(p) PROVE TypeOK'
  <2>1. disk' \in [Paths -> Data \cup Edits \cup {None} \cup Broken]
    BY <1>20 DEF TypeOK, Edit
  <2>2. fd' \in [Syncs -> {"temp", "placed", "gone"}]
    BY <1>20, OpenFilesType DEF Edit
  <2>3. author' \in [Paths -> {"none", "sync", "edit", "raced"}]
    BY <1>20 DEF TypeOK, Edit
  <2>4. unreadable' \in SUBSET Paths /\ edits' \in 0..MaxEdits
    BY <1>20, ProjectAssumption DEF TypeOK, Edit
  <2> QED
    BY <1>20, <2>1, <2>2, <2>3, <2>4 DEF TypeOK, Edit
<1>20s. ASSUME NEW p \in Paths, Seal(p) PROVE TypeOK'
  BY <1>20s, ProjectAssumption DEF TypeOK, Seal
<1>20u. ASSUME NEW p \in Paths, Unseal(p) PROVE TypeOK'
  BY <1>20u DEF TypeOK, Unseal
<1>21. CASE UNCHANGED vars
  BY <1>21 DEF TypeOK, vars
<1> QED
  BY <1>1, <1>2, <1>3, <1>4, <1>5, <1>6, <1>7, <1>8, <1>9, <1>10, <1>10f, <1>11,
     <1>12, <1>13, <1>14, <1>15, <1>15f, <1>16, <1>17, <1>18, <1>19, <1>20, <1>20s,
     <1>20u, <1>21
  DEF Next, Step, World

\* Every variable keeps its type, whatever the constants.
THEOREM TypeCorrect == Spec => []TypeOK
  BY TypeInit, TypeStep, PTL DEF Spec

-----------------------------------------------------------------------------
(* Only verified files reach the project.                                  *)

\* Sources serve bundles of theirs.
Served == \A x \in Sources : \A r \in Refs : offers[x][r] \in Bundles[x] \cup {None}

\* What a run is about to write comes from verified bundles; a path outside
\* the project is still possible until BeginWrite looks at the paths.
OutVerified ==
  \A s \in Syncs : \A p \in Paths :
    out[s][p] # None /\ p \notin Unsafe => out[s][p] \in Genuine[p]

\* A writing run only has safe, planned paths to write, and works on one.
TodoPlanned ==
  \A s \in Syncs : pc[s] \in Writing =>
    /\ \A p \in todo[s] : p \notin Unsafe /\ out[s][p] # None
    /\ pc[s] \in {"temp", "fill", "rename"} => cur[s] \in todo[s]

\* What is at a path, in place or beside it, is verified, the developer's, or,
\* inside the project, verified data cut short or mixed.
FilesVerified ==
  \A p \in Paths :
    LET pieces == IF p \in Unsafe THEN {} ELSE Broken
    IN /\ disk[p] \in Genuine[p] \cup Edits \cup {None} \cup pieces
       /\ temp[p] \in Genuine[p] \cup {None} \cup pieces

VerifiedInv == TypeOK /\ Served /\ OutVerified /\ TodoPlanned /\ FilesVerified

LEMMA VerifiedInit == Init => VerifiedInv
<1> SUFFICES ASSUME Init PROVE VerifiedInv
  OBVIOUS
<1>1. TypeOK
  BY TypeInit
<1>2. Served
  BY SourceAssumption DEF Init, Served
<1>3. OutVerified /\ TodoPlanned /\ FilesVerified
  BY DEF Init, OutVerified, TodoPlanned, FilesVerified, NoFiles, Writing
<1> QED
  BY <1>1, <1>2, <1>3 DEF VerifiedInv

\* A run that returns plans nothing any more and is not writing.
LEMMA ReturnVerified ==
  ASSUME VerifiedInv, NEW s \in Syncs, Return(s)
  PROVE  OutVerified' /\ TodoPlanned'
BY DEF VerifiedInv, TypeOK, Return, OutVerified, TodoPlanned, NoFiles, Writing

\* A run puts verified data, or a piece of it, where it has its file open.
LEMMA FilledVerified ==
  ASSUME VerifiedInv, NEW s \in Syncs, pc[s] = "fill",
         NEW d \in {out[s][cur[s]]} \cup Broken, PutInto(s, d)
  PROVE  FilesVerified'
<1>1. cur[s] \in Paths \ Unsafe /\ out[s][cur[s]] \in Genuine[cur[s]]
  BY DEF VerifiedInv, TypeOK, TodoPlanned, OutVerified, Writing
<1>2. d \in Genuine[cur[s]] \cup Broken
  BY <1>1
<1>3. /\ temp' = temp \/ temp' = [temp EXCEPT ![cur[s]] = d]
      /\ disk' = disk \/ disk' = [disk EXCEPT ![cur[s]] = d]
  BY DEF PutInto
<1>4. \A p \in Paths : /\ temp'[p] = temp[p] \/ (p = cur[s] /\ temp'[p] = d)
                       /\ disk'[p] = disk[p] \/ (p = cur[s] /\ disk'[p] = d)
  BY <1>3 DEF VerifiedInv, TypeOK
<1> SUFFICES ASSUME NEW p \in Paths
             PROVE  LET pieces == IF p \in Unsafe THEN {} ELSE Broken
                    IN /\ disk'[p] \in Genuine[p] \cup Edits \cup {None} \cup pieces
                       /\ temp'[p] \in Genuine[p] \cup {None} \cup pieces
  BY DEF FilesVerified
<1>5. LET pieces == IF p \in Unsafe THEN {} ELSE Broken
      IN /\ disk[p] \in Genuine[p] \cup Edits \cup {None} \cup pieces
         /\ temp[p] \in Genuine[p] \cup {None} \cup pieces
  BY DEF VerifiedInv, FilesVerified
<1>6. CASE p = cur[s]
  <2>1. p \notin Unsafe /\ d \in Genuine[p] \cup Broken
    BY <1>1, <1>2, <1>6
  <2>2. disk'[p] \in {disk[p], d} /\ temp'[p] \in {temp[p], d}
    BY <1>4
  <2>3. /\ disk[p] \in Genuine[p] \cup Edits \cup {None} \cup Broken
        /\ temp[p] \in Genuine[p] \cup {None} \cup Broken
    BY <1>5, <2>1
  <2> QED
    BY <2>1, <2>2, <2>3
<1> QED
  BY <1>4, <1>5, <1>6

\* What a successful prepare adds to a run's output is verified.
LEMMA PreparedVerified ==
  ASSUME VerifiedInv, NEW s \in Syncs, NEW r \in Refs, Prepare(s, r)
  PROVE  OutVerified'
<1> DEFINE x == man[s].source
           b == offers[x][r]
           files == Out[r][b.content]
<1>1. x \in Sources
  BY DEF VerifiedInv, TypeOK, Manifest
<1>2. b \in Bundles[x] /\ Verified(b) /\ b.content \in DOMAIN Out[r]
  BY <1>1 DEF VerifiedInv, Served, Prepare, Acceptable
<1>3. files \in FileMap
  BY <1>2, OutAssumption
<1>4. \A p \in Paths : files[p] # None /\ p \notin Unsafe => files[p] \in Genuine[p]
  BY <1>1, <1>2, <1>3 DEF Genuine, FileMap, Verified
<1>5. out' = [out EXCEPT ![s] = Merge(out[s], files)]
  BY DEF Prepare
<1> HIDE DEF x, b, files
<1>6. ASSUME NEW t \in Syncs, NEW p \in Paths, out'[t][p] # None, p \notin Unsafe
      PROVE  out'[t][p] \in Genuine[p]
  <2>1. CASE t = s
    <3>1. out'[t][p] = IF files[p] # None THEN files[p] ELSE out[s][p]
      BY <1>5, <2>1 DEF VerifiedInv, TypeOK, Merge
    <3> QED
      BY <1>4, <1>6, <3>1 DEF VerifiedInv, OutVerified
  <2>2. CASE t # s
    BY <1>5, <1>6, <2>2 DEF VerifiedInv, TypeOK, OutVerified
  <2> QED
    BY <2>1, <2>2
<1> QED
  BY <1>6 DEF OutVerified

LEMMA VerifiedStep == VerifiedInv /\ [Next]_vars => VerifiedInv'
<1> SUFFICES ASSUME VerifiedInv, [Next]_vars PROVE VerifiedInv'
  OBVIOUS
<1> USE DEF fileVars, worldVars, countVars, runVars
<1> DEFINE Rest == Served' /\ OutVerified' /\ TodoPlanned' /\ FilesVerified'
\* A run that has nothing new to write stays planned.
<1>t. ASSUME NEW s \in Syncs, NEW step, pc' = [pc EXCEPT ![s] = step], UNCHANGED out,
             \A r \in Syncs \ {s} : todo'[r] = todo[r] /\ cur'[r] = cur[r],
             step \in Writing => \A p \in todo'[s] : p \notin Unsafe /\ out[s][p] # None,
             step \in {"temp", "fill", "rename"} => cur'[s] \in todo'[s]
      PROVE  TodoPlanned'
  <2>1. pc'[s] = step /\ \A r \in Syncs \ {s} : pc'[r] = pc[r]
    BY <1>t DEF VerifiedInv, TypeOK
  <2>2. TodoPlanned
    BY DEF VerifiedInv
  <2>3. ASSUME NEW r \in Syncs, pc'[r] \in Writing
        PROVE  /\ \A p \in todo'[r] : p \notin Unsafe /\ out'[r][p] # None
               /\ pc'[r] \in {"temp", "fill", "rename"} => cur'[r] \in todo'[r]
    <3>1. CASE r = s
      BY <1>t, <2>1, <2>3, <3>1
    <3>2. CASE r # s
      BY <1>t, <2>1, <2>2, <2>3, <3>2 DEF TodoPlanned
    <3> QED
      BY <3>1, <3>2
  <2> QED
    BY <2>3 DEF TodoPlanned
<1>f. ASSUME UNCHANGED <<offers, out, disk, temp>> PROVE Served' /\ OutVerified' /\ FilesVerified'
  BY <1>f DEF VerifiedInv, Served, OutVerified, FilesVerified
<1>1. ASSUME NEW s \in Syncs, Start(s) PROVE Rest
  BY <1>1 DEF VerifiedInv, TypeOK, Start, Served, OutVerified, TodoPlanned, FilesVerified, Writing
<1>2. ASSUME NEW s \in Syncs, StartFetch(s) PROVE Rest
  BY <1>2 DEF VerifiedInv, TypeOK, StartFetch, Served, OutVerified, TodoPlanned, FilesVerified, Writing
<1>3. ASSUME NEW s \in Syncs, ReadLock(s) PROVE Rest
  <2>1. CASE lock \in Broken
    BY <1>3, <2>1, ReturnVerified DEF VerifiedInv, ReadLock, Served, FilesVerified
  <2>2. CASE lock \notin Broken
    BY <1>3, <2>2 DEF VerifiedInv, TypeOK, ReadLock, Served, OutVerified, TodoPlanned, FilesVerified, Writing
  <2> QED
    BY <2>1, <2>2
<1>4. ASSUME NEW s \in Syncs, ListRefs(s) PROVE Rest
  <2>1. CASE Return(s)
    BY <1>4, <2>1, ReturnVerified DEF VerifiedInv, ListRefs, Served, FilesVerified
  <2>2. CASE ~Return(s)
    <3>1. TodoPlanned'
      BY <1>4, <2>2, <1>t DEF ListRefs, Writing
    <3> QED
      BY <1>4, <2>2, <1>f, <3>1 DEF ListRefs
  <2> QED
    BY <2>1, <2>2
<1>5. ASSUME NEW s \in Syncs, NEW r \in Refs, Prepare(s, r) PROVE Rest
  <2>1. TodoPlanned'
    BY <1>5 DEF VerifiedInv, TypeOK, Prepare, TodoPlanned, Writing
  <2> QED
    BY <1>5, <2>1, PreparedVerified DEF VerifiedInv, Prepare, Served, FilesVerified
<1>6. ASSUME NEW s \in Syncs, NEW r \in Refs, PrepareFails(s, r) PROVE Rest
  BY <1>6, ReturnVerified DEF VerifiedInv, PrepareFails, Served, FilesVerified
<1>7. ASSUME NEW s \in Syncs, BeginWrite(s) PROVE Rest
  <2>1. CASE Return(s)
    BY <1>7, <2>1, ReturnVerified DEF VerifiedInv, BeginWrite, Served, FilesVerified
  <2>2. CASE ~Return(s)
    <3>1. /\ pc' = [pc EXCEPT ![s] = "check"]
          /\ todo' = [todo EXCEPT ![s] = {p \in Paths : out[s][p] # None}]
          /\ \A p \in Paths : out[s][p] # None => p \notin Unsafe
          /\ UNCHANGED <<out, cur, offers, disk, temp>>
      BY <1>7, <2>2 DEF BeginWrite
    <3>2. /\ todo'[s] = {p \in Paths : out[s][p] # None}
          /\ \A r \in Syncs \ {s} : todo'[r] = todo[r] /\ cur'[r] = cur[r]
      BY <3>1 DEF VerifiedInv, TypeOK
    <3>3. TodoPlanned'
      BY <1>t, <3>1, <3>2
    <3> QED
      BY <1>f, <3>1, <3>3
  <2> QED
    BY <2>1, <2>2
<1>8. ASSUME NEW s \in Syncs, NEW p \in Paths, KeepEdited(s, p) PROVE Rest
  <2>1. TodoPlanned'
    BY <1>8 DEF VerifiedInv, TypeOK, KeepEdited, TodoPlanned, Writing
  <2> QED
    BY <1>8, <2>1 DEF VerifiedInv, KeepEdited, Served, OutVerified, FilesVerified
<1>9. ASSUME NEW s \in Syncs, NEW p \in Paths, ChooseWrite(s, p) PROVE Rest
  <2>1. TodoPlanned'
    BY <1>9 DEF VerifiedInv, TypeOK, ChooseWrite, TodoPlanned, Writing
  <2> QED
    BY <1>9, <2>1 DEF VerifiedInv, ChooseWrite, Served, OutVerified, FilesVerified
<1>10. ASSUME NEW s \in Syncs, OpenTemp(s) PROVE Rest
  <2>1. cur[s] \in Paths \ Unsafe
    BY <1>10 DEF VerifiedInv, TypeOK, OpenTemp, TodoPlanned, Writing
  <2>2. FilesVerified'
    <3>1. \A p \in Paths : temp'[p] = temp[p] \/ (p = cur[s] /\ temp'[p] = Empty)
      BY <1>10 DEF VerifiedInv, TypeOK, OpenTemp
    <3>2. disk' = disk
      BY <1>10 DEF OpenTemp
    <3> QED
      BY <2>1, <3>1, <3>2 DEF VerifiedInv, FilesVerified, Broken
  <2>3. TodoPlanned'
    BY <1>10 DEF VerifiedInv, TypeOK, OpenTemp, TodoPlanned, Writing
  <2> QED
    BY <1>10, <2>2, <2>3 DEF VerifiedInv, OpenTemp, Served, OutVerified
<1>10f. ASSUME NEW s \in Syncs, FillTemp(s) PROVE Rest
  <2>1. PICK d \in Over(Opened(s), out[s][cur[s]]) : PutInto(s, d)
    BY <1>10f DEF FillTemp
  <2>2. FilesVerified'
    BY <1>10f, <2>1, OverIs, FilledVerified DEF FillTemp
  <2>3. TodoPlanned'
    BY <1>10f DEF VerifiedInv, TypeOK, FillTemp, TodoPlanned, Writing
  <2> QED
    BY <1>10f, <2>2, <2>3 DEF VerifiedInv, FillTemp, Served, OutVerified
<1>11. ASSUME NEW s \in Syncs, Rename(s) PROVE Rest
  <2>1. CASE temp[cur[s]] = None
    BY <1>11, <2>1, ReturnVerified DEF VerifiedInv, Rename, Served, FilesVerified
  <2>2. CASE temp[cur[s]] # None
    <3>1. FilesVerified'
      <4>1. \A p \in Paths : disk'[p] \in {disk[p], temp[p]} /\ temp'[p] \in {temp[p], None}
        BY <1>11, <2>2 DEF VerifiedInv, TypeOK, Rename
      <4> QED
        BY <4>1 DEF VerifiedInv, FilesVerified
    <3>2. TodoPlanned'
      <4>1. /\ pc' = [pc EXCEPT ![s] = "check"]
            /\ todo' = [todo EXCEPT ![s] = @ \ {cur[s]}]
            /\ cur' = [cur EXCEPT ![s] = None]
            /\ out' = out /\ pc[s] = "rename"
        BY <1>11, <2>2 DEF Rename
      <4>2. /\ todo'[s] = todo[s] \ {cur[s]}
            /\ \A r \in Syncs \ {s} : todo'[r] = todo[r] /\ cur'[r] = cur[r]
        BY <4>1 DEF VerifiedInv, TypeOK
      <4>3. \A p \in todo[s] : p \notin Unsafe /\ out[s][p] # None
        BY <4>1 DEF VerifiedInv, TodoPlanned, Writing
      <4> QED
        BY <1>t, <4>1, <4>2, <4>3
    <3> QED
      BY <1>11, <2>2, <3>1, <3>2 DEF VerifiedInv, Rename, Served, OutVerified
  <2> QED
    BY <2>1, <2>2
<1>12. ASSUME NEW s \in Syncs, EndWrite(s) PROVE Rest
  <2>1. CASE Return(s)
    BY <1>12, <2>1, ReturnVerified DEF VerifiedInv, EndWrite, Served, FilesVerified
  <2>2. CASE ~Return(s)
    <3>1. /\ pc' = [pc EXCEPT ![s] = "stale"]
          /\ todo' = [todo EXCEPT ![s] = StaleFiles(s)]
          /\ UNCHANGED <<out, cur, offers, disk, temp>>
      BY <1>12, <2>2 DEF EndWrite
    <3>2. \A r \in Syncs \ {s} : todo'[r] = todo[r] /\ cur'[r] = cur[r]
      BY <3>1 DEF VerifiedInv, TypeOK
    <3>3. TodoPlanned'
      BY <1>t, <3>1, <3>2 DEF Writing
    <3> QED
      BY <1>f, <3>1, <3>3
  <2> QED
    BY <2>1, <2>2
<1>13. ASSUME NEW s \in Syncs, NEW p \in Paths, CheckStale(s, p) PROVE Rest
  <2>1. TodoPlanned'
    <3>1. /\ pc' = [pc EXCEPT ![s] = "remove"] \/ (pc' = pc /\ pc[s] = "stale")
          /\ todo' = todo \/ todo' = [todo EXCEPT ![s] = @ \ {p}]
          /\ cur' = cur \/ cur' = [cur EXCEPT ![s] = p]
          /\ out' = out
      BY <1>13 DEF CheckStale
    <3>2. /\ pc'[s] \in {"stale", "remove"}
          /\ \A r \in Syncs \ {s} : pc'[r] = pc[r] /\ todo'[r] = todo[r] /\ cur'[r] = cur[r]
      BY <3>1 DEF VerifiedInv, TypeOK
    <3> QED
      BY <3>1, <3>2 DEF VerifiedInv, TodoPlanned, Writing
  <2> QED
    BY <1>13, <2>1 DEF VerifiedInv, CheckStale, Served, OutVerified, FilesVerified
<1>14. ASSUME NEW s \in Syncs, Remove(s) PROVE Rest
  <2>1. FilesVerified'
    BY <1>14 DEF VerifiedInv, TypeOK, Remove, FilesVerified
  <2>2. TodoPlanned'
    BY <1>14 DEF VerifiedInv, TypeOK, Remove, TodoPlanned, Writing
  <2> QED
    BY <1>14, <2>1, <2>2 DEF VerifiedInv, Remove, Served, OutVerified
<1>15. ASSUME NEW s \in Syncs, SaveLock(s) PROVE Rest
  <2>1. TodoPlanned'
    BY <1>15 DEF VerifiedInv, TypeOK, SaveLock, TodoPlanned, Writing
  <2> QED
    BY <1>15, <2>1 DEF VerifiedInv, SaveLock, Served, OutVerified, FilesVerified
<1>15f. ASSUME NEW s \in Syncs, FillLock(s) PROVE Rest
  <2>1. TodoPlanned'
    BY <1>15f DEF VerifiedInv, TypeOK, FillLock, TodoPlanned, Writing
  <2> QED
    BY <1>15f, <2>1 DEF VerifiedInv, FillLock, Served, OutVerified, FilesVerified
<1>16. ASSUME NEW s \in Syncs, CommitLock(s) PROVE Rest
  BY <1>16, ReturnVerified DEF VerifiedInv, CommitLock, Served, FilesVerified
<1>17. ASSUME NEW s \in Syncs, Fail(s) PROVE Rest
  <2>1. FilesVerified'
    <3>1. CASE UNCHANGED <<disk, temp>>
      BY <3>1 DEF VerifiedInv, FilesVerified
    <3>2. CASE pc[s] = "fill" /\ PutInto(s, Torn)
      BY <3>2, FilledVerified DEF Broken
    <3> QED
      BY <1>17, <3>1, <3>2 DEF Fail
  <2> QED
    BY <1>17, <2>1, ReturnVerified DEF VerifiedInv, Fail, Served
<1>18. ASSUME NEW x \in Sources, NEW r \in Refs, SourceMoves(x, r) PROVE Rest
  <2>1. Served'
    BY <1>18 DEF VerifiedInv, TypeOK, SourceMoves, Served
  <2> QED
    BY <1>18, <2>1 DEF VerifiedInv, SourceMoves, OutVerified, TodoPlanned, FilesVerified
<1>19. ASSUME ChangeManifest PROVE Rest
  BY <1>19 DEF VerifiedInv, ChangeManifest, Served, OutVerified, TodoPlanned, FilesVerified
<1>20. ASSUME NEW p \in Paths, Edit(p) PROVE Rest
  <2>1. FilesVerified'
    BY <1>20 DEF VerifiedInv, TypeOK, Edit, FilesVerified
  <2> QED
    BY <1>20, <2>1 DEF VerifiedInv, Edit, Served, OutVerified, TodoPlanned
<1>20s. ASSUME NEW p \in Paths, Seal(p) \/ Unseal(p) PROVE Rest
  BY <1>20s DEF VerifiedInv, Seal, Unseal, Served, OutVerified, TodoPlanned, FilesVerified
<1>21. ASSUME UNCHANGED vars PROVE Rest
  BY <1>21 DEF VerifiedInv, vars, Served, OutVerified, TodoPlanned, FilesVerified
<1>22. Rest
  BY <1>1, <1>2, <1>3, <1>4, <1>5, <1>6, <1>7, <1>8, <1>9, <1>10, <1>10f, <1>11,
     <1>12, <1>13, <1>14, <1>15, <1>15f, <1>16, <1>17, <1>18, <1>19, <1>20, <1>20s, <1>21
  DEF Next, Step, World
<1> QED
  BY <1>22, TypeStep DEF VerifiedInv

\* However many runs overlap, fail or crash, and whatever the sources serve,
\* a run is only ever about to write what a verified bundle translates to, at
\* a path inside the project, and a file there is that, the developer's, or
\* such data that an error cut short or runs that write at once mixed up
\* (prepare, syncer.go:174-177; writeAll, 222-227; writeFile, 313-317).
THEOREM VerifiedAlways == Spec => []VerifiedOnly
<1>1. VerifiedInv => VerifiedOnly
  BY DEF VerifiedInv, VerifiedOnly, FilesVerified, TodoPlanned, OutVerified, TypeOK
<1> QED
  BY <1>1, VerifiedInit, VerifiedStep, PTL DEF Spec

-----------------------------------------------------------------------------
(* A run writes only what a complete, collision-free plan says, and so does *)
(* every lock.                                                             *)

Planless == {"idle", "readLock", "refs"}

\* Two skills claim a path only if the second was prepared after the path was
\* in out, which the collision check refuses.
ClaimsAreOut(s) ==
  \A r \in Refs : \A p \in Paths :
    plan[s][r] # None /\ plan[s][r].files[p] # None => out[s][p] # None

\* The plan agrees with the pins the run has read.
PinsAgree(s) ==
  \A r \in Refs : plan[s][r] # None /\ old[s][r] # None =>
    /\ plan[s][r].source \in Pinnable /\ plan[s][r].version = old[s][r].version
         => plan[s][r].digest = old[s][r].digest
    /\ plan[s][r].source \in Fixed /\ plan[s][r].source = old[s][r].source
         => plan[s][r].version = old[s][r].version

\* What holds of one run: no plan before it prepares (so the lock it then
\* reads cannot disagree with one), and from then on each skill of the
\* manifest is still wanted or already planned.
PlanSound(s) ==
  /\ pc[s] \in Planless => plan[s] = NoLock
  /\ ClaimsAreOut(s)
  /\ OnePathOneOwner(plan[s])
  /\ PinsAgree(s)
  /\ pc[s] \notin Planless =>
       \A r \in man[s].skills : r \in wanted[s] \/ plan[s][r] # None
  /\ pc[s] \in Writing \cup Finishing => wanted[s] = {}

PlanInv == TypeOK /\ LocksAreCollisionFree /\ \A s \in Syncs : PlanSound(s)

\* Without entries there is nothing to collide or to disagree.
LEMMA EmptyPlan == OnePathOneOwner(NoLock)
BY DEF OnePathOneOwner, NoLock

LEMMA PlanInit == Init => PlanInv
<1> SUFFICES ASSUME Init PROVE PlanInv
  OBVIOUS
<1>1. LocksAreCollisionFree
  BY EmptyPlan DEF Init, LocksAreCollisionFree, OnePathOneOwner
<1>2. ASSUME NEW s \in Syncs PROVE PlanSound(s)
  <2>1. plan[s] = NoLock /\ pc[s] = "idle"
    BY DEF Init
  <2>2. \A r \in Refs : plan[s][r] = None
    BY <2>1 DEF NoLock
  <2> QED
    BY <2>1, <2>2, EmptyPlan
    DEF PlanSound, ClaimsAreOut, PinsAgree, Planless, Writing, Finishing
<1> QED
  BY <1>1, <1>2, TypeInit DEF PlanInv

\* What a run has planned stays sound as long as the plan and what it rests
\* on stay.
LEMMA PlanKept ==
  ASSUME NEW s \in Syncs, PlanSound(s),
         plan'[s] = plan[s], out'[s] = out[s], old'[s] = old[s]
  PROVE  ClaimsAreOut(s)' /\ PinsAgree(s)' /\ OnePathOneOwner(plan[s])'
BY DEF PlanSound, ClaimsAreOut, PinsAgree, OnePathOneOwner

\* A run of which a step changes nothing stays sound.
LEMMA Untouched ==
  ASSUME NEW s \in Syncs, PlanSound(s), pc'[s] = pc[s],
         plan'[s] = plan[s], out'[s] = out[s], old'[s] = old[s],
         man'[s] = man[s], wanted'[s] = wanted[s]
  PROVE  PlanSound(s)'
BY PlanKept DEF PlanSound

\* So does a run that goes on to write once nothing is wanted any more.
LEMMA MovedOn ==
  ASSUME NEW s \in Syncs, PlanSound(s), pc[s] \notin Planless,
         pc'[s] \in Writing \cup Finishing, wanted[s] = {},
         plan'[s] = plan[s], out'[s] = out[s], old'[s] = old[s],
         man'[s] = man[s], wanted'[s] = wanted[s]
  PROVE  PlanSound(s)'
BY PlanKept DEF PlanSound, Planless, Writing, Finishing

\* A run that has no plan is sound until it begins to prepare.
LEMMA WithoutPlan ==
  ASSUME NEW s \in Syncs, plan'[s] = NoLock,
         \/ pc'[s] \in Planless
         \/ pc'[s] = "prepare" /\ man'[s].skills = wanted'[s]
  PROVE  PlanSound(s)'
<1>1. \A r \in Refs : plan'[s][r] = None
  BY DEF NoLock
<1>2. ClaimsAreOut(s)' /\ PinsAgree(s)' /\ OnePathOneOwner(plan[s])'
  BY <1>1 DEF ClaimsAreOut, PinsAgree, OnePathOneOwner
<1> QED
  BY <1>2 DEF PlanSound, Planless, Writing, Finishing

\* A successful prepare claims only paths nobody claims yet, of a bundle the
\* pin admits.
LEMMA PreparedSound ==
  ASSUME PlanInv, NEW s \in Syncs, NEW r \in Refs, Prepare(s, r)
  PROVE  PlanSound(s)'
<1> DEFINE x == man[s].source
           b == offers[x][r]
           files == Out[r][b.content]
           entry == [source |-> x, version |-> b.version,
                     digest |-> b.content, files |-> files]
<1>1. PlanSound(s) /\ TypeOK
  BY DEF PlanInv
<1>2. plan'[s] = [plan[s] EXCEPT ![r] = entry]
  BY <1>1 DEF Prepare, TypeOK
<1>3. \A q \in Refs : plan'[s][q] = IF q = r THEN entry ELSE plan[s][q]
  BY <1>1, <1>2 DEF TypeOK, Lock
<1>4. out'[s] = Merge(out[s], files)
  BY <1>1 DEF Prepare, TypeOK
<1>5. \A p \in Paths : out'[s][p] = IF files[p] # None THEN files[p] ELSE out[s][p]
  BY <1>4 DEF Merge
<1>6. \A p \in Paths : files[p] # None => out[s][p] = None
  BY DEF Prepare, Collides
<1>7. Acceptable(s, r, b)
  BY DEF Prepare
<1>8. entry.files = files /\ entry.source = x /\ entry.version = b.version
      /\ entry.digest = b.content
  OBVIOUS
<1>9. wanted'[s] = wanted[s] \ {r} /\ pc'[s] = "prepare" /\ man'[s] = man[s]
      /\ old'[s] = old[s] /\ pc[s] = "prepare"
  BY <1>1 DEF Prepare, TypeOK
<1>10. man[s].skills \subseteq Refs
  BY <1>1 DEF TypeOK, Manifest
<1>11. entry # None
  <2>1. x \in Sources
    BY <1>1 DEF TypeOK, Manifest
  <2>2. b \in Bundle /\ b.content \in DOMAIN Out[r]
    <3>1. b \in Bundle \cup {None}
      BY <1>1, <2>1 DEF TypeOK
    <3> QED
      BY <1>7, <3>1 DEF Acceptable
  <2>3. files \in FileMap
    BY <2>2, OutAssumption
  <2>4. b.version \in Versions /\ b.content \in Contents
    BY <2>2 DEF Bundle
  <2>5. entry \in Entry
    <3> HIDE DEF x, b, files
    <3> QED
      BY <2>1, <2>3, <2>4 DEF Entry
  <2> HIDE DEF entry
  <2> QED
    BY <2>5, NoneAssumption
<1> HIDE DEF files, entry, x
<1>12. ClaimsAreOut(s)'
  BY <1>1, <1>3, <1>5, <1>8 DEF PlanSound, ClaimsAreOut
<1>13. OnePathOneOwner(plan[s])'
  BY <1>1, <1>3, <1>6, <1>8 DEF PlanSound, ClaimsAreOut, OnePathOneOwner
<1>14. PinsAgree(s)'
  <2>1. old[s][r] # None =>
          /\ x \in Pinnable /\ old[s][r].version = b.version => old[s][r].digest = b.content
          /\ x \in Fixed /\ old[s][r].source = x => old[s][r].version = b.version
    BY <1>7 DEF Acceptable, DigestPinHolds, FixedPinHolds, x
  <2> HIDE DEF b
  <2> QED
    BY <1>1, <1>3, <1>8, <1>9, <2>1 DEF PlanSound, PinsAgree
<1>15. \A q \in man'[s].skills : q \in wanted'[s] \/ plan'[s][q] # None
  BY <1>1, <1>3, <1>9, <1>10, <1>11 DEF PlanSound, Planless
<1> QED
  BY <1>9, <1>12, <1>13, <1>14, <1>15 DEF PlanSound, Planless, Writing, Finishing

LEMMA PlanStep == PlanInv /\ [Next]_vars => PlanInv'
<1> SUFFICES ASSUME PlanInv, [Next]_vars PROVE PlanInv'
  OBVIOUS
<1> USE DEF fileVars, worldVars, countVars, runVars
<1> DEFINE Rest == LocksAreCollisionFree' /\ \A s \in Syncs : PlanSound(s)'
<1>0. TypeOK /\ LocksAreCollisionFree /\ \A s \in Syncs : PlanSound(s)
  BY DEF PlanInv
\* A step of one run leaves the others alone and, but for the last two, the
\* locks.
<1>a. ASSUME NEW s \in Syncs, PlanSound(s)',
             \A t \in Syncs \ {s} :
               /\ pc'[t] = pc[t] /\ plan'[t] = plan[t] /\ out'[t] = out[t]
               /\ old'[t] = old[t] /\ man'[t] = man[t] /\ wanted'[t] = wanted[t]
      PROVE  \A t \in Syncs : PlanSound(t)'
  <2> SUFFICES ASSUME NEW t \in Syncs, t # s PROVE PlanSound(t)'
    BY <1>a
  <2>1. /\ pc'[t] = pc[t] /\ plan'[t] = plan[t] /\ out'[t] = out[t]
        /\ old'[t] = old[t] /\ man'[t] = man[t] /\ wanted'[t] = wanted[t]
    BY <1>a
  <2>2. PlanSound(t)
    BY <1>0
  <2> QED
    BY <2>1, <2>2, Untouched
<1>b. ASSUME UNCHANGED <<lock, lockTemp>> PROVE LocksAreCollisionFree'
  BY <1>0, <1>b DEF LocksAreCollisionFree, OnePathOneOwner
\* What is put into a lock owns no path twice, or is no lock.
<1>l. ASSUME NEW l, l \in Broken \/ OnePathOneOwner(l),
             lock' \in {lock, lockTemp, l}, lock' # None \/ lock' = lock,
             lockTemp' \in {lockTemp, l, None}
      PROVE  LocksAreCollisionFree'
  <2> SUFFICES ASSUME NEW k \in {lock', lockTemp'} \ (Broken \cup {None})
               PROVE  OnePathOneOwner(k)
    BY DEF LocksAreCollisionFree, OnePathOneOwner
  <2> HIDE DEF Broken
  <2> QED
    BY <1>0, <1>l DEF LocksAreCollisionFree
<1>u. ASSUME UNCHANGED <<pc, plan, out, old, man, wanted>>
      PROVE  \A t \in Syncs : PlanSound(t)'
  <2> SUFFICES ASSUME NEW t \in Syncs PROVE PlanSound(t)'
    OBVIOUS
  <2>1. PlanSound(t)
    BY <1>0
  <2> QED
    BY <1>u, <2>1, Untouched
<1>c. ASSUME NEW s \in Syncs, Return(s) PROVE \A t \in Syncs : PlanSound(t)'
  <2>1. PlanSound(s)'
    BY <1>0, <1>c, WithoutPlan DEF Return, TypeOK, Planless
  <2> QED
    BY <1>0, <1>a, <1>c, <2>1 DEF Return, TypeOK
<1>1. ASSUME NEW s \in Syncs, Start(s) PROVE Rest
  <2>1. PlanSound(s)'
    BY <1>0, <1>1, WithoutPlan DEF Start, TypeOK, PlanSound, Planless
  <2> QED
    BY <1>0, <1>1, <1>a, <1>b, <2>1 DEF Start, TypeOK
<1>2. ASSUME NEW s \in Syncs, StartFetch(s) PROVE Rest
  <2>1. PlanSound(s)'
    <3>1. plan'[s] = NoLock
      BY <1>0, <1>2 DEF StartFetch, PlanSound, Planless
    <3>2. pc'[s] = "prepare" /\ man'[s].skills = wanted'[s]
      BY <1>0, <1>2 DEF StartFetch, TypeOK
    <3> QED
      BY <3>1, <3>2, WithoutPlan
  <2> QED
    BY <1>0, <1>2, <1>a, <1>b, <2>1 DEF StartFetch, TypeOK
<1>3. ASSUME NEW s \in Syncs, ReadLock(s) PROVE Rest
  <2>1. CASE Return(s)
    BY <1>3, <2>1, <1>b, <1>c DEF ReadLock
  <2>2. CASE ~Return(s)
    <3>1. PlanSound(s)'
      BY <1>0, <1>3, <2>2, WithoutPlan DEF ReadLock, TypeOK, PlanSound, Planless
    <3> QED
      BY <1>0, <1>3, <2>2, <1>a, <1>b, <3>1 DEF ReadLock, TypeOK
  <2> QED
    BY <2>1, <2>2
<1>4. ASSUME NEW s \in Syncs, ListRefs(s) PROVE Rest
  <2>1. CASE Return(s)
    BY <1>4, <2>1, <1>b, <1>c DEF ListRefs
  <2>2. CASE ~Return(s)
    <3>1. /\ pc' = [pc EXCEPT ![s] = "prepare"]
          /\ wanted' = [wanted EXCEPT ![s] = Listed(s)]
          /\ man' = [man EXCEPT ![s].skills = Listed(s)]
          /\ UNCHANGED <<plan, old, out>>
      BY <1>4, <2>2 DEF ListRefs
    <3>2. pc'[s] = "prepare" /\ wanted'[s] = Listed(s) /\ man'[s].skills = Listed(s)
      BY <1>0, <3>1 DEF TypeOK, Manifest
    <3>3. plan'[s] = NoLock
      BY <1>0, <1>4, <3>1 DEF ListRefs, PlanSound, Planless
    <3>4. PlanSound(s)'
      BY <3>2, <3>3, WithoutPlan
    <3> QED
      BY <1>0, <1>4, <1>a, <1>b, <3>1, <3>4 DEF TypeOK, ListRefs
  <2> QED
    BY <2>1, <2>2
<1>5. ASSUME NEW s \in Syncs, NEW r \in Refs, Prepare(s, r) PROVE Rest
  BY <1>0, <1>5, <1>a, <1>b, PreparedSound DEF PlanInv, Prepare, TypeOK
<1>6. ASSUME NEW s \in Syncs, NEW r \in Refs, PrepareFails(s, r) PROVE Rest
  BY <1>6, <1>b, <1>c DEF PrepareFails
<1>7. ASSUME NEW s \in Syncs, BeginWrite(s) PROVE Rest
  <2>1. CASE Return(s)
    BY <1>7, <2>1, <1>b, <1>c DEF BeginWrite
  <2>2. CASE ~Return(s)
    <3>1. PlanSound(s)'
      BY <1>0, <1>7, <2>2, MovedOn DEF BeginWrite, TypeOK, Planless, Writing
    <3> QED
      BY <1>0, <1>7, <2>2, <1>a, <1>b, <3>1 DEF BeginWrite, TypeOK
  <2> QED
    BY <2>1, <2>2
<1>8. ASSUME NEW s \in Syncs, NEW p \in Paths, KeepEdited(s, p) PROVE Rest
  BY <1>8, <1>b, <1>u DEF KeepEdited
<1>d. ASSUME NEW s \in Syncs, UNCHANGED <<plan, out, old, man, wanted>>,
             pc[s] \in Writing \cup Finishing,
             \E step \in Writing \cup Finishing : pc' = [pc EXCEPT ![s] = step]
      PROVE  \A t \in Syncs : PlanSound(t)'
  <2>1. pc'[s] \in Writing \cup Finishing
    BY <1>0, <1>d DEF TypeOK
  <2>2. wanted[s] = {}
    BY <1>0, <1>d DEF PlanSound
  <2>3. PlanSound(s)'
    BY <1>0, <1>d, <2>1, <2>2, MovedOn DEF Planless, Writing, Finishing
  <2> QED
    BY <1>0, <1>a, <1>d, <2>3 DEF TypeOK
<1>9. ASSUME NEW s \in Syncs, NEW p \in Paths, ChooseWrite(s, p) PROVE Rest
  BY <1>9, <1>b, <1>d DEF ChooseWrite, Writing
<1>10. ASSUME NEW s \in Syncs, OpenTemp(s) \/ FillTemp(s) PROVE Rest
  BY <1>10, <1>b, <1>d DEF OpenTemp, FillTemp, Writing
<1>11. ASSUME NEW s \in Syncs, Rename(s) PROVE Rest
  <2>1. CASE Return(s)
    BY <1>11, <2>1, <1>b, <1>c DEF Rename
  <2>2. CASE ~Return(s)
    BY <1>11, <2>2, <1>b, <1>d DEF Rename, Writing
  <2> QED
    BY <2>1, <2>2
<1>12. ASSUME NEW s \in Syncs, EndWrite(s) PROVE Rest
  <2>1. CASE Return(s)
    BY <1>12, <2>1, <1>b, <1>c DEF EndWrite
  <2>2. CASE ~Return(s)
    BY <1>12, <2>2, <1>b, <1>d DEF EndWrite, Writing, Finishing
  <2> QED
    BY <2>1, <2>2
<1>13. ASSUME NEW s \in Syncs, NEW p \in Paths, CheckStale(s, p) PROVE Rest
  <2>1. CASE pc' = pc
    BY <1>13, <2>1, <1>b, <1>u DEF CheckStale
  <2>2. CASE pc' # pc
    BY <1>13, <2>2, <1>b, <1>d DEF CheckStale, Finishing
  <2> QED
    BY <2>1, <2>2
<1>14. ASSUME NEW s \in Syncs, Remove(s) PROVE Rest
  BY <1>14, <1>b, <1>d DEF Remove, Finishing
<1>15. ASSUME NEW s \in Syncs, SaveLock(s) PROVE Rest
  <2>1. LocksAreCollisionFree'
    BY <1>15, <1>l DEF SaveLock, Broken
  <2> QED
    BY <1>15, <2>1, <1>d DEF SaveLock, Finishing
\* The lock that is saved is the run's plan.
<1>15f. ASSUME NEW s \in Syncs, FillLock(s) PROVE Rest
  <2>1. PICK l \in Over(OpenedLock(s), plan[s]) : PutIntoLock(s, l)
    BY <1>15f DEF FillLock
  <2>2. l \in Broken \/ OnePathOneOwner(l)
    BY <1>0, OverIs DEF PlanSound
  <2>3. l # None
    BY <1>0, OverIs, NoneAssumption, BrokenAssumption DEF TypeOK
  <2>4. LocksAreCollisionFree'
    BY <1>l, <2>1, <2>2, <2>3 DEF PutIntoLock
  <2> QED
    BY <1>15f, <2>4, <1>d DEF FillLock, Finishing
<1>16. ASSUME NEW s \in Syncs, CommitLock(s) PROVE Rest
  <2>1. LocksAreCollisionFree'
    BY <1>16, <1>l DEF CommitLock, Broken
  <2> QED
    BY <1>16, <2>1, <1>c DEF CommitLock
<1>17. ASSUME NEW s \in Syncs, Fail(s) PROVE Rest
  <2>1. LocksAreCollisionFree'
    <3>1. CASE UNCHANGED <<lock, lockTemp>>
      BY <1>b, <3>1
    <3>2. CASE PutIntoLock(s, Torn)
      BY <1>l, <3>2, BrokenAssumption DEF PutIntoLock, Broken
    <3> QED
      BY <1>17, <3>1, <3>2 DEF Fail
  <2> QED
    BY <1>17, <1>c, <2>1 DEF Fail
<1>18. ASSUME World PROVE Rest
  BY <1>18, <1>b, <1>u DEF World, SourceMoves, ChangeManifest, Edit, Seal, Unseal
<1>19. ASSUME UNCHANGED vars PROVE Rest
  BY <1>19, <1>b, <1>u DEF vars
<1>20. Rest
  BY <1>1, <1>2, <1>3, <1>4, <1>5, <1>6, <1>7, <1>8, <1>9, <1>10, <1>11,
     <1>12, <1>13, <1>14, <1>15, <1>15f, <1>16, <1>17, <1>18, <1>19
  DEF Next, Step
<1> QED
  BY <1>20, TypeStep DEF PlanInv

\* However many runs and fetches overlap, fail or crash, no lock on disk that
\* parses, and none about to replace it, has two skills that own one path (the collision
\* check of SyncWith, syncer.go:394-399).
THEOREM LocksNeverCollide == Spec => []LocksAreCollisionFree
<1>1. PlanInv => LocksAreCollisionFree
  BY DEF PlanInv
<1> QED
  BY <1>1, PlanInit, PlanStep, PTL DEF Spec

\* No run writes or removes a file before each skill it wants is fetched, has
\* passed its pin and collides with no other (SyncWith, syncer.go:408-409).
THEOREM WritesAreCompletelyPlanned == Spec => []PlanIsComplete
<1>1. PlanInv => PlanIsComplete
  <2> SUFFICES ASSUME PlanInv, NEW s \in Syncs, pc[s] \in Writing \cup Finishing
               PROVE  /\ \A r \in man[s].skills : plan[s][r] # None
                      /\ OnePathOneOwner(plan[s])
                      /\ PinsAgree(s)
    BY DEF PlanIsComplete, PinsAgree
  <2>1. PlanSound(s)
    BY DEF PlanInv
  <2> QED
    BY <2>1 DEF PlanSound, Planless, Writing, Finishing
<1> QED
  BY <1>1, PlanInit, PlanStep, PTL DEF Spec

-----------------------------------------------------------------------------
(* The developer's edits.  For any number of runs, a run is never about to  *)
(* replace or remove a file that was edited before it looked, unless it     *)
(* writes with force, could not read the file, or the lock it has read says *)
(* nothing of it.                                                           *)

EditsAreEdits == \A p \in Paths : author[p] \in {"edit", "raced"} => disk[p] \in Edits

NoEditTargeted(s) ==
  \A p \in Paths : cur[s] = p /\ author[p] = "edit" =>
    /\ pc[s] \in {"temp", "fill", "rename"} => force[s] \/ blind[s] \/ Recorded(old[s], p) = {}
    /\ pc[s] # "remove"

\* A file that a run still fills when another has moved it into place is not
\* one that the developer has saved since.
FilledInPlace(s) ==
  \A p \in Paths : pc[s] = "fill" /\ cur[s] = p /\ fd[s] = "placed" => author[p] = "sync"

EditInv ==
  TypeOK /\ EditsAreEdits /\ \A s \in Syncs : NoEditTargeted(s) /\ FilledInPlace(s)

\* Locks record what translators write.
LEMMA RecordedIsData ==
  ASSUME NEW l \in Lock, NEW p \in Paths
  PROVE  Recorded(l, p) \subseteq Data
<1>1. ASSUME NEW r \in Refs, l[r] # None PROVE l[r].files[p] \in Data \cup {None}
  <2>1. l[r] \in Entry
    BY <1>1 DEF Lock
  <2> QED
    BY <2>1 DEF Entry, FileMap
<1> QED
  BY <1>1 DEF Recorded

\* An edited file, if it can be read, is never taken for what sync recorded or
\* brings.
LEMMA EditIsSeen ==
  ASSUME EditInv, NEW s \in Syncs, NEW p \in Paths, author[p] = "edit"
  PROVE  /\ ~Unchanged(s, p)
         /\ Recorded(old[s], p) # {} => LocallyEdited(s, p) \/ p \in unreadable
<1>1. disk[p] \in Edits
  BY DEF EditInv, EditsAreEdits
<1>2. old[s] \in Lock /\ out[s][p] \in Data \cup {None}
  BY DEF EditInv, TypeOK, FileMap
<1>3. disk[p] # None /\ disk[p] \notin Data
  BY <1>1, DataAssumption, NoneAssumption
<1>4. Recorded(old[s], p) \subseteq Data
  BY <1>2, RecordedIsData
<1> QED
  BY <1>2, <1>3, <1>4 DEF Unchanged, LocallyEdited

LEMMA EditInit == Init => EditInv
BY TypeInit DEF Init, EditInv, EditsAreEdits, NoEditTargeted, FilledInPlace

LEMMA EditStep == EditInv /\ [Next]_vars => EditInv'
<1> SUFFICES ASSUME EditInv, [Next]_vars PROVE EditInv'
  OBVIOUS
<1> USE DEF fileVars, worldVars, countVars, runVars
<1> DEFINE Aiming == {"temp", "fill", "rename", "remove"}
           Rest == EditsAreEdits' /\ \A t \in Syncs : NoEditTargeted(t)' /\ FilledInPlace(t)'
<1>0. TypeOK /\ EditsAreEdits /\ \A t \in Syncs : NoEditTargeted(t) /\ FilledInPlace(t)
  BY DEF EditInv
\* Most steps touch no file and aim at none.
<1>r. ASSUME \A p \in Paths : author'[p] = "edit" => author[p] = "edit",
             NEW t \in Syncs,
             \/ pc'[t] \notin Aiming
             \/ /\ pc'[t] = pc[t] /\ cur'[t] = cur[t]
                /\ force'[t] = force[t] /\ blind'[t] = blind[t] /\ old'[t] = old[t]
      PROVE  NoEditTargeted(t)'
  BY <1>0, <1>r DEF NoEditTargeted
<1>a. ASSUME UNCHANGED <<disk, author>>,
             \A t \in Syncs : \/ pc'[t] \notin Aiming
                              \/ /\ pc'[t] = pc[t] /\ cur'[t] = cur[t]
                                 /\ force'[t] = force[t] /\ blind'[t] = blind[t]
                                 /\ old'[t] = old[t] /\ (pc[t] = "fill" => fd'[t] = fd[t])
      PROVE  Rest
  <2>1. EditsAreEdits'
    BY <1>0, <1>a DEF EditsAreEdits
  <2>2. ASSUME NEW t \in Syncs PROVE NoEditTargeted(t)'
    BY <1>a, <1>r
  <2>3. ASSUME NEW t \in Syncs PROVE FilledInPlace(t)'
    BY <1>0, <1>a DEF FilledInPlace
  <2> QED
    BY <2>1, <2>2, <2>3
<1>b. ASSUME NEW s \in Syncs, Return(s), UNCHANGED <<disk, author>>,
             \A t \in Syncs : pc[t] = "fill" => fd'[t] = fd[t]
      PROVE  Rest
  <2>1. /\ pc'[s] = "idle"
        /\ \A t \in Syncs \ {s} : /\ pc'[t] = pc[t] /\ cur'[t] = cur[t]
                                  /\ force'[t] = force[t] /\ blind'[t] = blind[t]
                                  /\ old'[t] = old[t]
    BY <1>0, <1>b DEF Return, TypeOK
  <2> QED
    BY <1>a, <1>b, <2>1
<1>1. ASSUME NEW s \in Syncs, Start(s) PROVE Rest
  BY <1>0, <1>1, <1>a DEF Start, TypeOK
<1>2. ASSUME NEW s \in Syncs, StartFetch(s) PROVE Rest
  BY <1>0, <1>2, <1>a DEF StartFetch, TypeOK
<1>3. ASSUME NEW s \in Syncs, ReadLock(s) PROVE Rest
  <2>1. CASE Return(s)
    BY <1>3, <2>1, <1>b DEF ReadLock
  <2>2. CASE ~Return(s)
    BY <1>0, <1>3, <2>2, <1>a DEF ReadLock, TypeOK
  <2> QED
    BY <2>1, <2>2
<1>4. ASSUME NEW s \in Syncs, ListRefs(s) PROVE Rest
  <2>1. CASE Return(s)
    BY <1>4, <2>1, <1>b DEF ListRefs
  <2>2. CASE ~Return(s)
    BY <1>0, <1>4, <2>2, <1>a DEF ListRefs, TypeOK
  <2> QED
    BY <2>1, <2>2
<1>5. ASSUME NEW s \in Syncs, NEW r \in Refs, Prepare(s, r) PROVE Rest
  BY <1>0, <1>5, <1>a DEF Prepare, TypeOK
<1>6. ASSUME NEW s \in Syncs, NEW r \in Refs, PrepareFails(s, r) PROVE Rest
  BY <1>6, <1>b DEF PrepareFails
<1>7. ASSUME NEW s \in Syncs, BeginWrite(s) PROVE Rest
  <2>1. CASE Return(s)
    BY <1>7, <2>1, <1>b DEF BeginWrite
  <2>2. CASE ~Return(s)
    BY <1>0, <1>7, <2>2, <1>a DEF BeginWrite, TypeOK
  <2> QED
    BY <2>1, <2>2
<1>8. ASSUME NEW s \in Syncs, NEW p \in Paths, KeepEdited(s, p) PROVE Rest
  BY <1>0, <1>8, <1>a DEF KeepEdited, TypeOK
\* The run looks at the file and sees the edit.
<1>9. ASSUME NEW s \in Syncs, NEW p \in Paths, ChooseWrite(s, p) PROVE Rest
  <2>1. /\ pc'[s] = "temp" /\ cur'[s] = p /\ force'[s] = force[s] /\ old'[s] = old[s]
        /\ blind'[s] = (~force[s] /\ p \in unreadable)
        /\ \A t \in Syncs \ {s} : /\ pc'[t] = pc[t] /\ cur'[t] = cur[t]
                                  /\ force'[t] = force[t] /\ blind'[t] = blind[t]
                                  /\ old'[t] = old[t]
        /\ UNCHANGED <<disk, author, fd>>
    BY <1>0, <1>9 DEF ChooseWrite, TypeOK
  <2>2. author[p] = "edit" => force[s] \/ p \in unreadable \/ Recorded(old[s], p) = {}
    BY <1>9, EditIsSeen DEF ChooseWrite
  <2>3. NoEditTargeted(s)'
    <3> SUFFICES ASSUME author'[p] = "edit"
                 PROVE  force'[s] \/ blind'[s] \/ Recorded(old'[s], p) = {}
      BY <2>1 DEF NoEditTargeted
    <3>1. Recorded(old'[s], p) = Recorded(old[s], p)
      BY <2>1
    <3> QED
      BY <2>1, <2>2, <3>1
  <2>4. ASSUME NEW t \in Syncs \ {s} PROVE NoEditTargeted(t)'
    BY <1>r, <2>1
  <2>5. ASSUME NEW t \in Syncs PROVE FilledInPlace(t)'
    BY <1>0, <2>1 DEF FilledInPlace
  <2> QED
    BY <1>0, <2>1, <2>3, <2>4, <2>5 DEF EditsAreEdits
\* From the look on, a run aims at the same file.
<1>c. ASSUME NEW s \in Syncs, UNCHANGED <<author, cur, force, blind, old>>,
             \/ pc[s] = "temp" /\ pc'[s] = "fill"
             \/ pc[s] = "fill" /\ pc'[s] = "rename",
             \A t \in Syncs \ {s} : pc'[t] = pc[t]
      PROVE  \A t \in Syncs : NoEditTargeted(t)'
  <2> SUFFICES ASSUME NEW t \in Syncs, NEW p \in Paths, cur[t] = p, author[p] = "edit"
               PROVE  /\ pc'[t] \in {"temp", "fill", "rename"} =>
                           force[t] \/ blind[t] \/ Recorded(old[t], p) = {}
                      /\ pc'[t] # "remove"
    BY <1>c DEF NoEditTargeted
  <2>1. /\ pc[t] \in {"temp", "fill", "rename"} =>
             force[t] \/ blind[t] \/ Recorded(old[t], p) = {}
        /\ pc[t] # "remove"
    BY <1>0 DEF NoEditTargeted
  <2> QED
    BY <1>c, <2>1
<1>10. ASSUME NEW s \in Syncs, OpenTemp(s) PROVE Rest
  <2>1. /\ pc[s] = "temp" /\ pc'[s] = "fill" /\ fd'[s] = "temp"
        /\ \A t \in Syncs \ {s} : pc'[t] = pc[t] /\ fd'[t] = fd[t]
        /\ UNCHANGED <<disk, author, cur, force, blind, old>>
    BY <1>0, <1>10 DEF OpenTemp, TypeOK
  <2>2. ASSUME NEW t \in Syncs PROVE FilledInPlace(t)'
    BY <1>0, <2>1 DEF FilledInPlace
  <2> QED
    BY <1>0, <1>c, <2>1, <2>2 DEF EditsAreEdits
\* What a run fills is no edit.
<1>d. ASSUME NEW s \in Syncs, pc[s] = "fill", NEW d, PutInto(s, d), UNCHANGED author
      PROVE  EditsAreEdits'
  <2>1. \A p \in Paths : disk'[p] = disk[p] \/ (cur[s] = p /\ fd[s] = "placed")
    BY <1>0, <1>d DEF PutInto, TypeOK
  <2> QED
    BY <1>0, <1>d, <2>1 DEF EditsAreEdits, FilledInPlace
<1>10f. ASSUME NEW s \in Syncs, FillTemp(s) PROVE Rest
  <2>1. /\ pc[s] = "fill" /\ pc'[s] = "rename"
        /\ \A t \in Syncs \ {s} : pc'[t] = pc[t]
        /\ UNCHANGED <<author, cur, force, blind, old, fd>>
    BY <1>0, <1>10f DEF FillTemp, TypeOK
  <2>2. EditsAreEdits'
    BY <1>10f, <1>d, <2>1 DEF FillTemp
  <2>3. ASSUME NEW t \in Syncs PROVE FilledInPlace(t)'
    BY <1>0, <2>1 DEF FilledInPlace
  <2> QED
    BY <1>c, <2>1, <2>2, <2>3
<1>11. ASSUME NEW s \in Syncs, Rename(s) PROVE Rest
  <2>1. CASE temp[cur[s]] = None
    BY <1>11, <2>1, <1>b DEF Rename
  <2>2. CASE temp[cur[s]] # None
    <3>1. /\ disk' = [disk EXCEPT ![cur[s]] = temp[cur[s]]]
          /\ author' = [author EXCEPT ![cur[s]] = "sync"]
          /\ pc' = [pc EXCEPT ![s] = "check"]
          /\ cur' = [cur EXCEPT ![s] = None]
          /\ blind' = [blind EXCEPT ![s] = FALSE]
          /\ fd' = Renamed(Filling(cur[s]))
          /\ UNCHANGED <<force, old>>
      BY <1>11, <2>2 DEF Rename
    <3>2. \A p \in Paths : \/ author'[p] = "sync"
                           \/ p # cur[s] /\ author'[p] = author[p] /\ disk'[p] = disk[p]
      BY <1>0, <3>1 DEF TypeOK
    <3>3. /\ pc'[s] = "check"
          /\ \A t \in Syncs \ {s} : /\ pc'[t] = pc[t] /\ cur'[t] = cur[t]
                                    /\ force'[t] = force[t] /\ blind'[t] = blind[t]
                                    /\ old'[t] = old[t]
      BY <1>0, <3>1 DEF TypeOK
    <3>4. EditsAreEdits'
      BY <1>0, <3>2 DEF EditsAreEdits
    <3>5. ASSUME NEW t \in Syncs PROVE NoEditTargeted(t)'
      BY <1>r, <3>2, <3>3
    <3>6. ASSUME NEW t \in Syncs PROVE FilledInPlace(t)'
      <4> SUFFICES ASSUME NEW p \in Paths, pc'[t] = "fill", cur'[t] = p, fd'[t] = "placed",
                          p # cur[s], author'[p] = author[p]
                   PROVE  author'[p] = "sync"
        BY <3>2 DEF FilledInPlace
      <4>1. pc[t] = "fill" /\ cur[t] = p
        BY <3>3
      <4>2. fd'[t] = fd[t]
        BY <3>1, <4>1 DEF Renamed, Filling
      <4> QED
        BY <1>0, <4>1, <4>2 DEF FilledInPlace
    <3> QED
      BY <3>4, <3>5, <3>6
  <2> QED
    BY <2>1, <2>2
<1>12. ASSUME NEW s \in Syncs, EndWrite(s) PROVE Rest
  <2>1. CASE Return(s)
    BY <1>12, <2>1, <1>b DEF EndWrite
  <2>2. CASE ~Return(s)
    BY <1>0, <1>12, <2>2, <1>a DEF EndWrite, TypeOK
  <2> QED
    BY <2>1, <2>2
<1>13. ASSUME NEW s \in Syncs, NEW p \in Paths, CheckStale(s, p) PROVE Rest
  <2>1. UNCHANGED <<disk, author, force, blind, old, fd>>
    BY <1>13 DEF CheckStale
  <2>2. CASE Unchanged(s, p)
    <3>1. author[p] # "edit"
      BY <2>2, EditIsSeen
    <3>2. \A t \in Syncs : \/ pc'[t] = pc[t] /\ cur'[t] = cur[t]
                           \/ pc'[t] = "remove" /\ cur'[t] = p
      BY <1>0, <1>13 DEF CheckStale, TypeOK
    <3>3. ASSUME NEW t \in Syncs PROVE NoEditTargeted(t)' /\ FilledInPlace(t)'
      BY <1>0, <2>1, <3>1, <3>2 DEF NoEditTargeted, FilledInPlace
    <3> QED
      BY <1>0, <2>1, <3>3 DEF EditsAreEdits
  <2>3. CASE ~Unchanged(s, p)
    BY <1>13, <2>1, <2>3, <1>a DEF CheckStale
  <2> QED
    BY <2>2, <2>3
<1>14. ASSUME NEW s \in Syncs, Remove(s) PROVE Rest
  <2>1. \/ /\ disk' = [disk EXCEPT ![cur[s]] = None]
           /\ author' = [author EXCEPT ![cur[s]] = "none"]
           /\ fd' = Unlinked(Filling(cur[s]))
        \/ UNCHANGED <<disk, author, fd>>
    BY <1>14 DEF Remove
  <2>2. \A p \in Paths : \/ p = cur[s] /\ author'[p] = "none"
                         \/ author'[p] = author[p] /\ disk'[p] = disk[p]
    BY <1>0, <2>1 DEF TypeOK
  <2>3. /\ pc'[s] = "stale"
        /\ \A t \in Syncs \ {s} : pc'[t] = pc[t] /\ cur'[t] = cur[t]
        /\ UNCHANGED <<force, blind, old>>
    BY <1>0, <1>14 DEF Remove, TypeOK
  <2>4. EditsAreEdits'
    BY <1>0, <2>2 DEF EditsAreEdits
  <2>5. ASSUME NEW t \in Syncs PROVE NoEditTargeted(t)'
    BY <1>r, <2>2, <2>3
  <2>6. ASSUME NEW t \in Syncs PROVE FilledInPlace(t)'
    <3> SUFFICES ASSUME NEW p \in Paths, pc'[t] = "fill", cur'[t] = p, fd'[t] = "placed"
                 PROVE  author'[p] = "sync"
      BY DEF FilledInPlace
    <3>1. pc[t] = "fill" /\ cur[t] = p
      BY <2>3
    <3>2. CASE UNCHANGED <<author, fd>>
      BY <1>0, <3>1, <3>2 DEF FilledInPlace
    <3>3. CASE fd' = Unlinked(Filling(cur[s]))
      <4>1. fd[t] = "placed" /\ p # cur[s]
        BY <3>1, <3>3 DEF Unlinked, Filling
      <4> QED
        BY <1>0, <2>2, <3>1, <4>1 DEF FilledInPlace
    <3> QED
      BY <2>1, <3>2, <3>3
  <2> QED
    BY <2>4, <2>5, <2>6
<1>15. ASSUME NEW s \in Syncs, SaveLock(s) PROVE Rest
  BY <1>0, <1>15, <1>a DEF SaveLock, TypeOK
<1>15f. ASSUME NEW s \in Syncs, FillLock(s) PROVE Rest
  BY <1>0, <1>15f, <1>a DEF FillLock, TypeOK
<1>16. ASSUME NEW s \in Syncs, CommitLock(s) PROVE Rest
  <2>1. \A t \in Syncs : pc[t] = "fill" => fd'[t] = fd[t]
    BY <1>16 DEF CommitLock, Renamed, FillingLock
  <2> QED
    BY <1>16, <1>b, <2>1 DEF CommitLock
<1>17. ASSUME NEW s \in Syncs, Fail(s) PROVE Rest
  <2>1. CASE disk' = disk
    BY <1>17, <1>b, <2>1 DEF Fail
  <2>2. CASE disk' # disk
    <3>1. pc[s] = "fill" /\ PutInto(s, Torn) /\ UNCHANGED <<author, fd>>
      BY <1>17, <2>2 DEF Fail
    <3>2. /\ pc'[s] = "idle"
          /\ \A t \in Syncs \ {s} : /\ pc'[t] = pc[t] /\ cur'[t] = cur[t]
                                    /\ force'[t] = force[t] /\ blind'[t] = blind[t]
                                    /\ old'[t] = old[t]
      BY <1>0, <1>17 DEF Fail, Return, TypeOK
    <3>3. ASSUME NEW t \in Syncs PROVE NoEditTargeted(t)'
      BY <1>r, <3>1, <3>2
    <3>4. ASSUME NEW t \in Syncs PROVE FilledInPlace(t)'
      BY <1>0, <3>1, <3>2 DEF FilledInPlace
    <3> QED
      BY <1>d, <3>1, <3>3, <3>4
  <2> QED
    BY <2>1, <2>2
\* An edit of a file a run aims at is one that raced with it.
<1>18. ASSUME NEW p \in Paths, Edit(p) PROVE Rest
  <2>1. UNCHANGED <<pc, cur, force, blind, old>> /\ fd' = Unlinked(Filling(p))
    BY <1>18 DEF Edit
  <2>2. PICK d \in (Edits \cup {None}) \ {disk[p]} :
          /\ disk' = [disk EXCEPT ![p] = d]
          /\ author' = [author EXCEPT ![p] =
               CASE d = None \/ @ = "none" -> "none"
                 [] d # None /\ @ # "none" -> IF Targeted(p) THEN "raced" ELSE "edit"]
    BY <1>18 DEF Edit
  <2>3. \A q \in Paths \ {p} : author'[q] = author[q] /\ disk'[q] = disk[q]
    BY <1>0, <2>2 DEF TypeOK
  <2>4. /\ disk'[p] = d
        /\ d = None => author'[p] = "none"
        /\ author'[p] = "edit" => ~Targeted(p)
    BY <1>0, <2>2 DEF TypeOK
  <2>5. EditsAreEdits'
    BY <1>0, <2>3, <2>4 DEF EditsAreEdits
  <2>6. ASSUME NEW t \in Syncs PROVE NoEditTargeted(t)'
    <3>1. author'[p] = "edit" => ~(cur[t] = p /\ pc[t] \in Aiming)
      BY <2>4 DEF Targeted
    <3> QED
      BY <1>0, <2>1, <2>3, <3>1 DEF NoEditTargeted
  <2>7. ASSUME NEW t \in Syncs PROVE FilledInPlace(t)'
    <3> SUFFICES ASSUME NEW q \in Paths, pc[t] = "fill", cur[t] = q, fd'[t] = "placed"
                 PROVE  author'[q] = "sync"
      BY <2>1 DEF FilledInPlace
    <3>1. fd[t] = "placed" /\ q # p
      BY <2>1 DEF Unlinked, Filling
    <3> QED
      BY <1>0, <2>3, <3>1 DEF FilledInPlace
  <2> QED
    BY <2>5, <2>6, <2>7
<1>19. ASSUME UNCHANGED <<disk, author, fd, runVars>> PROVE Rest
  BY <1>19, <1>a
<1>20. Rest
  BY <1>1, <1>2, <1>3, <1>4, <1>5, <1>6, <1>7, <1>8, <1>9, <1>10, <1>10f, <1>11,
     <1>12, <1>13, <1>14, <1>15, <1>15f, <1>16, <1>17, <1>18, <1>19
  DEF Next, Step, World, SourceMoves, ChangeManifest, Seal, Unseal, vars
<1> QED
  BY <1>20, TypeStep DEF EditInv

-----------------------------------------------------------------------------
(* One run at a time.  Then the lock a run has read is the lock it will     *)
(* replace, what it saves is its plan, and the file it has open is still    *)
(* the .sgw-tmp one, which it finds empty when it begins to fill it.        *)
(* Several runs at once refute what follows from it: one that has read the  *)
(* lock before another has replaced it goes by the old one, and one that    *)
(* fills a file another has moved tears what is in place.                   *)

OneRun == \E s \in Syncs : \A t \in Syncs : t = s

AloneSound(s) ==
  /\ lock \notin Broken
  /\ fd[s] = "temp"
  /\ mode[s] = "fetch" => force[s] /\ pc[s] \in {"prepare"} \cup Writing
  /\ mode[s] = "sync" /\ pc[s] \notin {"idle", "readLock"} => old[s] = lock
  /\ pc[s] = "fillLock" => lockTemp = Empty
  /\ pc[s] = "commit" => lockTemp = plan[s]

AloneInv == TypeOK /\ \A s \in Syncs : AloneSound(s)

LEMMA AloneInit == Init => AloneInv
<1> SUFFICES ASSUME Init PROVE AloneInv
  OBVIOUS
<1>1. lock \notin Broken
  BY BrokenAssumption DEF Init, NoLock, Lock
<1> QED
  BY <1>1, TypeInit DEF Init, AloneInv, AloneSound

\* The only run there is moves no file that is open, for there is none.
LEMMA NoneElseFills ==
  ASSUME NEW s \in Syncs, \A t \in Syncs : t = s, AloneSound(s),
         NEW runs, s \notin runs
  PROVE  Renamed(runs)[s] = "temp" /\ Unlinked(runs)[s] = "temp"
BY DEF AloneSound, Renamed, Unlinked

LEMMA AloneStep == OneRun /\ AloneInv /\ [Next]_vars => AloneInv'
<1> SUFFICES ASSUME OneRun, AloneInv, [Next]_vars PROVE AloneInv'
  OBVIOUS
<1> USE DEF fileVars, worldVars, countVars, runVars
<1> PICK s \in Syncs : \A t \in Syncs : t = s
  BY DEF OneRun
<1>0. TypeOK /\ AloneSound(s)
  BY DEF AloneInv
<1>a. ASSUME Return(s), lock' \notin Broken, fd'[s] = "temp" PROVE AloneSound(s)'
  BY <1>0, <1>a DEF Return, TypeOK, AloneSound
<1>b. ASSUME Return(s), UNCHANGED <<lock, fd>> PROVE AloneSound(s)'
  BY <1>0, <1>a, <1>b DEF AloneSound
<1>1. ASSUME Start(s) PROVE AloneSound(s)'
  BY <1>0, <1>1 DEF Start, TypeOK, AloneSound
<1>2. ASSUME StartFetch(s) PROVE AloneSound(s)'
  BY <1>0, <1>2 DEF StartFetch, TypeOK, AloneSound
<1>3. ASSUME ReadLock(s) PROVE AloneSound(s)'
  <2>1. CASE ~Return(s)
    BY <1>0, <1>3, <2>1 DEF ReadLock, TypeOK, AloneSound, Writing
  <2> QED
    BY <1>3, <1>b, <2>1 DEF ReadLock
<1>4. ASSUME ListRefs(s) PROVE AloneSound(s)'
  <2>1. CASE Listed(s) # {}
    BY <1>0, <1>4, <2>1 DEF ListRefs, TypeOK, AloneSound, Writing
  <2> QED
    BY <1>4, <1>b, <2>1 DEF ListRefs
<1>5. ASSUME NEW r \in Refs, Prepare(s, r) PROVE AloneSound(s)'
  BY <1>0, <1>5 DEF Prepare, TypeOK, AloneSound
<1>6. ASSUME NEW r \in Refs, PrepareFails(s, r) PROVE AloneSound(s)'
  BY <1>6, <1>b DEF PrepareFails
<1>7. ASSUME BeginWrite(s) PROVE AloneSound(s)'
  <2>1. CASE ~Return(s)
    BY <1>0, <1>7, <2>1 DEF BeginWrite, TypeOK, AloneSound, Writing
  <2> QED
    BY <1>7, <1>b, <2>1 DEF BeginWrite
<1>8. ASSUME NEW p \in Paths, KeepEdited(s, p) \/ ChooseWrite(s, p) PROVE AloneSound(s)'
  BY <1>0, <1>8 DEF KeepEdited, ChooseWrite, TypeOK, AloneSound, Writing
<1>9. ASSUME OpenTemp(s) PROVE AloneSound(s)'
  BY <1>0, <1>9 DEF OpenTemp, TypeOK, AloneSound, Writing
<1>9f. ASSUME FillTemp(s) PROVE AloneSound(s)'
  BY <1>0, <1>9f DEF FillTemp, TypeOK, AloneSound, Writing
<1>10. ASSUME Rename(s) PROVE AloneSound(s)'
  <2>1. CASE temp[cur[s]] = None
    BY <1>10, <1>b, <2>1 DEF Rename
  <2>2. CASE temp[cur[s]] # None
    <3>1. s \notin Filling(cur[s])
      BY <1>10 DEF Rename, Filling
    <3>2. fd'[s] = "temp"
      BY <1>0, <1>10, <2>2, <3>1, NoneElseFills DEF Rename
    <3> QED
      BY <1>0, <1>10, <2>2, <3>2 DEF Rename, TypeOK, AloneSound, Writing
  <2> QED
    BY <2>1, <2>2
<1>11. ASSUME EndWrite(s) PROVE AloneSound(s)'
  <2>1. CASE ~Return(s)
    BY <1>0, <1>11, <2>1 DEF EndWrite, TypeOK, AloneSound, Writing
  <2> QED
    BY <1>11, <1>b, <2>1 DEF EndWrite
<1>12. ASSUME NEW p \in Paths, CheckStale(s, p) PROVE AloneSound(s)'
  BY <1>0, <1>12 DEF CheckStale, TypeOK, AloneSound, Writing
<1>13. ASSUME Remove(s) PROVE AloneSound(s)'
  <2>1. s \notin Filling(cur[s])
    BY <1>13 DEF Remove, Filling
  <2>2. fd'[s] = "temp"
    BY <1>0, <1>13, <2>1, NoneElseFills DEF Remove, AloneSound
  <2> QED
    BY <1>0, <1>13, <2>2 DEF Remove, TypeOK, AloneSound, Writing
<1>14. ASSUME SaveLock(s) PROVE AloneSound(s)'
  BY <1>0, <1>14 DEF SaveLock, TypeOK, AloneSound, Writing
<1>14f. ASSUME FillLock(s) PROVE AloneSound(s)'
  <2>1. PICK l \in Over(OpenedLock(s), plan[s]) : PutIntoLock(s, l)
    BY <1>14f DEF FillLock
  <2>2. OpenedLock(s) = Empty
    BY <1>0, <1>14f DEF FillLock, AloneSound, OpenedLock
  <2>3. lockTemp' = plan[s] /\ lock' = lock
    BY <1>0, <2>1, <2>2, OverEmpty DEF PutIntoLock, AloneSound
  <2> QED
    BY <1>0, <1>14f, <2>3 DEF FillLock, TypeOK, AloneSound, Writing
<1>15. ASSUME CommitLock(s) PROVE AloneSound(s)'
  <2>1. s \notin FillingLock
    BY <1>15 DEF CommitLock, FillingLock
  <2>2. fd'[s] = "temp"
    BY <1>0, <1>15, <2>1, NoneElseFills DEF CommitLock, AloneSound
  <2>3. plan[s] \notin Broken
    BY <1>0, BrokenAssumption DEF TypeOK
  <2>4. lock' \notin Broken
    BY <1>0, <1>15, <2>3 DEF CommitLock, AloneSound
  <2> QED
    BY <1>15, <1>a, <2>2, <2>4 DEF CommitLock
<1>15f. ASSUME Fail(s) PROVE AloneSound(s)'
  BY <1>0, <1>15f, <1>b DEF Fail, PutInto, PutIntoLock, AloneSound
<1>16. ASSUME World PROVE AloneSound(s)'
  <2>1. ASSUME NEW p \in Paths, Edit(p) PROVE AloneSound(s)'
    BY <1>0, <2>1 DEF Edit, Unlinked, AloneSound
  <2> QED
    BY <1>0, <1>16, <2>1 DEF World, SourceMoves, ChangeManifest, Seal, Unseal, AloneSound
<1>17. ASSUME UNCHANGED vars PROVE AloneSound(s)'
  BY <1>0, <1>17 DEF vars, AloneSound
<1>18. AloneSound(s)'
  BY <1>1, <1>2, <1>3, <1>4, <1>5, <1>6, <1>7, <1>8, <1>9, <1>10, <1>11,
     <1>9f, <1>12, <1>13, <1>14, <1>14f, <1>15, <1>15f, <1>16, <1>17
  DEF Next, Step
<1> QED
  BY <1>18, TypeStep DEF AloneInv

\* Then only these steps touch the project's files, and only one the lock.
LEMMA WhoWrites ==
  ASSUME OneRun, AloneInv, Next
  PROVE  /\ disk' # disk => \/ \E s \in Syncs : Rename(s) \/ Remove(s)
                            \/ \E p \in Paths : Edit(p)
         /\ lock' # lock => \E s \in Syncs : CommitLock(s)
<1> USE DEF fileVars, worldVars, countVars, runVars
<1>0. \A s \in Syncs : fd[s] = "temp"
  BY DEF AloneInv, AloneSound
<1>1. ASSUME NEW s \in Syncs, Step(s), ~Rename(s), ~Remove(s) PROVE disk' = disk
  <2>1. ASSUME NEW r \in Refs, Prepare(s, r) \/ PrepareFails(s, r) PROVE disk' = disk
    BY <2>1 DEF Prepare, PrepareFails
  <2>2. ASSUME NEW p \in Paths, KeepEdited(s, p) \/ ChooseWrite(s, p) \/ CheckStale(s, p)
        PROVE  disk' = disk
    BY <2>2 DEF KeepEdited, ChooseWrite, CheckStale
  <2>3. ASSUME Start(s) \/ ReadLock(s) \/ ListRefs(s) \/ BeginWrite(s) PROVE disk' = disk
    BY <2>3 DEF Start, ReadLock, ListRefs, BeginWrite
  <2>4. ASSUME OpenTemp(s) \/ FillTemp(s) \/ EndWrite(s) PROVE disk' = disk
    BY <1>0, <2>4 DEF OpenTemp, FillTemp, PutInto, EndWrite
  <2>5. ASSUME SaveLock(s) \/ FillLock(s) \/ CommitLock(s) PROVE disk' = disk
    BY <2>5 DEF SaveLock, FillLock, CommitLock
  <2> QED
    BY <1>1, <2>1, <2>2, <2>3, <2>4, <2>5 DEF Step
<1>2. ASSUME NEW s \in Syncs, Step(s), ~CommitLock(s) PROVE lock' = lock
  <2>1. ASSUME NEW r \in Refs, Prepare(s, r) \/ PrepareFails(s, r) PROVE lock' = lock
    BY <2>1 DEF Prepare, PrepareFails
  <2>2. ASSUME NEW p \in Paths, KeepEdited(s, p) \/ ChooseWrite(s, p) \/ CheckStale(s, p)
        PROVE  lock' = lock
    BY <2>2 DEF KeepEdited, ChooseWrite, CheckStale
  <2>3. ASSUME Start(s) \/ ReadLock(s) \/ ListRefs(s) \/ BeginWrite(s) PROVE lock' = lock
    BY <2>3 DEF Start, ReadLock, ListRefs, BeginWrite
  <2>4. ASSUME OpenTemp(s) \/ FillTemp(s) \/ Rename(s) \/ EndWrite(s) PROVE lock' = lock
    BY <2>4 DEF OpenTemp, FillTemp, Rename, EndWrite
  <2>5. ASSUME Remove(s) \/ SaveLock(s) \/ FillLock(s) PROVE lock' = lock
    BY <1>0, <2>5 DEF Remove, SaveLock, FillLock, PutIntoLock
  <2> QED
    BY <1>2, <2>1, <2>2, <2>3, <2>4, <2>5 DEF Step
<1>3. ASSUME NEW s \in Syncs, StartFetch(s) \/ Fail(s) PROVE disk' = disk /\ lock' = lock
  BY <1>0, <1>3 DEF StartFetch, Fail, PutInto, PutIntoLock
<1>4. ASSUME World PROVE lock' = lock /\ (disk' # disk => \E p \in Paths : Edit(p))
  BY <1>4 DEF World, SourceMoves, ChangeManifest, Edit, Seal, Unseal
<1> QED
  BY <1>1, <1>2, <1>3, <1>4 DEF Next

\* While one run is in flight at a time, of sync or of fetch, no edit of a
\* file that the lock records is overwritten or removed, whatever fails and
\* whenever the developer edits, but for edits between a run's look at the
\* file and its write, and for files the look could not read (locallyEdited,
\* syncer.go:244-263; removeIfUnchanged, 322-338).
THEOREM EditsAreSafe == ASSUME OneRun PROVE Spec => RecordedEditsSurvive
<1> DEFINE Safe == \A p \in Paths :
             author[p] = "edit" /\ Recorded(lock, p) # {} /\ disk'[p] # disk[p]
               => Deliberate(p) \/ Overlooked(p)
<1>1. EditInv /\ AloneInv /\ [Next]_vars => [Safe]_vars
  <2> SUFFICES ASSUME EditInv, AloneInv, Next, NEW p \in Paths,
                      author[p] = "edit", Recorded(lock, p) # {}, disk'[p] # disk[p]
               PROVE  Deliberate(p) \/ Overlooked(p)
    OBVIOUS
  <2> USE DEF fileVars, worldVars, countVars, runVars
  <2>0. TypeOK /\ \A s \in Syncs : NoEditTargeted(s) /\ AloneSound(s)
    BY DEF EditInv, AloneInv
  <2>1. ASSUME NEW s \in Syncs, Rename(s) PROVE Deliberate(p) \/ Overlooked(p)
    <3>1. cur[s] = p /\ pc[s] = "rename" /\ pc'[s] = "check"
      BY <2>0, <2>1 DEF Rename, TypeOK
    <3>2. force[s] \/ blind[s] \/ Recorded(old[s], p) = {}
      BY <2>0, <3>1 DEF NoEditTargeted
    <3>3. mode[s] = "fetch" \/ old[s] = lock
      BY <2>0, <3>1 DEF AloneSound, TypeOK
    <3>4. force[s] \/ blind[s]
      BY <2>0, <3>2, <3>3 DEF AloneSound
    <3> QED
      BY <3>1, <3>4 DEF Deliberate, Overlooked
  <2>2. ASSUME NEW s \in Syncs, Remove(s) PROVE FALSE
    BY <2>0, <2>2 DEF Remove, TypeOK, NoEditTargeted
  <2>3. ASSUME NEW q \in Paths, Edit(q) PROVE Deliberate(p)
    BY <2>0, <2>3 DEF Edit, Deliberate, TypeOK
  <2> QED
    BY <2>1, <2>2, <2>3, WhoWrites, OneRun
<1> QED
  BY <1>1, EditInit, EditStep, AloneInit, AloneStep, OneRun, PTL DEF Spec, RecordedEditsSurvive

\* While one run is in flight at a time, no lock ever replaces the digest it
\* records for a version of an immutable source, or moves the version of a
\* fixed one, whatever the sources serve and whichever runs fail or crash
\* (prepare, syncer.go:178-189).
THEOREM PinsAreKept == ASSUME OneRun PROVE Spec => PinsHold
<1> DEFINE Kept == \A r \in Refs : lock[r] # None /\ lock'[r] # None =>
             /\ lock'[r].source \in Pinnable /\ lock'[r].version = lock[r].version
                  => lock'[r].digest = lock[r].digest
             /\ lock'[r].source \in Fixed /\ lock'[r].source = lock[r].source
                  => lock'[r].version = lock[r].version
<1>1. PlanInv /\ AloneInv /\ [Next]_vars => [Kept]_vars
  <2> SUFFICES ASSUME PlanInv, AloneInv, Next PROVE Kept
    OBVIOUS
  <2> USE DEF fileVars, worldVars, countVars, runVars
  <2>1. CASE lock' = lock
    BY <2>1
  <2>2. ASSUME NEW s \in Syncs, CommitLock(s), lock' # lock PROVE Kept
    <3>1. lock' = lockTemp /\ pc[s] = "commit"
      BY <2>2 DEF CommitLock
    <3>2. lock' = plan[s]
      BY <3>1 DEF AloneInv, AloneSound
    <3>3. old[s] = lock
      BY <3>1 DEF AloneInv, AloneSound, TypeOK, Writing
    <3>4. PinsAgree(s)
      BY DEF PlanInv, PlanSound
    <3> QED
      BY <3>2, <3>3, <3>4 DEF PinsAgree
  <2> QED
    BY <2>1, <2>2, WhoWrites, OneRun
<1> QED
  BY <1>1, PlanInit, PlanStep, AloneInit, AloneStep, OneRun, PTL DEF Spec, PinsHold

-----------------------------------------------------------------------------
(* What the lock says of the project, while runs come one at a time, end    *)
(* and are no fetches.  A fetch that records nothing, a second run and a    *)
(* run that dies after writing each leave files the lock does not know.     *)

Undisturbed == OneRun /\ Fetchable = {} /\ MaxFaults = 0

\* Every output of a run is in its plan, since no skill is prepared twice.
OutIsPlanned(s) ==
  /\ \A p \in Paths : out[s][p] # None =>
       \E r \in Refs : plan[s][r] # None /\ plan[s][r].files[p] = out[s][p]
  /\ \A r \in wanted[s] : plan[s][r] = None

Known(p) == disk[p] \in Recorded(lock, p)
Written(s, p) == out[s][p] # None /\ disk[p] = out[s][p]

\* A file that sync wrote has the hash the lock records until the run
\* replaces it, and then the one the run is going to record; if the run has
\* nothing for its path, it is still to be removed.
Synced(s, p) ==
  author[p] = "sync" =>
    /\ p \notin Unsafe
    /\ pc[s] \notin Writing \cup Finishing => Known(p)
    /\ pc[s] \in Writing =>
         IF p \in todo[s] \/ out[s][p] = None THEN Known(p) ELSE Written(s, p)
    /\ pc[s] \in Finishing => Written(s, p) \/ (p \in todo[s] /\ Known(p))

\* What a run has in memory at each of its steps.
Tidy(s) ==
  /\ mode[s] = "sync"
  /\ pc[s] \in Planless => out[s] = NoFiles /\ plan[s] = NoLock /\ wanted[s] = {}
  /\ pc[s] \notin Writing \cup Finishing => kept[s] = {}
  /\ pc[s] \in Writing \cup Finishing => \A p \in Paths : out[s][p] # None => p \notin Unsafe
  /\ pc[s] \in Writing =>
       kept[s] \cap todo[s] = {} /\ \A p \in todo[s] : out[s][p] # None
  /\ pc[s] \in {"temp", "fill", "rename", "remove"} => cur[s] \in todo[s]
  /\ pc[s] = "fill" => temp[cur[s]] = Empty
  /\ pc[s] = "rename" => temp[cur[s]] = out[s][cur[s]]
  /\ pc[s] \in {"fillLock", "commit"} => todo[s] = {}

KeptSound(s) == \A p \in kept[s] : author[p] # "sync"

CleanInv ==
  /\ unreadable = {}
  /\ \A s \in Syncs : /\ OutIsPlanned(s) /\ Tidy(s) /\ KeptSound(s)
                      /\ \A p \in Paths : Synced(s, p)

LEMMA CleanInit == Init => CleanInv
<1> SUFFICES ASSUME Init, NEW s \in Syncs
             PROVE  /\ OutIsPlanned(s) /\ Tidy(s) /\ KeptSound(s)
                    /\ \A p \in Paths : Synced(s, p)
  BY DEF CleanInv, Init
<1> QED
  BY DEF Init, OutIsPlanned, Tidy, KeptSound, Synced, NoFiles, Writing, Finishing

\* The entry a successful prepare puts into the plan.
Prepared(s, r) ==
  [source |-> man[s].source, version |-> offers[man[s].source][r].version,
   digest |-> offers[man[s].source][r].content,
   files |-> Out[r][offers[man[s].source][r].content]]

LEMMA PreparedEntry ==
  ASSUME TypeOK, NEW s \in Syncs, NEW r \in Refs, Prepare(s, r)
  PROVE  Prepared(s, r) \in Entry /\ Prepared(s, r) # None
<1> DEFINE x == man[s].source
           b == offers[x][r]
<1>1. x \in Sources
  BY DEF TypeOK, Manifest
<1>2. b \in Bundle \cup {None} /\ b # None /\ b.content \in DOMAIN Out[r]
  BY <1>1 DEF TypeOK, Prepare, Acceptable
<1>3. b.version \in Versions /\ b.content \in Contents /\ Out[r][b.content] \in FileMap
  BY <1>2, OutAssumption DEF Bundle
<1>4. Prepared(s, r) = [source |-> x, version |-> b.version, digest |-> b.content,
                        files |-> Out[r][b.content]]
  BY DEF Prepared
<1> HIDE DEF x, b
<1>5. Prepared(s, r) \in Entry
  BY <1>1, <1>3, <1>4 DEF Entry
<1> QED
  BY <1>5, NoneAssumption

LEMMA PreparedIsPlanned ==
  ASSUME TypeOK, NEW s \in Syncs, NEW r \in Refs, Prepare(s, r), OutIsPlanned(s)
  PROVE  OutIsPlanned(s)'
<1> DEFINE entry == Prepared(s, r)
           files == entry.files
<1>1. entry # None
  BY PreparedEntry
<1>2. plan' = [plan EXCEPT ![s][r] = entry]
  BY DEF Prepare, Prepared
<1>3. /\ out' = [out EXCEPT ![s] = Merge(out[s], files)]
      /\ wanted' = [wanted EXCEPT ![s] = wanted[s] \ {r}] /\ r \in wanted[s]
  BY DEF Prepare, Prepared
<1> HIDE DEF entry
<1>4. \A q \in Refs : plan'[s][q] = IF q = r THEN entry ELSE plan[s][q]
  <2>1. plan[s] \in Lock /\ plan'[s] = [plan[s] EXCEPT ![r] = entry]
    BY <1>2 DEF TypeOK
  <2> QED
    BY <2>1 DEF Lock
<1>5. \A p \in Paths : out'[s][p] = IF files[p] # None THEN files[p] ELSE out[s][p]
  <2>1. out'[s] = Merge(out[s], files)
    BY <1>3 DEF TypeOK
  <2> QED
    BY <2>1 DEF Merge
<1>6. wanted'[s] = wanted[s] \ {r} /\ wanted[s] \subseteq Refs
  BY <1>3 DEF TypeOK
<1>7. plan[s][r] = None
  BY <1>3 DEF OutIsPlanned
<1>8. ASSUME NEW p \in Paths, out'[s][p] # None
      PROVE  \E q \in Refs : plan'[s][q] # None /\ plan'[s][q].files[p] = out'[s][p]
  <2>1. CASE files[p] # None
    BY <1>1, <1>4, <1>5, <2>1
  <2>2. CASE files[p] = None
    <3>1. PICK q \in Refs : plan[s][q] # None /\ plan[s][q].files[p] = out[s][p]
      BY <1>5, <1>8, <2>2 DEF OutIsPlanned
    <3> QED
      BY <1>4, <1>5, <1>7, <2>2, <3>1
  <2> QED
    BY <2>1, <2>2
<1>9. \A q \in wanted'[s] : plan'[s][q] = None
  BY <1>4, <1>6 DEF OutIsPlanned
<1> QED
  BY <1>8, <1>9 DEF OutIsPlanned

\* So it stays while a run leaves its output and its plan alone, or forgets
\* them.
LEMMA PlanStaysOut ==
  ASSUME NEW s \in Syncs, OutIsPlanned(s),
         \/ out'[s] = out[s] /\ plan'[s] = plan[s] /\ wanted'[s] = wanted[s]
         \/ out'[s] = NoFiles /\ plan'[s] = NoLock /\ wanted'[s] \subseteq Refs
  PROVE  OutIsPlanned(s)'
BY DEF OutIsPlanned, NoFiles, NoLock

\* The only run there is fills the .sgw-tmp file it has emptied, and nothing
\* else.
LEMMA FilledAlone ==
  ASSUME TypeOK, NEW s \in Syncs, AloneSound(s), FillTemp(s),
         cur[s] \in Paths, temp[cur[s]] = Empty
  PROVE  disk' = disk /\ temp' = [temp EXCEPT ![cur[s]] = out[s][cur[s]]]
<1>1. PICK d \in Over(Opened(s), out[s][cur[s]]) : PutInto(s, d)
  BY DEF FillTemp
<1>2. Opened(s) = Empty
  BY DEF AloneSound, Opened
<1>3. d = out[s][cur[s]]
  BY <1>1, <1>2, OverEmpty
<1> QED
  BY <1>1, <1>3 DEF PutInto, AloneSound

LEMMA CleanStep ==
  Undisturbed /\ AloneInv /\ CleanInv /\ [Next]_vars => CleanInv'
<1> SUFFICES ASSUME Undisturbed, AloneInv, CleanInv, [Next]_vars PROVE CleanInv'
  OBVIOUS
<1> USE DEF fileVars, worldVars, countVars, runVars
<1> PICK s \in Syncs : \A t \in Syncs : t = s
  BY DEF Undisturbed, OneRun
<1> DEFINE Rest == /\ OutIsPlanned(s)' /\ Tidy(s)' /\ KeptSound(s)'
                   /\ \A p \in Paths : Synced(s, p)'
<1>0. /\ TypeOK /\ AloneSound(s) /\ OutIsPlanned(s) /\ Tidy(s) /\ KeptSound(s)
      /\ \A p \in Paths : Synced(s, p)
      /\ unreadable = {}
  BY DEF AloneInv, CleanInv
\* Before it writes, a run may end or go on without a change to any file.
<1>a. ASSUME UNCHANGED <<disk, author, lock>>,
             pc[s] \notin Writing \cup Finishing, pc'[s] \notin Writing \cup Finishing
      PROVE  \A p \in Paths : Synced(s, p)'
  BY <1>0, <1>a DEF Synced, Known
<1>b. ASSUME Return(s), UNCHANGED fileVars, pc[s] \notin Writing \cup Finishing PROVE Rest
  <2>1. /\ pc'[s] = "idle" /\ mode'[s] = "sync" /\ kept'[s] = {} /\ wanted'[s] = {}
        /\ out'[s] = NoFiles /\ plan'[s] = NoLock
    BY <1>0, <1>b DEF Return, TypeOK
  <2>2. OutIsPlanned(s)'
    BY <1>0, <2>1, PlanStaysOut
  <2>3. Tidy(s)' /\ KeptSound(s)'
    BY <2>1 DEF Tidy, KeptSound, Planless, Writing, Finishing
  <2>4. \A p \in Paths : Synced(s, p)'
    BY <1>a, <1>b, <2>1 DEF Writing, Finishing
  <2> QED
    BY <2>2, <2>3, <2>4
\* A run that goes on to the next preparation.
<1>c. ASSUME UNCHANGED <<disk, author, lock>>,
             pc[s] \notin Writing \cup Finishing, mode'[s] = "sync",
             pc'[s] \in Preparing,
             kept'[s] = kept[s], OutIsPlanned(s)',
             pc'[s] \in Planless => out'[s] = NoFiles /\ plan'[s] = NoLock /\ wanted'[s] = {}
      PROVE  Rest
  <2>1. \A p \in Paths : Synced(s, p)'
    BY <1>a, <1>c DEF Preparing, Writing, Finishing
  <2>2. Tidy(s)' /\ KeptSound(s)'
    BY <1>0, <1>c DEF Tidy, KeptSound, Preparing, Writing, Finishing
  <2> QED
    BY <1>c, <2>1, <2>2
<1>1. ASSUME Start(s) PROVE Rest
  <2>1. /\ pc[s] = "idle" /\ pc'[s] = "readLock" /\ mode'[s] = "sync"
        /\ UNCHANGED <<disk, author, lock, kept, out, plan, wanted>>
    BY <1>0, <1>1 DEF Start, TypeOK
  <2>2. OutIsPlanned(s)'
    BY <1>0, <2>1, PlanStaysOut
  <2> QED
    BY <1>0, <1>c, <2>1, <2>2 DEF Tidy, Planless, Preparing, Writing, Finishing
<1>2. ~StartFetch(s)
  BY DEF StartFetch, Undisturbed
<1>3. ASSUME ReadLock(s) PROVE Rest
  <2>1. /\ pc[s] = "readLock" /\ pc'[s] = "refs"
        /\ UNCHANGED <<disk, author, lock, kept, out, plan, wanted, mode>>
    BY <1>0, <1>3 DEF ReadLock, TypeOK, AloneSound
  <2>2. OutIsPlanned(s)'
    BY <1>0, <2>1, PlanStaysOut
  <2> QED
    BY <1>0, <1>c, <2>1, <2>2 DEF Tidy, Planless, Preparing, Writing, Finishing
<1>4. ASSUME ListRefs(s) PROVE Rest
  <2>0. pc[s] \notin Writing \cup Finishing
    BY <1>4 DEF ListRefs, Writing, Finishing
  <2>1. CASE Listed(s) = {}
    BY <1>4, <1>b, <2>0, <2>1 DEF ListRefs
  <2>2. CASE Listed(s) # {}
    <3>1. /\ pc[s] = "refs" /\ pc'[s] = "prepare" /\ wanted'[s] = Listed(s)
          /\ UNCHANGED <<disk, author, lock, kept, out, plan, mode>>
      BY <1>0, <1>4, <2>2 DEF ListRefs, TypeOK
    <3>2. Listed(s) \subseteq Refs
      BY <1>0 DEF TypeOK, Listed, Manifest
    <3>3. OutIsPlanned(s)'
      BY <1>0, <3>1, <3>2, PlanStaysOut DEF Tidy, Planless
    <3> QED
      BY <1>0, <1>c, <2>0, <3>1, <3>3 DEF Tidy, Planless, Preparing
  <2> QED
    BY <2>1, <2>2
<1>5. ASSUME NEW r \in Refs, Prepare(s, r) PROVE Rest
  <2>1. pc[s] = "prepare" /\ UNCHANGED <<pc, disk, author, lock, kept, mode>>
    BY <1>5 DEF Prepare
  <2> QED
    BY <1>0, <1>5, <1>c, <2>1, PreparedIsPlanned DEF Tidy, Planless, Preparing, Writing, Finishing
<1>6. ASSUME NEW r \in Refs, PrepareFails(s, r) PROVE Rest
  BY <1>6, <1>b DEF PrepareFails, Writing, Finishing
<1>7. ASSUME BeginWrite(s) PROVE Rest
  <2> DEFINE planned == {p \in Paths : out[s][p] # None}
  <2>1. CASE planned \cap Unsafe # {}
    BY <1>7, <1>b, <2>1 DEF BeginWrite, Writing, Finishing
  <2>2. CASE planned \cap Unsafe = {}
    <3>1. /\ pc[s] = "prepare" /\ pc'[s] = "check" /\ todo'[s] = planned
          /\ UNCHANGED <<disk, author, lock, kept, out, plan, wanted, mode>>
      BY <1>0, <1>7, <2>2 DEF BeginWrite, TypeOK
    <3>2. OutIsPlanned(s)'
      BY <1>0, <3>1, PlanStaysOut
    <3>3. Tidy(s)' /\ KeptSound(s)'
      BY <1>0, <2>2, <3>1 DEF Tidy, KeptSound, Planless, Writing, Finishing
    <3>4. \A p \in Paths : Synced(s, p)'
      BY <1>0, <3>1 DEF Synced, Known, Writing, Finishing
    <3> QED
      BY <3>2, <3>3, <3>4
  <2> QED
    BY <2>1, <2>2
\* From here on the lock is the one the run has read.
<1>d. ASSUME pc[s] \in Writing \cup Finishing PROVE old[s] = lock
  BY <1>0, <1>d DEF AloneSound, Tidy, Writing, Finishing
\* A file that is kept is none that sync wrote: that one has its hash.
<1>8. ASSUME NEW p \in Paths, KeepEdited(s, p) PROVE Rest
  <2>1. /\ pc[s] = "check" /\ pc'[s] = "check" /\ p \in todo[s]
        /\ kept'[s] = kept[s] \cup {p} /\ todo'[s] = todo[s] \ {p}
        /\ UNCHANGED <<disk, author, lock, out, plan, wanted, mode>>
    BY <1>0, <1>8 DEF KeepEdited, TypeOK
  <2>2. author[p] # "sync"
    <3>1. disk[p] \notin Recorded(lock, p)
      BY <1>8, <1>d, <2>1 DEF KeepEdited, LocallyEdited, Writing
    <3> QED
      BY <1>0, <2>1, <3>1 DEF Synced, Known, Writing
  <2>3. OutIsPlanned(s)'
    BY <1>0, <2>1, PlanStaysOut
  <2>4. Tidy(s)' /\ KeptSound(s)'
    BY <1>0, <2>1, <2>2 DEF Tidy, KeptSound, Planless, Writing, Finishing
  <2>5. \A q \in Paths : Synced(s, q)'
    BY <1>0, <2>1, <2>2 DEF Synced, Known, Written, Writing, Finishing
  <2> QED
    BY <2>3, <2>4, <2>5
<1>9. ASSUME NEW p \in Paths, ChooseWrite(s, p) PROVE Rest
  <2>1. /\ pc[s] = "check" /\ pc'[s] = "temp" /\ p \in todo[s] /\ cur'[s] = p
        /\ UNCHANGED <<disk, author, lock, out, plan, wanted, mode, kept, todo>>
    BY <1>0, <1>9 DEF ChooseWrite, TypeOK
  <2>2. OutIsPlanned(s)'
    BY <1>0, <2>1, PlanStaysOut
  <2>3. Tidy(s)' /\ KeptSound(s)'
    BY <1>0, <2>1 DEF Tidy, KeptSound, Planless, Writing, Finishing
  <2>4. \A q \in Paths : Synced(s, q)'
    BY <1>0, <2>1 DEF Synced, Known, Written, Writing, Finishing
  <2> QED
    BY <2>2, <2>3, <2>4
<1>10. ASSUME OpenTemp(s) PROVE Rest
  <2>0. pc[s] = "temp" /\ cur[s] \in todo[s] /\ cur[s] \in Paths
    BY <1>0, <1>10 DEF OpenTemp, Tidy, TypeOK
  <2>1. /\ pc'[s] = "fill" /\ temp'[cur[s]] = Empty
        /\ UNCHANGED <<disk, author, lock, out, plan, wanted, mode, kept, todo, cur>>
    BY <1>0, <1>10, <2>0 DEF OpenTemp, TypeOK
  <2>2. OutIsPlanned(s)'
    BY <1>0, <2>1, PlanStaysOut
  <2>3. Tidy(s)' /\ KeptSound(s)'
    BY <1>0, <2>0, <2>1 DEF Tidy, KeptSound, Planless, Writing, Finishing
  <2>4. \A q \in Paths : Synced(s, q)'
    BY <1>0, <2>0, <2>1 DEF Synced, Known, Written, Writing, Finishing
  <2> QED
    BY <2>2, <2>3, <2>4
<1>10f. ASSUME FillTemp(s) PROVE Rest
  <2>0. pc[s] = "fill" /\ cur[s] \in todo[s] /\ cur[s] \in Paths /\ temp[cur[s]] = Empty
    BY <1>0, <1>10f DEF FillTemp, Tidy, TypeOK
  <2>f. disk' = disk /\ temp'[cur[s]] = out[s][cur[s]]
    BY <1>0, <1>10f, <2>0, FilledAlone DEF TypeOK
  <2>1. /\ disk' = disk /\ temp'[cur[s]] = out[s][cur[s]]
        /\ pc'[s] = "rename"
        /\ UNCHANGED <<author, lock, out, plan, wanted, mode, kept, todo, cur>>
    BY <1>0, <1>10f, <2>f DEF FillTemp, TypeOK
  <2>2. OutIsPlanned(s)'
    BY <1>0, <2>1, PlanStaysOut
  <2>3. Tidy(s)' /\ KeptSound(s)'
    BY <1>0, <2>0, <2>1 DEF Tidy, KeptSound, Planless, Writing, Finishing
  <2>4. \A q \in Paths : Synced(s, q)'
    BY <1>0, <2>0, <2>1 DEF Synced, Known, Written, Writing, Finishing
  <2> QED
    BY <2>2, <2>3, <2>4
<1>11. ASSUME Rename(s) PROVE Rest
  <2>1. /\ pc[s] = "rename" /\ cur[s] \in Paths /\ cur[s] \in todo[s]
        /\ temp[cur[s]] = out[s][cur[s]] /\ out[s][cur[s]] # None
        /\ cur[s] \notin Unsafe /\ cur[s] \notin kept[s]
    <3>1. pc[s] = "rename"
      BY <1>11 DEF Rename
    <3>2. cur[s] \in todo[s] /\ todo[s] \subseteq Paths
      BY <1>0, <3>1 DEF Tidy, TypeOK
    <3> QED
      BY <1>0, <3>1, <3>2 DEF Tidy, Writing
  <2>2. /\ disk' = [disk EXCEPT ![cur[s]] = temp[cur[s]]]
        /\ author' = [author EXCEPT ![cur[s]] = "sync"]
        /\ pc'[s] = "check" /\ todo'[s] = todo[s] \ {cur[s]}
        /\ UNCHANGED <<lock, out, plan, wanted, mode, kept>>
    BY <1>0, <1>11, <2>1 DEF Rename, TypeOK
  <2>3. /\ disk'[cur[s]] = out[s][cur[s]] /\ author'[cur[s]] = "sync"
        /\ \A q \in Paths \ {cur[s]} : disk'[q] = disk[q] /\ author'[q] = author[q]
    BY <1>0, <2>1, <2>2 DEF TypeOK
  <2>4. OutIsPlanned(s)'
    BY <1>0, <2>2, PlanStaysOut
  <2>5. Tidy(s)'
    BY <1>0, <2>1, <2>2 DEF Tidy, Planless, Writing, Finishing
  <2>6. KeptSound(s)'
    BY <1>0, <2>1, <2>2, <2>3 DEF KeptSound, TypeOK
  <2>7. ASSUME NEW q \in Paths PROVE Synced(s, q)'
    <3>1. CASE q = cur[s]
      BY <2>1, <2>2, <2>3, <3>1 DEF Synced, Written, Writing, Finishing
    <3>2. CASE q # cur[s]
      BY <1>0, <2>1, <2>2, <2>3, <3>2 DEF Synced, Known, Written, Writing, Finishing
    <3> QED
      BY <3>1, <3>2
  <2> QED
    BY <2>4, <2>5, <2>6, <2>7
<1>12. ASSUME EndWrite(s) PROVE Rest
  <2>1. /\ pc[s] = "check" /\ pc'[s] = "stale" /\ todo[s] = {} /\ todo'[s] = StaleFiles(s)
        /\ UNCHANGED <<disk, author, lock, out, plan, wanted, mode, kept>>
    BY <1>0, <1>12 DEF EndWrite, TypeOK, Tidy
  <2>2. OutIsPlanned(s)'
    BY <1>0, <2>1, PlanStaysOut
  <2>3. Tidy(s)' /\ KeptSound(s)'
    BY <1>0, <2>1 DEF Tidy, KeptSound, Planless, Writing, Finishing
  <2>4. ASSUME NEW q \in Paths PROVE Synced(s, q)'
    <3>1. old[s] = lock
      BY <1>d, <2>1 DEF Writing
    <3>2. Known(q) /\ out[s][q] = None => q \in StaleFiles(s)
      BY <3>1 DEF Known, StaleFiles
    <3> QED
      BY <1>0, <2>1, <3>2 DEF Synced, Known, Written, Writing, Finishing
  <2> QED
    BY <2>2, <2>3, <2>4
\* A file that is passed over is none that sync wrote.
<1>13. ASSUME NEW p \in Paths, CheckStale(s, p) PROVE Rest
  <2>1. /\ pc[s] = "stale" /\ p \in todo[s]
        /\ UNCHANGED <<disk, author, lock, out, plan, wanted, mode, kept>>
    BY <1>13 DEF CheckStale
  <2>2. \/ pc'[s] = "remove" /\ cur'[s] = p /\ todo'[s] = todo[s]
        \/ /\ pc'[s] = "stale" /\ todo'[s] = todo[s] \ {p}
           /\ p \in Unsafe \/ ~Unchanged(s, p)
    BY <1>0, <1>13, <2>1 DEF CheckStale, TypeOK
  <2>3. OutIsPlanned(s)'
    BY <1>0, <2>1, PlanStaysOut
  <2>4. Tidy(s)' /\ KeptSound(s)'
    BY <1>0, <2>1, <2>2 DEF Tidy, KeptSound, Planless, Writing, Finishing
  <2>5. ASSUME NEW q \in Paths PROVE Synced(s, q)'
    <3>1. old[s] = lock
      BY <1>d, <2>1 DEF Finishing
    <3>2. Known(q) <=> Unchanged(s, q)
      BY <1>0, <3>1 DEF Known, Unchanged
    <3> QED
      BY <1>0, <2>1, <2>2, <3>2 DEF Synced, Known, Written, Writing, Finishing
  <2> QED
    BY <2>3, <2>4, <2>5
<1>14. ASSUME Remove(s) PROVE Rest
  <2>1. /\ pc[s] = "remove" /\ pc'[s] = "stale" /\ cur[s] \in Paths
        /\ todo'[s] = todo[s] \ {cur[s]}
        /\ disk' = [disk EXCEPT ![cur[s]] = None]
        /\ author' = [author EXCEPT ![cur[s]] = "none"]
        /\ UNCHANGED <<lock, out, plan, wanted, mode, kept>>
    <3>1. ~(faults < MaxFaults)
      BY <1>0 DEF TypeOK, Undisturbed
    <3>2. cur[s] \in Paths
      BY <1>0, <1>14 DEF Remove, TypeOK, Tidy
    <3> QED
      BY <1>0, <1>14, <3>1, <3>2 DEF Remove, TypeOK
  <2>2. /\ author'[cur[s]] = "none"
        /\ \A q \in Paths \ {cur[s]} : disk'[q] = disk[q] /\ author'[q] = author[q]
    BY <1>0, <2>1 DEF TypeOK
  <2>3. OutIsPlanned(s)'
    BY <1>0, <2>1, PlanStaysOut
  <2>4. Tidy(s)'
    BY <1>0, <2>1 DEF Tidy, Planless, Writing, Finishing
  <2>5. KeptSound(s)'
    BY <1>0, <2>1, <2>2 DEF KeptSound, TypeOK
  <2>6. ASSUME NEW q \in Paths PROVE Synced(s, q)'
    BY <1>0, <2>1, <2>2 DEF Synced, Known, Written, Writing, Finishing
  <2> QED
    BY <2>3, <2>4, <2>5, <2>6
<1>15. ASSUME SaveLock(s) PROVE Rest
  <2>1. /\ pc[s] = "stale" /\ pc'[s] = "fillLock" /\ todo[s] = {}
        /\ UNCHANGED <<disk, author, lock, out, plan, wanted, mode, kept, todo>>
    BY <1>0, <1>15 DEF SaveLock, TypeOK
  <2>2. OutIsPlanned(s)'
    BY <1>0, <2>1, PlanStaysOut
  <2>3. Tidy(s)' /\ KeptSound(s)'
    BY <1>0, <2>1 DEF Tidy, KeptSound, Planless, Writing, Finishing
  <2>4. \A q \in Paths : Synced(s, q)'
    BY <1>0, <2>1 DEF Synced, Known, Written, Writing, Finishing
  <2> QED
    BY <2>2, <2>3, <2>4
<1>15f. ASSUME FillLock(s) PROVE Rest
  <2>1. /\ pc[s] = "fillLock" /\ pc'[s] = "commit" /\ lock' = lock
        /\ UNCHANGED <<disk, author, out, plan, wanted, mode, kept, todo>>
    BY <1>0, <1>15f DEF FillLock, PutIntoLock, AloneSound, TypeOK
  <2>2. OutIsPlanned(s)'
    BY <1>0, <2>1, PlanStaysOut
  <2>3. Tidy(s)' /\ KeptSound(s)'
    BY <1>0, <2>1 DEF Tidy, KeptSound, Planless, Writing, Finishing
  <2>4. \A q \in Paths : Synced(s, q)'
    BY <1>0, <2>1 DEF Synced, Known, Written, Writing, Finishing
  <2> QED
    BY <2>2, <2>3, <2>4
\* What the run wrote is in its plan, and the plan becomes the lock.
<1>16. ASSUME CommitLock(s) PROVE Rest
  <2>1. /\ pc[s] = "commit" /\ lock' = plan[s] /\ Return(s)
        /\ UNCHANGED <<disk, author>>
    <3>1. pc[s] = "commit" /\ lockTemp = plan[s] /\ lockTemp # None
      BY <1>0, <1>16, NoneAssumption DEF CommitLock, AloneSound, TypeOK
    <3> QED
      BY <1>16, <3>1 DEF CommitLock
  <2>2. /\ pc'[s] = "idle" /\ mode'[s] = "sync" /\ kept'[s] = {} /\ wanted'[s] = {}
        /\ out'[s] = NoFiles /\ plan'[s] = NoLock
    BY <1>0, <2>1 DEF Return, TypeOK
  <2>3. OutIsPlanned(s)'
    BY <1>0, <2>2, PlanStaysOut
  <2>4. Tidy(s)' /\ KeptSound(s)'
    BY <2>2 DEF Tidy, KeptSound, Planless, Writing, Finishing
  <2>5. ASSUME NEW q \in Paths PROVE Synced(s, q)'
    <3> SUFFICES ASSUME author'[q] = "sync"
                 PROVE  q \notin Unsafe /\ disk'[q] \in Recorded(lock', q)
      BY <2>2 DEF Synced, Known, Writing, Finishing
    <3>1. q \notin Unsafe /\ Written(s, q)
      BY <1>0, <2>1 DEF Synced, Tidy, Finishing
    <3>2. PICK r \in Refs : plan[s][r] # None /\ plan[s][r].files[q] = out[s][q]
      BY <1>0, <3>1 DEF OutIsPlanned, Written
    <3>3. disk[q] \in Recorded(plan[s], q)
      BY <3>1, <3>2 DEF Recorded, Written
    <3> QED
      BY <2>1, <3>1, <3>3
  <2> QED
    BY <2>3, <2>4, <2>5
<1>17. ~Fail(s)
  BY <1>0 DEF Fail, TypeOK, Undisturbed
<1>s. \A p \in Paths : ~Seal(p) /\ ~Unseal(p)
  BY <1>0 DEF Seal, Unseal, TypeOK, Undisturbed
<1>18. ASSUME NEW p \in Paths, Edit(p) PROVE Rest
  <2>1. UNCHANGED <<lock, temp, runVars>>
    BY <1>18 DEF Edit
  <2>2. \A q \in Paths : \/ author'[q] # "sync"
                         \/ author'[q] = author[q] /\ disk'[q] = disk[q]
    <3>1. PICK d \in (Edits \cup {None}) \ {disk[p]} :
            /\ disk' = [disk EXCEPT ![p] = d]
            /\ author' = [author EXCEPT ![p] =
                 CASE d = None \/ @ = "none" -> "none"
                   [] d # None /\ @ # "none" -> IF Targeted(p) THEN "raced" ELSE "edit"]
      BY <1>18 DEF Edit
    <3> QED
      BY <1>0, <3>1 DEF TypeOK
  <2>3. OutIsPlanned(s)'
    BY <1>0, <2>1, PlanStaysOut
  <2>4. Tidy(s)'
    BY <1>0, <2>1 DEF Tidy
  <2>5. KeptSound(s)'
    BY <1>0, <2>1, <2>2 DEF KeptSound, TypeOK
  <2>6. ASSUME NEW q \in Paths PROVE Synced(s, q)'
    BY <1>0, <2>1, <2>2 DEF Synced, Known, Written
  <2> QED
    BY <2>3, <2>4, <2>5, <2>6
<1>19. ASSUME UNCHANGED <<fileVars, runVars>> PROVE Rest
  <2>1. OutIsPlanned(s)'
    BY <1>0, <1>19, PlanStaysOut
  <2>2. Tidy(s)' /\ KeptSound(s)'
    BY <1>0, <1>19 DEF Tidy, KeptSound
  <2>3. \A q \in Paths : Synced(s, q)'
    BY <1>0, <1>19 DEF Synced, Known, Written
  <2> QED
    BY <2>1, <2>2, <2>3
<1>20. Rest
  BY <1>1, <1>2, <1>3, <1>4, <1>5, <1>6, <1>7, <1>8, <1>9, <1>10, <1>11,
     <1>12, <1>10f, <1>13, <1>14, <1>15, <1>15f, <1>16, <1>17, <1>s, <1>18, <1>19
  DEF Next, Step, World, SourceMoves, ChangeManifest, vars
<1>21. unreadable' = {}
  <2>1. ASSUME NEW r \in Refs, Prepare(s, r) \/ PrepareFails(s, r)
        PROVE  unreadable' \subseteq unreadable
    BY <2>1 DEF Prepare, PrepareFails
  <2>2. ASSUME NEW p \in Paths, KeepEdited(s, p) \/ ChooseWrite(s, p) \/ CheckStale(s, p)
        PROVE  unreadable' \subseteq unreadable
    BY <2>2 DEF KeepEdited, ChooseWrite, CheckStale
  <2>3. ASSUME Start(s) \/ ReadLock(s) \/ ListRefs(s) \/ BeginWrite(s)
        PROVE  unreadable' \subseteq unreadable
    BY <2>3 DEF Start, ReadLock, ListRefs, BeginWrite
  <2>4. ASSUME OpenTemp(s) \/ FillTemp(s) \/ Rename(s) \/ EndWrite(s)
        PROVE  unreadable' \subseteq unreadable
    BY <2>4 DEF OpenTemp, FillTemp, Rename, EndWrite
  <2>5. ASSUME Remove(s) \/ SaveLock(s) \/ FillLock(s) \/ CommitLock(s)
        PROVE  unreadable' \subseteq unreadable
    BY <2>5 DEF Remove, SaveLock, FillLock, CommitLock
  <2>6. ASSUME World \/ UNCHANGED vars PROVE unreadable' \subseteq unreadable
    BY <1>s, <2>6 DEF World, SourceMoves, ChangeManifest, Edit, vars
  <2> QED
    BY <1>0, <1>2, <1>17, <2>1, <2>2, <2>3, <2>4, <2>5, <2>6 DEF Next, Step
<1> QED
  BY <1>20, <1>21 DEF CleanInv

\* While runs come one at a time and end, and nothing is fetched into the
\* project beside them, the lock records the hash of every file that sync
\* wrote and nobody has edited since, however the source, the manifest and
\* the developer's files change (SyncWith, syncer.go:125-142, 442).
THEOREM SyncedAreRecorded == ASSUME Undisturbed PROVE Spec => []SyncedFilesAreRecorded
<1>1. CleanInv => SyncedFilesAreRecorded
  <2> SUFFICES ASSUME CleanInv, AllIdle, NEW p \in Paths, author[p] = "sync"
               PROVE  disk[p] \in Recorded(lock, p)
    BY DEF SyncedFilesAreRecorded
  <2>1. PICK s \in Syncs : TRUE
    BY DEF Undisturbed, OneRun
  <2> QED
    BY <2>1 DEF CleanInv, AllIdle, Synced, Known, Writing, Finishing
<1>2. OneRun
  BY DEF Undisturbed
<1> QED
  BY <1>1, <1>2, AloneInit, AloneStep, CleanInit, CleanStep, Undisturbed, PTL DEF Spec

\* Under the same conditions sync never takes its own output for an edit: a
\* file is kept only because the developer touched it (locallyEdited,
\* syncer.go:215-216, 244-263).
THEOREM KeptAreEdits == ASSUME Undisturbed PROVE Spec => []KeptWereEdited
<1>1. CleanInv => KeptWereEdited
  BY DEF CleanInv, KeptSound, KeptWereEdited
<1>2. OneRun
  BY DEF Undisturbed
<1> QED
  BY <1>1, <1>2, AloneInit, AloneStep, CleanInit, CleanStep, Undisturbed, PTL DEF Spec

-----------------------------------------------------------------------------
(* What runs that come one at a time promise the owner of the project, with *)
(* crashes, failed requests and fetches.                                    *)

\* What a run has in memory: the manifest of the owner, for the skills of
\* which it has verified entries or still wants them, and their files.
Whole(s) ==
  /\ mode[s] = "sync" => \E m \in Manifests : /\ man[s].source = m.source
                                              /\ man[s].star = m.star
                                              /\ m.star \/ man[s].skills = m.skills
  /\ pc[s] \in Planless => out[s] = NoFiles /\ plan[s] = NoLock /\ wanted[s] = {}
  /\ pc[s] \notin Planless => man[s].skills # {} /\ wanted[s] \subseteq man[s].skills
  /\ \A r \in Refs : plan[s][r] # None =>
       r \in man[s].skills /\ plan[s][r] \in Installable[r] /\ plan[s][r].source = man[s].source
  /\ OutIsPlanned(s)

\* What it has done to the files: those it has passed are as planned or none
\* that the lock records; only what the lock records is to be removed.
Placed(s) ==
  /\ pc[s] = "fill" => temp[cur[s]] = Empty
  /\ pc[s] = "rename" => temp[cur[s]] = out[s][cur[s]]
  /\ \A p \in Paths : out[s][p] # None /\ pc[s] \in Writing \cup Finishing
                      /\ (pc[s] \in Writing => p \notin todo[s])
       => disk[p] = out[s][p] \/ disk[p] \notin Recorded(lock, p)
  /\ pc[s] \in {"stale", "remove"} => \A p \in todo[s] : Recorded(lock, p) # {}
  /\ pc[s] = "remove" => cur[s] \in todo[s]

OutcomeInv ==
  /\ manifest \in Manifests
  /\ \A s \in Syncs : Whole(s) /\ Placed(s)

LEMMA OutcomeInit == Init => OutcomeInv
<1> SUFFICES ASSUME Init, NEW s \in Syncs PROVE Whole(s) /\ Placed(s)
  BY DEF OutcomeInv, Init
<1>1. NoManifest \in Manifests
  BY ProjectAssumption DEF NoManifest
<1>2. Whole(s)
  <2>1. /\ pc[s] = "idle" /\ man[s] = NoManifest /\ wanted[s] = {}
        /\ plan[s] = NoLock /\ out[s] = NoFiles
    BY DEF Init
  <2>2. /\ \A r \in Refs : plan[s][r] = None
        /\ \A p \in Paths : out[s][p] = None
    BY <2>1 DEF NoLock, NoFiles
  <2> QED
    BY <1>1, <2>1, <2>2 DEF Whole, OutIsPlanned, Planless
<1>3. Placed(s)
  BY DEF Init, Placed, Writing, Finishing
<1> QED
  BY <1>2, <1>3

\* What a run has in memory stays whole while it only moves on, and is so
\* again when it returns.
LEMMA WholeKept ==
  ASSUME NEW s \in Syncs, Whole(s),
         man'[s] = man[s], wanted'[s] = wanted[s], plan'[s] = plan[s],
         out'[s] = out[s], mode'[s] = mode[s],
         pc'[s] \in Planless <=> pc[s] \in Planless
  PROVE  Whole(s)'
BY PlanStaysOut DEF Whole

LEMMA WholeReturned ==
  ASSUME TypeOK, NEW s \in Syncs, Return(s), Whole(s)
  PROVE  Whole(s)'
<1>1. /\ pc'[s] = "idle" /\ man'[s] = NoManifest /\ wanted'[s] = {}
      /\ plan'[s] = NoLock /\ out'[s] = NoFiles
  BY DEF Return, TypeOK
<1>2. NoManifest \in Manifests
  BY ProjectAssumption DEF NoManifest
<1>3. OutIsPlanned(s)'
  BY <1>1, PlanStaysOut DEF Whole
<1>4. \A r \in Refs : plan'[s][r] = None
  BY <1>1 DEF NoLock
<1> QED
  BY <1>1, <1>2, <1>3, <1>4 DEF Whole, Planless

LEMMA PlacedIdle == ASSUME NEW s \in Syncs, pc'[s] = "idle" PROVE Placed(s)'
BY DEF Placed, Writing, Finishing

\* Before it writes, a run has placed nothing.
LEMMA NothingPlaced ==
  ASSUME NEW s \in Syncs, pc'[s] \in {"idle"} \cup Preparing
  PROVE  Placed(s)'
BY DEF Placed, Preparing, Writing, Finishing

LEMMA PlacedKept ==
  ASSUME NEW s \in Syncs, Placed(s), UNCHANGED <<disk, temp, lock>>,
         pc'[s] = pc[s], out'[s] = out[s], todo'[s] = todo[s], cur'[s] = cur[s]
  PROVE  Placed(s)'
BY DEF Placed

\* A successful prepare makes an entry that the promise knows.
LEMMA PreparedIsInstallable ==
  ASSUME VerifiedInv, NEW s \in Syncs, NEW r \in Refs, Prepare(s, r)
  PROVE  Prepared(s, r) \in Installable[r]
<1> DEFINE x == man[s].source
           b == offers[x][r]
<1>1. x \in Sources
  BY DEF VerifiedInv, TypeOK, Manifest
<1>2. b \in Bundles[x] /\ Verified(b) /\ b.content \in DOMAIN Out[r]
  BY <1>1 DEF VerifiedInv, Served, Prepare, Acceptable
<1>3. Prepared(s, r) = [source |-> x, version |-> b.version, digest |-> b.content,
                        files |-> Out[r][b.content]]
  BY DEF Prepared
<1> HIDE DEF x, b
<1> QED
  BY <1>1, <1>2, <1>3 DEF Installable

LEMMA PreparedWhole ==
  ASSUME VerifiedInv, NEW s \in Syncs, NEW r \in Refs, Prepare(s, r), Whole(s)
  PROVE  Whole(s)'
<1> DEFINE entry == Prepared(s, r)
<1>0. TypeOK /\ OutIsPlanned(s)
  BY DEF VerifiedInv, Whole
<1>1. /\ plan' = [plan EXCEPT ![s][r] = entry] /\ r \in wanted[s]
      /\ wanted' = [wanted EXCEPT ![s] = wanted[s] \ {r}]
      /\ pc[s] = "prepare" /\ UNCHANGED <<pc, man, mode>>
  BY DEF Prepare, Prepared
<1>2. entry \in Installable[r] /\ entry.source = man[s].source
  BY PreparedIsInstallable DEF Prepared
<1> HIDE DEF entry
<1>3. \A q \in Refs : plan'[s][q] = IF q = r THEN entry ELSE plan[s][q]
  <2>1. plan[s] \in Lock /\ plan'[s] = [plan[s] EXCEPT ![r] = entry]
    BY <1>0, <1>1 DEF TypeOK
  <2> QED
    BY <2>1 DEF Lock
<1>4. wanted'[s] = wanted[s] \ {r} /\ wanted[s] \subseteq man[s].skills
  BY <1>0, <1>1 DEF TypeOK, Whole, Planless
<1>5. OutIsPlanned(s)'
  BY <1>0, PreparedIsPlanned
<1> QED
  BY <1>1, <1>2, <1>3, <1>4, <1>5 DEF Whole, Planless

\* Which lock an edit cannot be mistaken for.
LEMMA EditIsNotRecorded ==
  ASSUME lock \in Lock, NEW p \in Paths, NEW d \in Edits \cup {None}
  PROVE  d \notin Recorded(lock, p)
<1>1. Recorded(lock, p) \subseteq Data
  BY RecordedIsData
<1> QED
  BY <1>1, DataAssumption DEF Recorded

LEMMA OutcomeStep ==
  OneRun /\ AloneInv /\ VerifiedInv /\ OutcomeInv /\ [Next]_vars => OutcomeInv'
<1> SUFFICES ASSUME OneRun, AloneInv, VerifiedInv, OutcomeInv, [Next]_vars PROVE OutcomeInv'
  OBVIOUS
<1> USE DEF fileVars, worldVars, countVars, runVars
<1> PICK s \in Syncs : \A t \in Syncs : t = s
  BY DEF OneRun
<1> DEFINE Rest == Whole(s)' /\ Placed(s)'
<1>0. TypeOK /\ AloneSound(s) /\ Whole(s) /\ Placed(s) /\ manifest \in Manifests
  BY DEF AloneInv, OutcomeInv
<1>a. ASSUME Return(s) PROVE Rest
  <2>1. pc'[s] = "idle"
    BY <1>0, <1>a DEF Return, TypeOK
  <2> QED
    BY <1>0, <1>a, <2>1, WholeReturned, PlacedIdle
<1>1. ASSUME Start(s) PROVE Rest
  <2>1. /\ pc[s] = "idle" /\ pc'[s] = "readLock" /\ mode'[s] = "sync" /\ man'[s] = manifest
        /\ UNCHANGED <<wanted, plan, out>>
    BY <1>0, <1>1 DEF Start, TypeOK
  <2>2. OutIsPlanned(s)' /\ \A r \in Refs : plan'[s][r] = None
    BY <1>0, <2>1, PlanStaysOut DEF Whole, Planless, NoLock
  <2>3. Whole(s)'
    BY <1>0, <2>1, <2>2 DEF Whole, Planless
  <2> QED
    BY <2>1, <2>3, NothingPlaced DEF Preparing
<1>2. ASSUME StartFetch(s) PROVE Rest
  <2>1. PICK x \in Sources, r \in Refs :
          /\ man'[s] = [source |-> x, star |-> FALSE, skills |-> {r}]
          /\ wanted'[s] = {r}
    <3>1. PICK x \in Sources, r \in Fetchable :
            /\ man' = [man EXCEPT ![s] = [source |-> x, star |-> FALSE, skills |-> {r}]]
            /\ wanted' = [wanted EXCEPT ![s] = {r}]
      BY <1>2 DEF StartFetch
    <3>2. r \in Refs
      BY ProjectAssumption
    <3>3. /\ man'[s] = [source |-> x, star |-> FALSE, skills |-> {r}]
          /\ wanted'[s] = {r}
      BY <1>0, <3>1 DEF TypeOK
    <3> QED
      BY <3>2, <3>3
  <2>2. /\ pc[s] = "idle" /\ pc'[s] = "prepare" /\ mode'[s] = "fetch"
        /\ UNCHANGED <<plan, out>>
    BY <1>0, <1>2 DEF StartFetch, TypeOK
  <2>3. out[s] = NoFiles /\ plan[s] = NoLock
    BY <1>0, <2>2 DEF Whole, Planless
  <2>4. OutIsPlanned(s)' /\ \A q \in Refs : plan'[s][q] = None
    BY <1>0, <2>1, <2>2, <2>3, PlanStaysOut DEF Whole, NoLock
  <2>5. Whole(s)'
    BY <2>1, <2>2, <2>4 DEF Whole, Planless
  <2> QED
    BY <2>2, <2>5, NothingPlaced DEF Preparing
<1>3. ASSUME ReadLock(s) PROVE Rest
  <2>1. /\ pc[s] = "readLock" /\ pc'[s] = "refs"
        /\ UNCHANGED <<man, wanted, plan, out, mode>>
    BY <1>0, <1>3 DEF ReadLock, TypeOK, AloneSound
  <2> QED
    BY <1>0, <2>1, WholeKept, NothingPlaced DEF Planless, Preparing
<1>4. ASSUME ListRefs(s) PROVE Rest
  <2>1. CASE Listed(s) = {}
    BY <1>4, <1>a, <2>1 DEF ListRefs
  <2>2. CASE Listed(s) # {}
    <3>1. /\ pc[s] = "refs" /\ pc'[s] = "prepare" /\ wanted'[s] = Listed(s)
          /\ man'[s] = [man[s] EXCEPT !.skills = Listed(s)]
          /\ UNCHANGED <<plan, out, mode>>
      BY <1>0, <1>4, <2>2 DEF ListRefs, TypeOK
    <3>2. /\ man'[s].source = man[s].source /\ man'[s].star = man[s].star
          /\ man'[s].skills = Listed(s) /\ Listed(s) \subseteq Refs
      <4>1. man[s] \in Manifest
        BY <1>0 DEF TypeOK
      <4> QED
        BY <3>1, <4>1 DEF Manifest, Listed
    <3>3. man[s].star \/ Listed(s) = man[s].skills
      BY DEF Listed
    <3>4. out[s] = NoFiles /\ plan[s] = NoLock
      BY <1>0, <3>1 DEF Whole, Planless
    <3>5. OutIsPlanned(s)' /\ \A q \in Refs : plan'[s][q] = None
      BY <1>0, <3>1, <3>2, <3>4, PlanStaysOut DEF Whole, NoLock
    <3>6. mode'[s] = "sync" => \E m \in Manifests : /\ man'[s].source = m.source
                                                    /\ man'[s].star = m.star
                                                    /\ m.star \/ man'[s].skills = m.skills
      BY <1>0, <3>1, <3>2, <3>3 DEF Whole
    <3>7. Whole(s)'
      BY <2>2, <3>1, <3>2, <3>5, <3>6 DEF Whole, Planless
    <3> QED
      BY <3>1, <3>7, NothingPlaced DEF Preparing
  <2> QED
    BY <2>1, <2>2
<1>5. ASSUME NEW r \in Refs, Prepare(s, r) PROVE Rest
  <2>1. pc'[s] = "prepare"
    BY <1>5 DEF Prepare
  <2> QED
    BY <1>0, <1>5, <2>1, PreparedWhole, NothingPlaced DEF Preparing
<1>6. ASSUME NEW r \in Refs, PrepareFails(s, r) PROVE Rest
  BY <1>6, <1>a DEF PrepareFails
<1>7. ASSUME BeginWrite(s) PROVE Rest
  <2>1. CASE Return(s)
    BY <1>a, <2>1
  <2>2. CASE ~Return(s)
    <3>1. /\ pc[s] = "prepare" /\ pc'[s] = "check"
          /\ todo'[s] = {p \in Paths : out[s][p] # None}
          /\ UNCHANGED <<man, wanted, plan, out, mode>>
      BY <1>0, <1>7, <2>2 DEF BeginWrite, TypeOK
    <3>2. Placed(s)'
      BY <3>1 DEF Placed, Writing, Finishing
    <3> QED
      BY <1>0, <3>1, <3>2, WholeKept DEF Planless
  <2> QED
    BY <2>1, <2>2
\* While files are written, what the run has in memory stays.
<1>b. ASSUME pc[s] \in Writing \cup Finishing, pc'[s] \in Writing \cup Finishing,
             UNCHANGED <<man, wanted, plan, out, mode>>
      PROVE  Whole(s)'
  BY <1>0, <1>b, WholeKept DEF Planless, Writing, Finishing
\* A sync at work compares with the lock.
<1>c. ASSUME pc[s] \in Writing \cup Finishing, mode[s] = "sync" PROVE old[s] = lock
  BY <1>0, <1>c DEF AloneSound, Writing, Finishing
<1>8. ASSUME NEW p \in Paths, KeepEdited(s, p) PROVE Rest
  <2>1. /\ pc[s] = "check" /\ pc'[s] = "check" /\ todo'[s] = todo[s] \ {p}
        /\ UNCHANGED <<man, wanted, plan, out, mode, disk, temp, lock>>
    BY <1>0, <1>8 DEF KeepEdited, TypeOK
  <2>2. disk[p] \notin Recorded(lock, p)
    <3>1. mode[s] = "sync"
      BY <1>0, <1>8 DEF KeepEdited, AloneSound, TypeOK
    <3> QED
      BY <1>8, <1>c, <2>1, <3>1 DEF KeepEdited, LocallyEdited, Writing
  <2>3. Placed(s)'
    BY <1>0, <2>1, <2>2 DEF Placed, Writing, Finishing
  <2> QED
    BY <1>b, <2>1, <2>3 DEF Writing
<1>9. ASSUME NEW p \in Paths, ChooseWrite(s, p) PROVE Rest
  <2>1. /\ pc[s] = "check" /\ pc'[s] = "temp"
        /\ UNCHANGED <<man, wanted, plan, out, mode, todo, disk, temp, lock>>
    BY <1>0, <1>9 DEF ChooseWrite, TypeOK
  <2>2. Placed(s)'
    BY <1>0, <2>1 DEF Placed, Writing, Finishing
  <2> QED
    BY <1>b, <2>1, <2>2 DEF Writing
<1>10. ASSUME OpenTemp(s) PROVE Rest
  <2>0. pc[s] = "temp" /\ cur[s] \in Paths
    BY <1>0, <1>10 DEF OpenTemp, TypeOK, VerifiedInv, TodoPlanned, Writing
  <2>1. /\ pc'[s] = "fill" /\ temp'[cur[s]] = Empty
        /\ UNCHANGED <<man, wanted, plan, out, mode, todo, cur, disk, lock>>
    BY <1>0, <1>10, <2>0 DEF OpenTemp, TypeOK
  <2>2. Placed(s)'
    BY <1>0, <2>0, <2>1 DEF Placed, Writing, Finishing
  <2> QED
    BY <1>b, <2>0, <2>1, <2>2 DEF Writing
<1>10f. ASSUME FillTemp(s) PROVE Rest
  <2>0. pc[s] = "fill" /\ cur[s] \in Paths /\ temp[cur[s]] = Empty
    BY <1>0, <1>10f DEF FillTemp, TypeOK, VerifiedInv, TodoPlanned, Placed, Writing
  <2>f. disk' = disk /\ temp'[cur[s]] = out[s][cur[s]]
    BY <1>0, <1>10f, <2>0, FilledAlone DEF TypeOK
  <2>1. /\ pc'[s] = "rename"
        /\ UNCHANGED <<man, wanted, plan, out, mode, todo, cur, lock>>
    BY <1>0, <1>10f DEF FillTemp, TypeOK
  <2>2. Placed(s)'
    BY <1>0, <2>0, <2>f, <2>1 DEF Placed, Writing, Finishing
  <2> QED
    BY <1>b, <2>0, <2>1, <2>2 DEF Writing
<1>11. ASSUME Rename(s) PROVE Rest
  <2>1. CASE temp[cur[s]] = None
    BY <1>11, <1>a, <2>1 DEF Rename
  <2>2. CASE temp[cur[s]] # None
    <3>1. /\ pc[s] = "rename" /\ pc'[s] = "check" /\ todo'[s] = todo[s] \ {cur[s]}
          /\ disk' = [disk EXCEPT ![cur[s]] = temp[cur[s]]]
          /\ UNCHANGED <<man, wanted, plan, out, mode, lock>>
      BY <1>0, <1>11, <2>2 DEF Rename, TypeOK
    <3>2. cur[s] \in Paths /\ temp[cur[s]] = out[s][cur[s]]
      BY <1>0, <3>1 DEF Placed, VerifiedInv, TypeOK, TodoPlanned, Writing
    <3>3. \A q \in Paths : disk'[q] = IF q = cur[s] THEN out[s][q] ELSE disk[q]
      BY <1>0, <3>1, <3>2 DEF TypeOK
    <3>4. Placed(s)'
      BY <1>0, <3>1, <3>3 DEF Placed, Writing, Finishing
    <3> QED
      BY <1>b, <3>1, <3>4 DEF Writing
  <2> QED
    BY <2>1, <2>2
<1>12. ASSUME EndWrite(s) PROVE Rest
  <2>1. CASE mode[s] = "fetch"
    BY <1>12, <1>a, <2>1 DEF EndWrite
  <2>2. CASE mode[s] # "fetch"
    <3>1. /\ pc[s] = "check" /\ pc'[s] = "stale" /\ todo[s] = {} /\ todo'[s] = StaleFiles(s)
          /\ UNCHANGED <<man, wanted, plan, out, mode, disk, lock>>
      BY <1>0, <1>12, <2>2 DEF EndWrite, TypeOK
    <3>2. old[s] = lock
      BY <1>0, <1>c, <2>2, <3>1 DEF TypeOK, Writing
    <3>3. Placed(s)'
      BY <1>0, <3>1, <3>2 DEF Placed, StaleFiles, Writing, Finishing
    <3> QED
      BY <1>b, <3>1, <3>3 DEF Writing, Finishing
  <2> QED
    BY <2>1, <2>2
<1>13. ASSUME NEW p \in Paths, CheckStale(s, p) PROVE Rest
  <2>1. /\ pc[s] = "stale" /\ p \in todo[s]
        /\ UNCHANGED <<man, wanted, plan, out, mode, disk, lock>>
        /\ \/ pc'[s] = "remove" /\ cur'[s] = p /\ todo'[s] = todo[s]
           \/ pc'[s] = "stale" /\ todo'[s] = todo[s] \ {p}
    BY <1>0, <1>13 DEF CheckStale, TypeOK
  <2>2. Placed(s)'
    BY <1>0, <2>1 DEF Placed, Writing, Finishing
  <2> QED
    BY <1>b, <2>1, <2>2 DEF Finishing
<1>14. ASSUME Remove(s) PROVE Rest
  <2>1. /\ pc[s] = "remove" /\ pc'[s] = "stale" /\ todo'[s] = todo[s] \ {cur[s]}
        /\ disk' = [disk EXCEPT ![cur[s]] = None] \/ disk' = disk
        /\ UNCHANGED <<man, wanted, plan, out, mode, lock>>
    BY <1>0, <1>14 DEF Remove, TypeOK
  <2>2. \A q \in Paths : disk'[q] \in {disk[q], None}
    BY <1>0, <2>1 DEF TypeOK
  <2>3. \A q \in Paths : None \notin Recorded(lock, q)
    BY DEF Recorded
  <2>4. Placed(s)'
    BY <1>0, <2>1, <2>2, <2>3 DEF Placed, Writing, Finishing
  <2> QED
    BY <1>b, <2>1, <2>4 DEF Finishing
<1>15. ASSUME SaveLock(s) PROVE Rest
  <2>1. /\ pc[s] = "stale" /\ pc'[s] = "fillLock"
        /\ UNCHANGED <<man, wanted, plan, out, mode, disk, lock>>
    BY <1>0, <1>15 DEF SaveLock, TypeOK
  <2>2. Placed(s)'
    BY <1>0, <2>1 DEF Placed, Writing, Finishing
  <2> QED
    BY <1>b, <2>1, <2>2 DEF Finishing
<1>15f. ASSUME FillLock(s) PROVE Rest
  <2>1. /\ pc[s] = "fillLock" /\ pc'[s] = "commit" /\ lock' = lock
        /\ UNCHANGED <<man, wanted, plan, out, mode, disk>>
    BY <1>0, <1>15f DEF FillLock, PutIntoLock, AloneSound, TypeOK
  <2>2. Placed(s)'
    BY <1>0, <2>1 DEF Placed, Writing, Finishing
  <2> QED
    BY <1>b, <2>1, <2>2 DEF Finishing
<1>16. ASSUME CommitLock(s) \/ Fail(s) PROVE Rest
  BY <1>16, <1>a DEF CommitLock, Fail
<1>17. ASSUME NEW p \in Paths, Edit(p) PROVE Rest
  <2>1. UNCHANGED <<lock, temp, runVars>>
    BY <1>17 DEF Edit
  <2>2. \A q \in Paths : disk'[q] = disk[q] \/ disk'[q] \in Edits \cup {None}
    BY <1>0, <1>17 DEF Edit, TypeOK
  <2>3. \A q \in Paths : disk'[q] = disk[q] \/ disk'[q] \notin Recorded(lock, q)
    BY <1>0, <2>2, EditIsNotRecorded DEF TypeOK, AloneSound
  <2>4. Placed(s)'
    BY <1>0, <2>1, <2>3 DEF Placed
  <2> QED
    BY <1>0, <2>1, <2>4, WholeKept
<1>18. ASSUME UNCHANGED <<disk, temp, lock, runVars>> PROVE Rest
  BY <1>0, <1>18, WholeKept, PlacedKept
<1>19. Rest
  BY <1>1, <1>2, <1>3, <1>4, <1>5, <1>6, <1>7, <1>8, <1>9, <1>10, <1>10f, <1>11,
     <1>12, <1>13, <1>14, <1>15, <1>15f, <1>16, <1>17, <1>18
  DEF Next, Step, World, SourceMoves, ChangeManifest, Seal, Unseal, vars
<1>20. manifest' \in Manifests
  <2>1. ASSUME NEW t \in Syncs, Step(t) \/ StartFetch(t) \/ Fail(t) PROVE manifest' = manifest
    <3>1. ASSUME NEW r \in Refs, Prepare(t, r) \/ PrepareFails(t, r) PROVE manifest' = manifest
      BY <3>1 DEF Prepare, PrepareFails
    <3>2. ASSUME NEW p \in Paths, KeepEdited(t, p) \/ ChooseWrite(t, p) \/ CheckStale(t, p)
          PROVE  manifest' = manifest
      BY <3>2 DEF KeepEdited, ChooseWrite, CheckStale
    <3>3. ASSUME \/ Start(t) \/ ReadLock(t) \/ ListRefs(t) \/ BeginWrite(t) \/ OpenTemp(t)
                 \/ FillTemp(t) \/ Rename(t) \/ EndWrite(t)
          PROVE  manifest' = manifest
      BY <3>3 DEF Start, ReadLock, ListRefs, BeginWrite, OpenTemp, FillTemp, Rename, EndWrite
    <3>4. ASSUME \/ Remove(t) \/ SaveLock(t) \/ FillLock(t) \/ CommitLock(t)
                 \/ StartFetch(t) \/ Fail(t)
          PROVE  manifest' = manifest
      BY <3>4 DEF Remove, SaveLock, FillLock, CommitLock, StartFetch, Fail
    <3> QED
      BY <2>1, <3>1, <3>2, <3>3, <3>4 DEF Step
  <2> QED
    BY <1>0, <2>1 DEF Next, World, SourceMoves, ChangeManifest, Edit, Seal, Unseal, vars
<1> QED
  BY <1>19, <1>20 DEF OutcomeInv

\* While one run is in flight at a time, no error, no crash and no other step
\* leaves an empty or a torn file or lock in the project: what is in place is
\* whole (writeFile, syncer.go:290-317; writeLock, 501-507).
THEOREM FilesAreWhole == ASSUME OneRun PROVE Spec => []WrittenWhole
<1> DEFINE InPlace == \A p \in Paths : disk[p] \in Genuine[p] \cup Edits \cup {None}
<1>1. Init => InPlace
  BY DEF Init, NoFiles
<1>2. OneRun /\ AloneInv /\ VerifiedInv /\ OutcomeInv /\ InPlace /\ [Next]_vars => InPlace'
  <2> SUFFICES ASSUME AloneInv, VerifiedInv, OutcomeInv, InPlace, [Next]_vars, disk' # disk,
                      NEW p \in Paths
               PROVE  disk'[p] \in Genuine[p] \cup Edits \cup {None}
    BY DEF Genuine
  <2>0. TypeOK
    BY DEF AloneInv
  <2>1. ASSUME NEW s \in Syncs, Rename(s) PROVE disk'[p] \in Genuine[p] \cup Edits \cup {None}
    <3>1. /\ disk' = [disk EXCEPT ![cur[s]] = temp[cur[s]]]
          /\ pc[s] = "rename"
      BY <2>1 DEF Rename, fileVars
    <3>2. temp[cur[s]] = out[s][cur[s]]
      BY <3>1 DEF OutcomeInv, Placed
    <3>3. out[s][cur[s]] \in Genuine[cur[s]]
      BY <3>1 DEF VerifiedInv, TypeOK, TodoPlanned, OutVerified, Writing
    <3> QED
      BY <2>0, <3>1, <3>2, <3>3 DEF TypeOK
  <2>2. ASSUME NEW s \in Syncs, Remove(s) PROVE disk'[p] \in Genuine[p] \cup Edits \cup {None}
    BY <2>0, <2>2 DEF Remove, TypeOK
  <2>3. ASSUME NEW q \in Paths, Edit(q) PROVE disk'[p] \in Genuine[p] \cup Edits \cup {None}
    BY <2>0, <2>3 DEF Edit, TypeOK
  <2> QED
    BY <2>1, <2>2, <2>3, WhoWrites, OneRun DEF vars
<1>3. AloneInv /\ InPlace /\ OneRun => WrittenWhole
  BY DEF WrittenWhole, AloneInv, AloneSound, OneRun
<1>4. OneRun
  OBVIOUS
<1> QED
  BY <1>1, <1>2, <1>3, <1>4, AloneInit, AloneStep, VerifiedInit, VerifiedStep,
     OutcomeInit, OutcomeStep, PTL
  DEF Spec

\* What is visible of the only run there is.
LEMMA VisibleOfOne ==
  ASSUME NEW s \in Syncs, \A t \in Syncs : t = s
  PROVE  /\ AtWork = IF pc[s] = "idle" THEN "none"
                     ELSE IF force[s] THEN "forced" ELSE "careful"
         /\ InHand = IF pc[s] \in {"temp", "fill", "rename", "remove"}
                     THEN {p \in Paths : p = cur[s]} ELSE {}
         /\ AtWork' = IF pc'[s] = "idle" THEN "none"
                      ELSE IF force'[s] THEN "forced" ELSE "careful"
         /\ InHand' = IF pc'[s] \in {"temp", "fill", "rename", "remove"}
                      THEN {p \in Paths : p = cur'[s]} ELSE {}
<1>1. /\ AtWork = IF pc[s] = "idle" THEN "none"
                  ELSE IF force[s] THEN "forced" ELSE "careful"
      /\ AtWork' = IF pc'[s] = "idle" THEN "none"
                   ELSE IF force'[s] THEN "forced" ELSE "careful"
  BY DEF AtWork, AllIdle
<1>2. InHand = {p \in Paths : cur[s] = p /\ pc[s] \in {"temp", "fill", "rename", "remove"}}
  BY DEF InHand, Targeted
<1>3. InHand' = {p \in Paths : cur'[s] = p /\ pc'[s] \in {"temp", "fill", "rename", "remove"}}
  BY DEF InHand, Targeted
<1> QED
  BY <1>1, <1>2, <1>3

\* What a verified bundle has at a path is what an installable entry has.
LEMMA GenuineIsOffered ==
  ASSUME NEW p \in Paths, NEW d \in Genuine[p], d # None
  PROVE  \E r \in Refs : \E e \in Installable[r] : e.files[p] # None /\ e.files[p] = d
<1>1. PICK x \in Sources, r \in Refs : \E b \in Bundles[x] :
        b.digest = b.content /\ b.content \in DOMAIN Out[r] /\ d = Out[r][b.content][p]
  BY DEF Genuine
<1>2. PICK b \in Bundles[x] :
        b.digest = b.content /\ b.content \in DOMAIN Out[r] /\ d = Out[r][b.content][p]
  BY <1>1
<1> DEFINE e == [source |-> x, version |-> b.version, digest |-> b.content,
                 files |-> Out[r][b.content]]
<1>3. e \in Installable[r]
  BY <1>2 DEF Installable, Verified
<1>4. e.files[p] = d
  BY <1>2
<1> QED
  BY <1>3, <1>4

\* The plan that is committed is the outcome of a whole manifest.
LEMMA PlanIsOutcome ==
  ASSUME TypeOK, NEW s \in Syncs, Whole(s), PlanSound(s), mode[s] = "sync", pc[s] = "commit"
  PROVE  /\ plan[s] \in [Refs -> P!Entries \cup {None}]
         /\ \E m \in Manifests : P!OutcomeOf(m, plan[s])
<1>1. pc[s] \notin Planless /\ wanted[s] = {}
  BY DEF PlanSound, Planless, Writing, Finishing
<1>2. \A r \in Refs : plan[s][r] # None =>
        r \in man[s].skills /\ plan[s][r] \in Installable[r] /\ plan[s][r].source = man[s].source
  BY DEF Whole
<1>3. plan[s] \in [Refs -> Entry \cup {None}]
  BY DEF TypeOK, Lock
<1>4. plan[s] \in [Refs -> P!Entries \cup {None}]
  <2>1. \A r \in Refs : plan[s][r] \in P!Entries \cup {None}
    BY <1>2 DEF P!Entries
  <2> QED
    BY <1>3, <2>1
<1>5. man[s].skills \subseteq Refs /\ man[s].skills # {}
  BY <1>1 DEF TypeOK, Manifest, Whole
<1>6. {r \in Refs : plan[s][r] # None} = man[s].skills
  BY <1>1, <1>2, <1>5 DEF PlanSound
<1>7. PICK m \in Manifests : man[s].source = m.source /\ (m.star \/ man[s].skills = m.skills)
  BY DEF Whole
<1>8. \A q, r \in Refs : \A p \in Paths :
        plan[s][q] # None /\ plan[s][r] # None /\ plan[s][q].files[p] # None
          /\ plan[s][r].files[p] # None => q = r
  BY DEF PlanSound, OnePathOneOwner
<1>9. P!OutcomeOf(m, plan[s])
  BY <1>2, <1>5, <1>6, <1>7, <1>8 DEF P!OutcomeOf
<1> QED
  BY <1>4, <1>7, <1>9

LEMMA RecordedByLock ==
  ASSUME NEW l, NEW p PROVE P!RecordedBy(l, p) = Recorded(l, p)
BY DEF P!RecordedBy, Recorded

LEMMA PromiseStep ==
  ASSUME OneRun, AloneInv, VerifiedInv, EditInv, PlanInv, OutcomeInv, [Next]_vars
  PROVE  [P!Next]_(P!vars)
<1> USE DEF fileVars, worldVars, countVars, runVars
<1> PICK s \in Syncs : \A t \in Syncs : t = s
  BY DEF OneRun
<1> DEFINE Kept == UNCHANGED <<disk, lock, author, unreadable>>
           Goal == P!Next \/ UNCHANGED P!vars
<1>0. /\ TypeOK /\ AloneSound(s) /\ Whole(s) /\ Placed(s) /\ PlanSound(s) /\ NoEditTargeted(s)
      /\ EditInv /\ VerifiedInv
  BY DEF AloneInv, OutcomeInv, PlanInv, EditInv
<1>w. /\ AtWork = IF pc[s] = "idle" THEN "none"
                  ELSE IF force[s] THEN "forced" ELSE "careful"
      /\ InHand = IF pc[s] \in {"temp", "fill", "rename", "remove"}
                  THEN {p \in Paths : p = cur[s]} ELSE {}
      /\ AtWork' = IF pc'[s] = "idle" THEN "none"
                   ELSE IF force'[s] THEN "forced" ELSE "careful"
      /\ InHand' = IF pc'[s] \in {"temp", "fill", "rename", "remove"}
                   THEN {p \in Paths : p = cur'[s]} ELSE {}
  BY VisibleOfOne
\* Most steps cannot be seen.
<1>a. ASSUME Kept, pc[s] # "idle", pc'[s] # "idle", force'[s] = force[s], InHand' = InHand
      PROVE  Goal
  <2>1. AtWork' = AtWork
    BY <1>a, <1>w
  <2> QED
    BY <1>a, <2>1 DEF P!vars
\* A run that returns, early or not, is seen to end.
<1>b. ASSUME Return(s), Kept, pc[s] # "idle" PROVE Goal
  <2>1. pc'[s] = "idle"
    BY <1>0, <1>b DEF Return, TypeOK
  <2>2. P!End
    BY <1>b, <1>w, <2>1 DEF P!End
  <2> QED
    BY <2>2 DEF P!Next
<1>1. ASSUME Start(s) \/ StartFetch(s) PROVE Goal
  <2>1. Kept /\ pc[s] = "idle" /\ pc'[s] \in {"readLock", "prepare"}
    BY <1>0, <1>1 DEF Start, StartFetch, TypeOK
  <2>2. P!Begin
    BY <1>w, <2>1 DEF P!Begin
  <2> QED
    BY <2>2 DEF P!Next
<1>2. ASSUME ReadLock(s) PROVE Goal
  <2>1. Kept /\ pc[s] = "readLock" /\ pc'[s] = "refs" /\ force' = force
    BY <1>0, <1>2 DEF ReadLock, TypeOK, AloneSound
  <2> QED
    BY <1>a, <1>w, <2>1
<1>3. ASSUME ListRefs(s) PROVE Goal
  <2>1. CASE Listed(s) = {}
    BY <1>3, <1>b, <2>1 DEF ListRefs
  <2>2. CASE Listed(s) # {}
    <3>1. Kept /\ pc[s] = "refs" /\ pc'[s] = "prepare" /\ force' = force
      BY <1>0, <1>3, <2>2 DEF ListRefs, TypeOK
    <3> QED
      BY <1>a, <1>w, <3>1
  <2> QED
    BY <2>1, <2>2
<1>4. ASSUME NEW r \in Refs, Prepare(s, r) PROVE Goal
  <2>1. Kept /\ pc[s] = "prepare" /\ pc' = pc /\ force' = force
    BY <1>4 DEF Prepare
  <2> QED
    BY <1>a, <1>w, <2>1
<1>5. ASSUME NEW r \in Refs, PrepareFails(s, r) PROVE Goal
  BY <1>5, <1>b DEF PrepareFails
<1>6. ASSUME BeginWrite(s) PROVE Goal
  <2>0. Kept /\ pc[s] = "prepare"
    BY <1>6 DEF BeginWrite
  <2>1. CASE Return(s)
    BY <1>b, <2>0, <2>1
  <2>2. CASE ~Return(s)
    <3>1. pc'[s] = "check" /\ force' = force
      BY <1>0, <1>6, <2>2 DEF BeginWrite, TypeOK
    <3> QED
      BY <1>a, <1>w, <2>0, <3>1
  <2> QED
    BY <2>1, <2>2
<1>7. ASSUME NEW p \in Paths, KeepEdited(s, p) PROVE Goal
  <2>1. Kept /\ pc[s] = "check" /\ pc' = pc /\ force' = force
    BY <1>7 DEF KeepEdited
  <2> QED
    BY <1>a, <1>w, <2>1
\* A run that compares goes by the lock, unless it is a fetch, which writes
\* with force.
<1>c. ASSUME pc[s] \in Writing \cup Finishing PROVE force[s] \/ old[s] = lock
  BY <1>0, <1>c DEF AloneSound, TypeOK, Writing, Finishing
<1>8. ASSUME NEW p \in Paths, ChooseWrite(s, p) PROVE Goal
  <2>1. /\ Kept /\ pc[s] = "check" /\ pc'[s] = "temp" /\ cur'[s] = p /\ force' = force
        /\ p \in todo[s]
    BY <1>0, <1>8 DEF ChooseWrite, TypeOK
  <2>2. InHand = {} /\ InHand' = {p} /\ AtWork' = AtWork /\ AtWork # "none"
    BY <1>w, <2>1
  <2>3. p \notin Unsafe
    BY <1>0, <2>1 DEF VerifiedInv, TodoPlanned, Writing
  <2>4. author[p] = "edit" /\ Recorded(lock, p) # {} => force[s] \/ p \in unreadable
    BY <1>0, <1>8, <1>c, <2>1, EditIsSeen DEF ChooseWrite, Writing
  <2>5. P!Look(p)
    BY <1>w, <2>1, <2>2, <2>3, <2>4, RecordedByLock DEF P!Look
  <2> QED
    BY <2>5 DEF P!Next
<1>9. ASSUME OpenTemp(s) PROVE Goal
  <2>1. Kept /\ pc[s] = "temp" /\ pc'[s] = "fill" /\ force' = force /\ cur' = cur
    BY <1>0, <1>9 DEF OpenTemp, TypeOK
  <2> QED
    BY <1>a, <1>w, <2>1
<1>9f. ASSUME FillTemp(s) PROVE Goal
  <2>0. pc[s] = "fill" /\ cur[s] \in Paths /\ temp[cur[s]] = Empty
    BY <1>0, <1>9f DEF FillTemp, TypeOK, VerifiedInv, TodoPlanned, Placed, Writing
  <2>f. disk' = disk
    BY <1>0, <1>9f, <2>0, FilledAlone
  <2>1. Kept /\ pc'[s] = "rename" /\ force' = force /\ cur' = cur
    BY <1>0, <1>9f, <2>f DEF FillTemp, TypeOK
  <2> QED
    BY <1>a, <1>w, <2>0, <2>1
<1>10. ASSUME Rename(s) PROVE Goal
  <2>0. pc[s] = "rename" /\ lock' = lock
    BY <1>10 DEF Rename
  <2>1. CASE temp[cur[s]] = None
    BY <1>10, <1>b, <2>0, <2>1 DEF Rename
  <2>2. CASE temp[cur[s]] # None
    <3> DEFINE p == cur[s]
    <3>1. p \in Paths /\ p \notin Unsafe /\ out[s][p] # None
      BY <1>0, <2>0 DEF VerifiedInv, TypeOK, TodoPlanned, Writing
    <3>2. /\ disk' = [disk EXCEPT ![p] = temp[p]]
          /\ author' = [author EXCEPT ![p] = "sync"]
          /\ unreadable' = unreadable \ {p}
          /\ pc'[s] = "check" /\ force' = force
      BY <1>0, <1>10, <2>2 DEF Rename, TypeOK
    <3>3. InHand = {p} /\ InHand' = {} /\ AtWork' = AtWork
      BY <1>w, <2>0, <3>1, <3>2
    <3>4. \E r \in Refs : \E e \in Installable[r] : e.files[p] # None /\ e.files[p] = temp[p]
      <4>1. temp[p] = out[s][p]
        BY <1>0, <2>0 DEF Placed
      <4>2. out[s][p] \in Genuine[p]
        BY <1>0, <3>1 DEF VerifiedInv, OutVerified
      <4> QED
        BY <3>1, <4>1, <4>2, GenuineIsOffered
    <3> HIDE DEF p
    <3>5. P!Bring(p)
      BY <2>0, <3>2, <3>3, <3>4 DEF P!Bring
    <3> QED
      BY <3>1, <3>5 DEF P!Next
  <2> QED
    BY <2>1, <2>2
<1>11. ASSUME EndWrite(s) PROVE Goal
  <2>0. Kept /\ pc[s] = "check"
    BY <1>11 DEF EndWrite
  <2>1. CASE Return(s)
    BY <1>b, <2>0, <2>1
  <2>2. CASE ~Return(s)
    <3>1. pc'[s] = "stale" /\ force' = force
      BY <1>0, <1>11, <2>2 DEF EndWrite, TypeOK
    <3> QED
      BY <1>a, <1>w, <2>0, <3>1
  <2> QED
    BY <2>1, <2>2
<1>12. ASSUME NEW p \in Paths, CheckStale(s, p) PROVE Goal
  <2>0. Kept /\ pc[s] = "stale" /\ force' = force
    BY <1>12 DEF CheckStale
  <2>1. CASE p \notin Unsafe /\ Unchanged(s, p)
    <3>1. pc'[s] = "remove" /\ cur'[s] = p
      BY <1>0, <1>12, <2>1 DEF CheckStale, TypeOK
    <3>2. InHand = {} /\ InHand' = {p} /\ AtWork' = AtWork /\ AtWork # "none"
      BY <1>w, <2>0, <3>1
    <3>3. author[p] # "edit"
      BY <1>0, <2>1, EditIsSeen
    <3>4. P!Look(p)
      BY <2>0, <2>1, <3>2, <3>3 DEF P!Look
    <3> QED
      BY <3>4 DEF P!Next
  <2>2. CASE ~(p \notin Unsafe /\ Unchanged(s, p))
    <3>1. pc' = pc
      BY <1>12, <2>2 DEF CheckStale
    <3> QED
      BY <1>a, <1>w, <2>0, <3>1
  <2> QED
    BY <2>1, <2>2
<1>13. ASSUME Remove(s) PROVE Goal
  <2> DEFINE p == cur[s]
  <2>1. pc[s] = "remove" /\ pc'[s] = "stale" /\ lock' = lock /\ force' = force
    BY <1>0, <1>13 DEF Remove, TypeOK
  <2>2. p \in Paths /\ Recorded(lock, p) # {}
    BY <1>0, <2>1 DEF Placed, TypeOK
  <2>3. InHand = {p} /\ InHand' = {} /\ AtWork' = AtWork
    BY <1>w, <2>1, <2>2
  <2>4. CASE /\ disk' = [disk EXCEPT ![p] = None]
             /\ author' = [author EXCEPT ![p] = "none"]
             /\ unreadable' = unreadable \ {p}
    <3> HIDE DEF p
    <3>1. P!TakeAway(p)
      BY <2>1, <2>2, <2>3, <2>4, RecordedByLock DEF P!TakeAway
    <3> QED
      BY <2>2, <3>1 DEF P!Next
  <2>5. CASE UNCHANGED <<disk, author, unreadable>>
    <3>1. P!LetBe
      BY <2>1, <2>3, <2>5 DEF P!LetBe
    <3> QED
      BY <3>1 DEF P!Next
  <2> QED
    BY <1>13, <2>4, <2>5 DEF Remove
<1>14. ASSUME SaveLock(s) PROVE Goal
  <2>1. Kept /\ pc[s] = "stale" /\ pc'[s] = "fillLock" /\ force' = force
    BY <1>0, <1>14 DEF SaveLock, TypeOK
  <2> QED
    BY <1>a, <1>w, <2>1
<1>14f. ASSUME FillLock(s) PROVE Goal
  <2>1. Kept /\ pc[s] = "fillLock" /\ pc'[s] = "commit" /\ force' = force
    BY <1>0, <1>14f DEF FillLock, PutIntoLock, AloneSound, TypeOK
  <2> QED
    BY <1>a, <1>w, <2>1
<1>15. ASSUME CommitLock(s) PROVE Goal
  <2>1. /\ pc[s] = "commit" /\ lock' = plan[s] /\ Return(s)
        /\ UNCHANGED <<disk, author, unreadable>>
    <3>1. pc[s] = "commit" /\ lockTemp = plan[s] /\ lockTemp # None
      BY <1>0, <1>15, NoneAssumption DEF CommitLock, AloneSound, TypeOK
    <3> QED
      BY <1>15, <3>1 DEF CommitLock
  <2>2. pc'[s] = "idle"
    BY <1>0, <2>1 DEF Return, TypeOK
  <2>3. mode[s] = "sync" /\ old[s] = lock
    BY <1>0, <2>1 DEF AloneSound, TypeOK, Writing
  <2>4. /\ lock' \in [Refs -> P!Entries \cup {None}]
        /\ \E m \in Manifests : P!OutcomeOf(m, lock')
    BY <1>0, <2>1, <2>3, PlanIsOutcome
  <2>5. P!Respects(lock')
    BY <1>0, <2>1, <2>3 DEF P!Respects, PlanSound, PinsAgree
  <2>6. P!Settled(lock')
    <3> SUFFICES ASSUME NEW p \in Paths, Recorded(lock', p) # {}, disk[p] \in Recorded(lock, p)
                 PROVE  disk[p] \in Recorded(lock', p)
      BY RecordedByLock DEF P!Settled
    <3>1. out[s][p] # None
      BY <1>0, <2>1 DEF Recorded, PlanSound, ClaimsAreOut
    <3>2. disk[p] = out[s][p]
      BY <1>0, <2>1, <3>1 DEF Placed, Writing, Finishing
    <3>3. PICK r \in Refs : plan[s][r] # None /\ plan[s][r].files[p] = out[s][p]
      BY <1>0, <3>1 DEF Whole, OutIsPlanned
    <3> QED
      BY <2>1, <3>1, <3>2, <3>3 DEF Recorded
  <2>7. P!Commit
    BY <1>w, <2>1, <2>2, <2>4, <2>5, <2>6 DEF P!Commit
  <2> QED
    BY <2>7 DEF P!Next
<1>16. ASSUME Fail(s) PROVE Goal
  BY <1>0, <1>16, <1>b DEF Fail, PutInto, PutIntoLock, AloneSound
<1>17. ASSUME NEW p \in Paths, Edit(p) PROVE Goal
  <2>1. UNCHANGED <<lock, AtWork, InHand>>
    BY <1>17, <1>w DEF Edit
  <2>2. PICK d \in Edits \cup {None} :
          /\ disk' = [disk EXCEPT ![p] = d]
          /\ author' = [author EXCEPT ![p] =
               CASE d = None \/ @ = "none" -> "none"
                 [] d # None /\ @ # "none" -> IF Targeted(p) THEN "raced" ELSE "edit"]
    BY <1>17 DEF Edit
  <2>3. Targeted(p) <=> p \in InHand
    BY DEF InHand
  <2>4. P!Save(p)
    BY <1>17, <2>1, <2>2, <2>3 DEF Edit, P!Save
  <2> QED
    BY <2>4 DEF P!Next
<1>17s. ASSUME NEW p \in Paths, Seal(p) \/ Unseal(p) PROVE Goal
  <2>1. UNCHANGED <<disk, lock, author, AtWork, InHand>>
    BY <1>17s, <1>w DEF Seal, Unseal
  <2>2. unreadable' \in SUBSET Paths
    BY <1>0, <1>17s DEF Seal, Unseal, TypeOK
  <2>3. P!Access
    BY <2>1, <2>2 DEF P!Access
  <2> QED
    BY <2>3 DEF P!Next
<1>18. ASSUME UNCHANGED <<fileVars, runVars>> PROVE Goal
  <2>1. UNCHANGED <<AtWork, InHand>>
    BY <1>18, <1>w
  <2> QED
    BY <1>18, <2>1 DEF P!vars
<1>19. Goal
  BY <1>1, <1>2, <1>3, <1>4, <1>5, <1>6, <1>7, <1>8, <1>9, <1>10, <1>11,
     <1>9f, <1>12, <1>13, <1>14, <1>14f, <1>15, <1>16, <1>17, <1>17s, <1>18
  DEF Next, Step, World, SourceMoves, ChangeManifest, vars
<1> QED
  BY <1>19

\* While one run is in flight at a time, of sync or of fetch, all that the
\* owner of the project can see of it is a sequence of steps of Project: each
\* file changes by itself, to verified data as a whole and never under an edit
\* that the lock records, unless the run could not read that file, and the
\* lock changes as a whole, last, to the outcome of one manifest that respects
\* the pins (SyncWith, syncer.go:354-447; locallyEdited, 244-263).
THEOREM SyncKeepsItsPromise == ASSUME OneRun PROVE Spec => ImplementsProject
<1>1. Init => P!Init
  <2> SUFFICES ASSUME Init PROVE P!Init
    OBVIOUS
  <2>1. \A s \in Syncs : pc[s] = "idle" /\ cur[s] = None
    BY DEF Init
  <2>2. AtWork = "none" /\ InHand = {}
    BY <2>1 DEF AtWork, AllIdle, InHand, Targeted
  <2> QED
    BY <2>2 DEF Init, P!Init, NoFiles, NoLock
<1>2. OneRun
  OBVIOUS
<1>3. AloneInv /\ VerifiedInv /\ EditInv /\ PlanInv /\ OutcomeInv /\ [Next]_vars
        => [P!Next]_(P!vars)
  BY <1>2, PromiseStep
<1> QED
  BY <1>1, <1>2, <1>3, AloneInit, AloneStep, VerifiedInit, VerifiedStep, EditInit, EditStep,
     PlanInit, PlanStep, OutcomeInit, OutcomeStep, PTL
  DEF Spec, ImplementsProject, P!Spec

=============================================================================
