------------------------- MODULE FolderSourceProofs -------------------------
(***************************************************************************)
(* For every folder and every number of edits: a fingerprint that still    *)
(* fits tells that nothing is left to do, if the walk skips no folder.     *)
(***************************************************************************)
EXTENDS FolderSource, TLAPS

\* The walk sees every file.
WalksAll == Skipped = {}

\* The clock: a file written later has a time that no fingerprint holds.
Clocked ==
  /\ writes \in Nat
  /\ \A p \in Paths : /\ Exists(p) => tree[p].time \in 1..writes
                      /\ stamps[p] \in 0..writes
                      /\ known[p] \in 0..writes

Shaped ==
  /\ at \in Paths
  /\ pc \in {"idle", "peek", "list", "read"}
  /\ pc = "list" => at = 1
  /\ tree \in [Paths -> [time : Nat, content : Contents] \cup {NoFile}]
  /\ stamps \in [Paths -> Nat] /\ known \in [Paths -> Nat]
  /\ got \in [Paths -> Contents \cup {None}]
  /\ installed \in [Paths -> Contents \cup {None}]

\* The file is the one that the stamps saw.
Same(p, seen) == Exists(p) /\ tree[p].time = seen[p]

\* A skill whose SKILL.md is the one of the fingerprint was listed, and a file
\* that is the one of the fingerprint was read as it is.
ReadAsSeen ==
  pc = "read" =>
    /\ \A q \in Manifests : Same(q, stamps) => Skill[q] \in listed
    /\ \A p \in Paths \ Hidden :
         p < at /\ Same(p, stamps) /\ Skill[p] \in listed => got[p] = tree[p].content

\* Of a skill whose SKILL.md is the recorded one, every recorded file is
\* installed as it is.
InstalledAsKnown ==
  \A p \in Paths \ Hidden : \A q \in Manifests :
    Same(p, known) /\ Same(q, known) /\ Skill[q] = Skill[p]
      => installed[p] = tree[p].content

Inv == Shaped /\ Clocked /\ ReadAsSeen /\ InstalledAsKnown

LEMMA InvInit == Init => Inv
<1> SUFFICES ASSUME Init PROVE Inv
  OBVIOUS
<1>1. Shaped
  BY FolderAssumption DEF Init, Shaped, NoTimes, Nothing, None, Paths
<1>2. Clocked /\ InstalledAsKnown
  BY FolderAssumption DEF Init, Clocked, InstalledAsKnown, Same, Exists, NoTimes
<1>3. ReadAsSeen
  BY DEF Init, ReadAsSeen
<1> QED
  BY <1>1, <1>2, <1>3 DEF Inv

\* A run that ends without installing anything leaves nothing to compare.
LEMMA LeaveStep ==
  ASSUME Inv, Leave, UNCHANGED <<tree, known, installed, writes>>
  PROVE  Inv'
<1>1. Shaped'
  BY FolderAssumption DEF Inv, Shaped, Leave, NoTimes, Nothing, Paths
<1>2. Clocked' /\ InstalledAsKnown'
  BY DEF Inv, Shaped, Clocked, InstalledAsKnown, Same, Exists, Leave, NoTimes
<1>3. ReadAsSeen'
  BY DEF Leave, ReadAsSeen
<1> QED
  BY <1>1, <1>2, <1>3 DEF Inv

LEMMA StatStep == Inv /\ Stat => Inv'
<1> SUFFICES ASSUME Inv, Stat PROVE Inv'
  OBVIOUS
<1>1. CASE Leave
  BY <1>1, LeaveStep DEF Stat, Keep
<1>2. CASE ~Leave
  <2>1. /\ stamps' = Seen /\ pc' \in {"peek", "list"} /\ at' \in Paths
        /\ pc' = "list" => at' = 1
        /\ UNCHANGED <<tree, known, got, installed, writes>>
    BY <1>2, FolderAssumption DEF Inv, Shaped, Stat, Keep, Paths
  <2>2. Stamp(at) \in 0..writes
    BY DEF Inv, Shaped, Clocked, Stamp, Exists, NoFile
  <2>3. stamps' \in [Paths -> Nat] /\ \A p \in Paths : stamps'[p] \in 0..writes
    BY <2>1, <2>2 DEF Inv, Shaped, Clocked, Seen
  <2>4. Shaped'
    BY <2>1, <2>3 DEF Inv, Shaped
  <2>5. Clocked' /\ InstalledAsKnown'
    BY <2>1, <2>3 DEF Inv, Clocked, InstalledAsKnown, Same, Exists
  <2>6. ReadAsSeen'
    BY <2>1 DEF ReadAsSeen
  <2> QED
    BY <2>4, <2>5, <2>6 DEF Inv
<1> QED
  BY <1>1, <1>2

LEMMA ListStep == WalksAll /\ Inv /\ List => Inv'
<1> SUFFICES ASSUME WalksAll, Inv, List PROVE Inv'
  OBVIOUS
<1>1. CASE Offered = {}
  BY <1>1, LeaveStep DEF List, Keep
<1>2. CASE Offered # {}
  <2>1. /\ pc' = "read" /\ listed' = Offered
        /\ UNCHANGED <<tree, at, stamps, known, got, installed, writes>>
    BY <1>2 DEF List, Keep
  <2>2. Shaped' /\ Clocked' /\ InstalledAsKnown'
    BY <2>1 DEF Inv, Shaped, Clocked, InstalledAsKnown, Same, Exists
  <2>3. \A q \in Manifests : Same(q, stamps)' => Skill[q] \in listed'
    BY <2>1 DEF WalksAll, Same, Exists, Offered
  <2>4. ReadAsSeen'
    BY <2>1, <2>3 DEF Inv, Shaped, ReadAsSeen, Paths, List
  <2> QED
    BY <2>2, <2>4 DEF Inv
<1> QED
  BY <1>1, <1>2

LEMMA ReadStep == WalksAll /\ Inv /\ Read => Inv'
<1> SUFFICES ASSUME WalksAll, Inv, Read PROVE Inv'
  OBVIOUS
<1>1. CASE Spoilt
  BY <1>1, LeaveStep DEF Read, Keep
<1>2. Taken \in [Paths -> Contents \cup {None}]
  <2>1. Exists(at) => tree[at].content \in Contents
    BY DEF Inv, Shaped, Exists
  <2> DEFINE taken == IF Wanted(at, listed) THEN tree[at].content ELSE None
  <2>2. taken \in Contents \cup {None}
    BY <2>1 DEF Wanted
  <2>3. Taken = [got EXCEPT ![at] = taken]
    BY DEF Taken
  <2> HIDE DEF taken
  <2> QED
    BY <2>2, <2>3 DEF Inv, Shaped
\* What has been read up to and with this file is as it is.
<1>3. ASSUME NEW p \in Paths \ Hidden, p <= at, Same(p, stamps), Skill[p] \in listed
      PROVE  Taken[p] = tree[p].content
  <2>1. CASE p = at
    BY <1>3, <2>1 DEF Inv, Shaped, Taken, Wanted, Same
  <2>2. CASE p # at
    <3>1. p < at
      BY <1>3, <2>2 DEF Inv, Shaped, Paths
    <3>2. Taken[p] = got[p]
      BY <2>2 DEF Inv, Shaped, Taken
    <3> QED
      BY <1>3, <3>1, <3>2 DEF Inv, ReadAsSeen, Read
  <2> QED
    BY <2>1, <2>2
<1>4. CASE ~Spoilt /\ at < Last
  <2>1. /\ at' = at + 1 /\ got' = Taken
        /\ UNCHANGED <<tree, pc, stamps, listed, known, installed, writes>>
    BY <1>4 DEF Read, Keep
  <2>2. at' \in Paths /\ pc' = "read"
    BY <1>4, <2>1, FolderAssumption DEF Inv, Shaped, Paths, Read
  <2>3. Shaped'
    BY <1>2, <2>1, <2>2 DEF Inv, Shaped
  <2>4. Clocked' /\ InstalledAsKnown'
    BY <2>1 DEF Inv, Clocked, InstalledAsKnown, Same, Exists
  <2>5. ReadAsSeen'
    <3> SUFFICES ASSUME NEW p \in Paths \ Hidden, p < at', Same(p, stamps), Skill[p] \in listed
                 PROVE  got'[p] = tree[p].content
      BY <2>1, <2>2 DEF Inv, ReadAsSeen, Same, Exists
    <3>1. p <= at
      BY <2>1 DEF Inv, Shaped, Paths
    <3> QED
      BY <1>3, <2>1, <3>1
  <2> QED
    BY <2>3, <2>4, <2>5 DEF Inv
<1>5. CASE ~Spoilt /\ ~(at < Last)
  <2>1. /\ installed' = Taken /\ known' = stamps /\ Leave
        /\ UNCHANGED <<tree, writes>>
    BY <1>5 DEF Read
  <2>2. Shaped'
    BY <1>2, <2>1, FolderAssumption DEF Inv, Shaped, Leave, NoTimes, Nothing, Paths
  <2>3. Clocked'
    BY <2>1 DEF Inv, Clocked, Exists, Leave, NoTimes
  <2>4. InstalledAsKnown'
    <3> SUFFICES ASSUME NEW p \in Paths \ Hidden, NEW q \in Manifests,
                        Same(p, stamps), Same(q, stamps), Skill[q] = Skill[p]
                 PROVE  Taken[p] = tree[p].content
      BY <2>1 DEF InstalledAsKnown, Same, Exists
    <3>1. Skill[p] \in listed
      BY DEF Inv, ReadAsSeen, Read
    <3>2. p <= at
      BY <1>5, FolderAssumption DEF Inv, Shaped, Paths
    <3> QED
      BY <1>3, <3>1, <3>2
  <2>5. ReadAsSeen'
    BY <2>1 DEF Leave, ReadAsSeen
  <2> QED
    BY <2>2, <2>3, <2>4, <2>5 DEF Inv
<1> QED
  BY <1>1, <1>4, <1>5

\* A file that an author has touched is none that a fingerprint saw.
LEMMA AuthorStep ==
  ASSUME Inv, NEW p \in Paths, Delete(p) \/ \E c \in Contents : Write(p, c)
  PROVE  Inv'
<1>1. /\ UNCHANGED hook /\ writes' \in Nat /\ writes' >= writes
      /\ tree' \in [Paths -> [time : Nat, content : Contents] \cup {NoFile}]
      /\ \A q \in Paths \ {p} : tree'[q] = tree[q]
      /\ tree'[p] # NoFile => tree'[p].time = writes + 1 /\ writes' = writes + 1
  <2>1. CASE Delete(p)
    BY <2>1 DEF Delete, Inv, Shaped, Clocked
  <2>2. CASE \E c \in Contents : Write(p, c)
    <3>1. PICK c \in Contents : Write(p, c)
      BY <2>2
    <3> DEFINE new == [time |-> writes + 1, content |-> c]
    <3>2. tree' = [tree EXCEPT ![p] = new] /\ writes' = writes + 1 /\ UNCHANGED hook
      BY <3>1 DEF Write
    <3>3. new \in [time : Nat, content : Contents] /\ new.time = writes + 1
      BY DEF Inv, Clocked
    <3> HIDE DEF new
    <3>4. tree' \in [Paths -> [time : Nat, content : Contents] \cup {NoFile}]
      BY <3>2, <3>3 DEF Inv, Shaped
    <3>5. tree'[p] = new /\ \A q \in Paths \ {p} : tree'[q] = tree[q]
      BY <3>2 DEF Inv, Shaped
    <3> QED
      BY <3>2, <3>3, <3>4, <3>5 DEF Inv, Clocked
  <2> QED
    BY <2>1, <2>2
<1>2. Shaped'
  BY <1>1 DEF Inv, Shaped, hook
<1>3. Clocked'
  <2>1. \A q \in Paths : Exists(q)' => tree'[q].time \in 1..writes'
    BY <1>1 DEF Inv, Clocked, Exists, NoFile
  <2>2. \A q \in Paths : stamps'[q] \in 0..writes' /\ known'[q] \in 0..writes'
    BY <1>1 DEF Inv, Clocked, hook
  <2> QED
    BY <1>1, <2>1, <2>2 DEF Clocked
<1>4. /\ \A q \in Paths : Same(q, stamps)' => Same(q, stamps) /\ tree'[q] = tree[q]
      /\ \A q \in Paths : Same(q, known)' => Same(q, known) /\ tree'[q] = tree[q]
  BY <1>1 DEF Inv, Clocked, Same, Exists, hook, NoFile
<1>5. ReadAsSeen'
  BY <1>1, <1>4, FolderAssumption DEF Inv, ReadAsSeen, hook
<1>6. InstalledAsKnown'
  BY <1>1, <1>4, FolderAssumption DEF Inv, InstalledAsKnown, hook
<1> QED
  BY <1>2, <1>3, <1>5, <1>6 DEF Inv

LEMMA InvStep == WalksAll /\ Inv /\ [Next]_vars => Inv'
<1> SUFFICES ASSUME WalksAll, Inv, [Next]_vars PROVE Inv'
  OBVIOUS
<1>1. CASE Start
  BY <1>1 DEF Inv, Start, Shaped, Clocked, ReadAsSeen, InstalledAsKnown, Same, Exists
<1>2. CASE Fail
  BY <1>2, LeaveStep DEF Fail, Keep
<1>3. CASE UNCHANGED vars
  BY <1>3 DEF vars, hook, Inv, Shaped, Clocked, ReadAsSeen, InstalledAsKnown, Same, Exists
<1> QED
  BY <1>1, <1>2, <1>3, StatStep, ListStep, ReadStep, AuthorStep DEF Next, Step

\* Whatever authors do while the hook takes the fingerprint, lists and reads,
\* a recorded fingerprint that is still the folder's means that every file of
\* it is installed, if no folder is skipped (peek.go:14-15).
THEOREM FittingMeansInstalled ==
  ASSUME WalksAll
  PROVE  Spec => []NothingToDo
<1>1. Inv => NothingToDo
  <2> SUFFICES ASSUME Inv, known = Fingerprint, NEW p \in Paths, Offer[p] # None
               PROVE  installed[p] = Offer[p]
    BY DEF NothingToDo, UpToDate
  <2>1. p \notin Hidden /\ Exists(p) /\ Skill[p] \in Offered /\ Offer[p] = tree[p].content
    BY DEF Offer, Wanted
  <2>2. PICK q \in Manifests : Exists(q) /\ Skill[q] = Skill[p]
    BY <2>1 DEF Offered
  <2>3. q \in Paths
    BY <2>2, FolderAssumption
  <2>4. Same(p, known) /\ Same(q, known)
    BY <2>1, <2>2, <2>3, WalksAll DEF Same, Fingerprint, Stamp, WalksAll
  <2> QED
    BY <2>1, <2>2, <2>4 DEF Inv, InstalledAsKnown
<1>2. Inv /\ [Next]_vars => Inv'
  BY InvStep, WalksAll
<1> QED
  BY <1>1, <1>2, InvInit, PTL DEF Spec
=============================================================================
