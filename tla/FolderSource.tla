---------------------------- MODULE FolderSource -----------------------------
(***************************************************************************)
(* A folder of skills as the source of the session hook                    *)
(* (internal/source/dir.go, peek.go).  Dir.Peek walks the folder file by   *)
(* file for modification times; when they differ from those recorded, the  *)
(* skills are listed, read file by file, installed, and the fingerprint    *)
(* from before is recorded.  Authors work in the folder all the while.     *)
(*                                                                         *)
(* A path is its rank in the order of the walk.  A modification time is    *)
(* the number of writes so far: every write has a new one.                 *)
(***************************************************************************)
EXTENDS Naturals

CONSTANTS
  Last,        \* the paths are 1..Last
  Skills,
  Skill,       \* the skill in whose folder a path is
  Manifests,   \* the SKILL.md files
  Skipped,     \* paths in hidden, vendor and node_modules folders: not walked
  Hidden,      \* hidden files and paths in hidden folders: not read
  Contents,
  Bad,         \* contents that make a skill invalid: a link, a wrong name
  MaxWrites, MaxFaults   \* bounds on what authors do and on walks that fail

Paths == 1..Last
None == 0

ASSUME FolderAssumption ==
  /\ Last \in Nat \ {0}
  /\ Skill \in [Paths -> Skills]
  /\ Manifests \subseteq Paths /\ Skipped \subseteq Paths /\ Hidden \subseteq Paths
  /\ Bad \subseteq Contents /\ None \notin Contents
  /\ MaxWrites \in Nat /\ MaxFaults \in Nat

VARIABLES
  tree,        \* the folder: the time and the content of every file
  pc, at,      \* where a run of the hook is
  stamps,      \* the fingerprint it takes
  listed, got, \* the skills it listed, the files it read
  known,       \* the recorded fingerprint
  installed,   \* the files of the last sync
  writes, faults

hook == <<pc, at, stamps, listed, got, known, installed>>
vars == <<tree, hook, writes, faults>>

File == [time : 1..MaxWrites, content : Contents]
NoFile == [time |-> 0, content |-> None]
NoTimes == [p \in Paths |-> 0]
Nothing == [p \in Paths |-> None]

TypeOK ==
  /\ tree \in [Paths -> File \cup {NoFile}]
  /\ pc \in {"idle", "peek", "list", "read"}
  /\ at \in Paths
  /\ stamps \in [Paths -> 0..MaxWrites] /\ known \in [Paths -> 0..MaxWrites]
  /\ listed \subseteq Skills
  /\ got \in [Paths -> Contents \cup {None}]
  /\ installed \in [Paths -> (Contents \ Bad) \cup {None}]
  /\ writes \in 0..MaxWrites /\ faults \in 0..MaxFaults

Init ==
  /\ tree = [p \in Paths |-> NoFile]
  /\ pc = "idle" /\ at = 1
  /\ stamps = NoTimes /\ listed = {} /\ got = Nothing
  /\ known = NoTimes /\ installed = Nothing
  /\ writes = 0 /\ faults = 0

-----------------------------------------------------------------------------
Exists(p) == tree[p] # NoFile

\* What the walk sees of a path.
Stamp(p) == IF p \in Skipped THEN 0 ELSE tree[p].time

\* Every folder with a SKILL.md that the walk sees is a skill.
Offered == {Skill[p] : p \in {q \in Manifests \ Skipped : Exists(q)}}

\* What reading a skill takes of its folder: all but hidden files.
Wanted(p, skills) == Skill[p] \in skills /\ p \notin Hidden /\ Exists(p)

-----------------------------------------------------------------------------
Leave ==
  /\ pc' = "idle" /\ at' = 1
  /\ stamps' = NoTimes /\ listed' = {} /\ got' = Nothing

Keep == UNCHANGED <<known, installed>>

Start ==
  /\ pc = "idle"
  /\ pc' = "peek"
  /\ UNCHANGED <<tree, at, stamps, listed, got, known, installed, writes, faults>>

Seen == [stamps EXCEPT ![at] = Stamp(at)]

\* Peek looks at one more file.  After the last the hook compares, and
\* leaves when nothing has changed.
Stat ==
  /\ pc = "peek"
  /\ IF at < Last
     THEN /\ at' = at + 1 /\ stamps' = Seen
          /\ UNCHANGED <<pc, listed, got>>
     ELSE IF Seen = known THEN Leave
     ELSE /\ pc' = "list" /\ at' = 1 /\ stamps' = Seen
          /\ UNCHANGED <<listed, got>>
  /\ Keep
  /\ UNCHANGED <<tree, writes, faults>>

\* Dir.List; without any SKILL.md it fails, and so does the run.
List ==
  /\ pc = "list"
  /\ IF Offered = {} THEN Leave
     ELSE /\ pc' = "read" /\ listed' = Offered
          /\ UNCHANGED <<at, stamps, got>>
  /\ Keep
  /\ UNCHANGED <<tree, writes, faults>>

Taken == [got EXCEPT ![at] = IF Wanted(at, listed) THEN tree[at].content ELSE None]

\* A file that spoils its skill, and a SKILL.md that has gone, end the run.
Spoilt ==
  \/ Taken[at] \in Bad
  \/ at \in Manifests \ Skipped /\ Skill[at] \in listed /\ ~Exists(at)

\* Mutant: the fingerprint that is recorded is that of the folder by then.
ReadBeforePeek ==
  /\ pc = "read"
  /\ IF Spoilt THEN Leave /\ Keep
     ELSE IF at < Last
     THEN /\ at' = at + 1 /\ got' = Taken
          /\ UNCHANGED <<pc, stamps, listed>> /\ Keep
     ELSE /\ installed' = Taken /\ known' = [p \in Paths |-> Stamp(p)]
          /\ Leave
  /\ UNCHANGED <<tree, writes, faults>>

\* Mutant: a failed read is recorded like a sync.
ReadRecorded ==
  /\ pc = "read"
  /\ IF Spoilt \/ at = Last
     THEN installed' = Taken /\ known' = stamps /\ Leave
     ELSE /\ at' = at + 1 /\ got' = Taken
          /\ UNCHANGED <<pc, stamps, listed>> /\ Keep
  /\ UNCHANGED <<tree, writes, faults>>

\* Dir.Resolve reads one more file.  After the last the sync installs what was
\* read, and the hook records the fingerprint it took before.
Read ==
  /\ pc = "read"
  /\ IF Spoilt THEN Leave /\ Keep
     ELSE IF at < Last
     THEN /\ at' = at + 1 /\ got' = Taken
          /\ UNCHANGED <<pc, stamps, listed>> /\ Keep
     ELSE /\ installed' = Taken /\ known' = stamps
          /\ Leave
  /\ UNCHANGED <<tree, writes, faults>>

\* A file vanishes between its name being listed and its being looked at.
Fail ==
  /\ pc # "idle"
  /\ faults < MaxFaults
  /\ faults' = faults + 1
  /\ Leave /\ Keep
  /\ UNCHANGED <<tree, writes>>

-----------------------------------------------------------------------------
(* The authors. *)

Write(p, c) ==
  /\ writes < MaxWrites
  /\ writes' = writes + 1
  /\ tree' = [tree EXCEPT ![p] = [time |-> writes + 1, content |-> c]]
  /\ UNCHANGED <<hook, faults>>

Delete(p) ==
  /\ Exists(p)
  /\ tree' = [tree EXCEPT ![p] = NoFile]
  /\ UNCHANGED <<hook, writes, faults>>

Step == Start \/ Stat \/ List \/ Read

Next == Step \/ Fail \/ \E p \in Paths : Delete(p) \/ \E c \in Contents : Write(p, c)

Spec == Init /\ [][Next]_vars

\* Sessions keep starting, and a run of the hook makes progress.
FairSpec == Spec /\ WF_vars(Step)

-----------------------------------------------------------------------------
Fingerprint == [p \in Paths |-> Stamp(p)]
Offer == [p \in Paths |-> IF Wanted(p, Offered) THEN tree[p].content ELSE None]
Valid == Offered # {} /\ \A p \in Paths : Offer[p] \notin Bad

UpToDate == \A p \in Paths : Offer[p] # None => installed[p] = Offer[p]

\* "A caller that holds the same fingerprint from last time knows there is no
\* work to do" (peek.go:14-15), although neither the fingerprint nor the skills
\* are read at one time: every file that the folder offers is installed.
NothingToDo == known = Fingerprint => UpToDate

\* The same of files that the folder no longer offers: they are not installed.
NothingToRemove ==
  known = Fingerprint => \A p \in Paths : installed[p] # None => Offer[p] # None

\* Once the authors are done, sessions install what the folder offers
\* (hook.go:193-240).
CatchesUp == <>[](Valid => UpToDate)
=============================================================================
