------------------------------- MODULE Project -------------------------------
(***************************************************************************)
(* What sgw promises the owner of a project, whatever fails underneath,    *)
(* while one run is at work at a time: files change one by one, only to    *)
(* what a verified bundle has at that path, and never under the owner's    *)
(* hands once she has edited what the lock records, unless nobody can read *)
(* the file; the lock changes as a whole, to the outcome of one complete   *)
(* sync, after the files.                                                  *)
(***************************************************************************)

CONSTANTS
  Refs, Paths,
  Unsafe,     \* the paths outside the project
  Offered,    \* Offered[r]: the lock entries that skill r may get
  Wanted,     \* the manifests the owner may choose between
  Edits,      \* what the owner writes
  None,
  Fixed, Pinnable

VARIABLES
  disk,       \* the project's files
  lock,       \* sgw-lock.json
  author,     \* who wrote the file at a path
  unreadable, \* the files that cannot be read
  run,        \* the run at work: "none", "careful" or "forced"
  held        \* the path it has looked at and is about to change

vars == <<disk, lock, author, unreadable, run, held>>

RecordedBy(l, p) ==
  {l[r].files[p] : r \in {q \in Refs : l[q] # None}} \ {None}

Entries == UNION {Offered[r] : r \in Refs}

Init ==
  /\ disk = [p \in Paths |-> None]
  /\ lock = [r \in Refs |-> None]
  /\ author = [p \in Paths |-> "none"]
  /\ unreadable = {}
  /\ run = "none"
  /\ held = {}

Begin ==
  /\ run = "none"
  /\ run' \in {"careful", "forced"}
  /\ UNCHANGED <<disk, lock, author, unreadable, held>>

\* A run ends wherever it is, with or without an error.
End ==
  /\ run # "none"
  /\ run' = "none"
  /\ held' = {}
  /\ UNCHANGED <<disk, lock, author, unreadable>>

\* A run turns to a file, unless that is an edit of what the lock records, as
\* far as it can be read, and nobody has told the run to overwrite those.
Look(p) ==
  /\ run # "none"
  /\ held = {}
  /\ p \notin Unsafe
  /\ author[p] = "edit" /\ RecordedBy(lock, p) # {} => run = "forced" \/ p \in unreadable
  /\ held' = {p}
  /\ UNCHANGED <<disk, lock, author, unreadable, run>>

LetBe ==
  /\ held' = {}
  /\ UNCHANGED <<disk, lock, author, unreadable, run>>

\* The file becomes what some skill has at its path.
Bring(p) ==
  /\ held = {p}
  /\ held' = {}
  /\ \E r \in Refs : \E e \in Offered[r] :
       /\ e.files[p] # None
       /\ disk' = [disk EXCEPT ![p] = e.files[p]]
  /\ author' = [author EXCEPT ![p] = "sync"]
  /\ unreadable' = unreadable \ {p}
  /\ UNCHANGED <<lock, run>>

\* A file goes only if the lock records it.
TakeAway(p) ==
  /\ held = {p}
  /\ held' = {}
  /\ RecordedBy(lock, p) # {}
  /\ disk' = [disk EXCEPT ![p] = None]
  /\ author' = [author EXCEPT ![p] = "none"]
  /\ unreadable' = unreadable \ {p}
  /\ UNCHANGED <<lock, run>>

\* The lock is that of one manifest: every skill it names and no other, all
\* from its source, and no path with two owners.
OutcomeOf(m, l) ==
  LET installed == {r \in Refs : l[r] # None}
  IN /\ installed # {}
     /\ m.star \/ installed = m.skills
     /\ \A r \in installed : l[r] \in Offered[r] /\ l[r].source = m.source
     /\ \A q, r \in installed : \A p \in Paths :
          l[q].files[p] # None /\ l[r].files[p] # None => q = r

\* It respects the pins of the lock it replaces.
Respects(l) ==
  \A r \in Refs : l[r] # None /\ lock[r] # None =>
    /\ l[r].source \in Pinnable /\ l[r].version = lock[r].version
         => l[r].digest = lock[r].digest
    /\ l[r].source \in Fixed /\ l[r].source = lock[r].source
         => l[r].version = lock[r].version

\* Of the files it claims, none is still as the lock before recorded it,
\* unless it records the same.
Settled(l) ==
  \A p \in Paths : RecordedBy(l, p) # {} /\ disk[p] \in RecordedBy(lock, p)
                     => disk[p] \in RecordedBy(l, p)

Commit ==
  /\ run # "none"
  /\ held = {}
  /\ lock' \in [Refs -> Entries \cup {None}]
  /\ \E m \in Wanted : OutcomeOf(m, lock')
  /\ Respects(lock')
  /\ Settled(lock')
  /\ run' = "none"
  /\ UNCHANGED <<disk, author, unreadable, held>>

\* The owner writes or deletes a file, of sync's or of her own.  Only what
\* she writes under the hands of a run can be lost.
Save(p) ==
  /\ \E d \in Edits \cup {None} :
       /\ disk' = [disk EXCEPT ![p] = d]
       /\ author' = [author EXCEPT ![p] =
            CASE d = None \/ @ = "none" -> "none"
              [] d # None /\ @ # "none" -> IF p \in held THEN "raced" ELSE "edit"]
  /\ unreadable' = unreadable \ {p}
  /\ UNCHANGED <<lock, run, held>>

\* What can be read changes at any time, by the owner's doing or not.
Access ==
  /\ unreadable' \in SUBSET Paths
  /\ UNCHANGED <<disk, lock, author, run, held>>

Next ==
  \/ Begin \/ End \/ LetBe \/ Commit \/ Access
  \/ \E p \in Paths : Look(p) \/ Bring(p) \/ TakeAway(p) \/ Save(p)

Spec == Init /\ [][Next]_vars
=============================================================================
