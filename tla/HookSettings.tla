---------------------------- MODULE HookSettings ----------------------------
(***************************************************************************)
(* `sgw hook install` and `sgw hook remove` (internal/hook/hook.go,        *)
(* cmd/sgw/hook.go) edit the settings file of an agent, which belongs to   *)
(* the user and the agent: read it, keep a backup, write a .sgw-tmp file,  *)
(* rename it into place.  Of the document only its SessionStart list is    *)
(* told apart from the rest; an empty list is an absent one.               *)
(***************************************************************************)
EXTENDS Naturals, Sequences

CONSTANTS
  Ours,        \* hook commands that carry the marker
  Theirs,      \* any other hook command
  Rests,       \* the rest of a document
  UserDocs,    \* the documents that the user or the agent may write
  Missing,     \* no file
  Invalid,     \* a file that is no JSON object, or is cut short
  Null,        \* a file that holds `null`
  Odd,         \* a SessionStart (or hooks) of another shape than documented
  RacingEdits, \* whether the file may be edited while sgw is running
  MaxEdits,    \* bound on edits by others
  MaxRuns,     \* bound on sgw commands
  MaxFaults    \* bound on killed processes and failing writes

Entry == Seq(Ours \cup Theirs)
Document == [start: Seq(Entry) \cup {Odd}, rest: Rests]
NoRest == CHOOSE r \in Rests : TRUE
EmptyDoc == [start |-> <<>>, rest |-> NoRest]

ASSUME SettingsAssumption ==
  /\ Ours \cap Theirs = {}
  /\ Rests # {} /\ Ours # {}
  /\ UserDocs \subseteq Document \cup {Missing, Invalid, Null}
  /\ {Missing, Invalid, Null} \cap Document = {}
  /\ Missing \notin {Invalid, Null} /\ Invalid # Null
  /\ Odd \notin Seq(Entry)
  /\ RacingEdits \in BOOLEAN
  /\ MaxEdits \in Nat /\ MaxRuns \in Nat /\ MaxFaults \in Nat

VARIABLES
  file,     \* the settings file
  temp,     \* settings.json.sgw-tmp
  backup,   \* settings.json.sgw-backup
  stage, op,   \* the command: install or remove, and what it installs
  doc,      \* the document it is going to write
  raced,    \* history: where the command was when others wrote the file last
  edits, runs, faults

settingsCounts == <<edits, runs, faults>>
settingsVars == <<file, temp, backup, stage, op, doc, raced, settingsCounts>>

NoOp == [kind |-> "none", cmd |-> Missing]
Install(c) == [kind |-> "install", cmd |-> c]
Remove == [kind |-> "remove", cmd |-> Missing]

Files == Document \cup {Missing, Invalid, Null}

SettingsTypeOK ==
  /\ file \in Files
  /\ temp \in Document \cup {Missing, Invalid}
  /\ backup \in Files
  /\ stage \in {"idle", "backup", "temp", "rename"}
  /\ op \in {NoOp, Remove} \cup {Install(c) : c \in Ours}
  /\ doc \in Document \cup {Missing}
  /\ raced \in {"no", "before", "after"}
  /\ edits \in 0..MaxEdits /\ runs \in 0..MaxRuns /\ faults \in 0..MaxFaults

SettingsInit ==
  /\ file \in UserDocs
  /\ temp = Missing /\ backup = Missing
  /\ stage = "idle" /\ op = NoOp
  /\ doc = Missing
  /\ raced = "no"
  /\ edits = 0 /\ runs = 0 /\ faults = 0

-----------------------------------------------------------------------------
IsOurs(h) == h \in Ours
HasOurs(entry) == \E i \in DOMAIN entry : IsOurs(entry[i])

S == INSTANCE SequencesExt

\* The members of s that are in X, in their order.
Among(s, X) ==
  S!FlattenSeq([i \in DOMAIN s |-> IF s[i] \in X THEN <<s[i]>> ELSE <<>>])

Others(entry) == Among(entry, Theirs)

\* Mutant: an entry that holds one of ours is dropped as a whole.
RemoveOursWithNeighbours(entries) == SelectSeq(entries, LAMBDA e : ~HasOurs(e))

\* Mutant: an entry of ours is only recognised when nothing is beside it.
RemoveOursAlone(entries) == SelectSeq(entries, LAMBDA e : Others(e) # <<>>)

\* Commands of ours go, and with them an entry that holds nothing else; an
\* entry without one of ours stays as it is, even an empty one.
Stripped(entry) ==
  IF HasOurs(entry)
  THEN IF Others(entry) = <<>> THEN <<>> ELSE <<Others(entry)>>
  ELSE <<entry>>
RemoveOurs(entries) ==
  S!FlattenSeq([i \in DOMAIN entries |-> Stripped(entries[i])])

\* sessionStart: a list of another shape reads as an empty one.
SessionStart(d) == IF d.start = Odd THEN <<>> ELSE d.start

WithHook(d, c) ==
  [d EXCEPT !.start = Append(RemoveOurs(SessionStart(d)), <<c>>)]

\* Mutant: a list that is left empty empties the file.
RemovedBare(d) ==
  LET left == RemoveOurs(SessionStart(d))
  IN IF left = <<>> THEN Invalid ELSE [d EXCEPT !.start = left]

Removed(d) == [d EXCEPT !.start = RemoveOurs(SessionStart(d))]

Quit ==
  /\ stage' = "idle" /\ op' = NoOp
  /\ doc' = Missing
  /\ raced' = "no"

\* `sgw hook install` reads the file; what is no JSON is not edited.  Nothing
\* can be written into a `null`: the command ends in a panic, after the backup.
StartInstall(c) ==
  /\ stage = "idle"
  /\ runs < MaxRuns
  /\ runs' = runs + 1
  /\ IF file = Invalid
     THEN Quit
     ELSE /\ stage' = "backup"
          /\ op' = Install(c)
          /\ doc' = CASE file = Missing -> WithHook(EmptyDoc, c)
                      [] file = Null    -> Missing
                      [] OTHER          -> WithHook(file, c)
          /\ UNCHANGED raced
  /\ UNCHANGED <<file, temp, backup, edits, faults>>

\* `sgw hook remove` has nothing to do unless the list of entries shrinks, and
\* panics over a `null` right away.
StartRemove ==
  /\ stage = "idle"
  /\ runs < MaxRuns
  /\ runs' = runs + 1
  /\ IF \/ file \in {Missing, Invalid, Null}
        \/ Len(RemoveOurs(SessionStart(file))) = Len(SessionStart(file))
     THEN Quit
     ELSE /\ stage' = "backup"
          /\ op' = Remove
          /\ doc' = Removed(file)
          /\ UNCHANGED raced
  /\ UNCHANGED <<file, temp, backup, edits, faults>>

\* backup copies the file as it is now.
Backup ==
  /\ stage = "backup"
  /\ backup' = IF file = Missing THEN backup ELSE file
  /\ IF doc = Missing THEN Quit ELSE stage' = "temp" /\ UNCHANGED <<op, doc, raced>>
  /\ UNCHANGED <<file, temp, settingsCounts>>

WriteTemp ==
  /\ stage = "temp"
  /\ stage' = "rename"
  /\ temp' = doc
  /\ UNCHANGED <<file, backup, op, doc, raced, settingsCounts>>

Rename ==
  /\ stage = "rename"
  /\ file' = temp
  /\ temp' = Missing
  /\ Quit
  /\ UNCHANGED <<backup, settingsCounts>>

\* The process is killed or a write fails, which may cut short what it writes.
Fail ==
  /\ stage # "idle"
  /\ faults < MaxFaults
  /\ faults' = faults + 1
  /\ backup' \in {backup} \cup {f \in {Invalid} : stage = "backup" /\ file # Missing}
  /\ temp' \in {temp} \cup {f \in {Invalid} : stage = "temp"}
  /\ Quit
  /\ UNCHANGED <<file, edits, runs>>

\* The user or the agent writes the file.
Edit ==
  /\ edits < MaxEdits
  /\ RacingEdits \/ stage = "idle"
  /\ edits' = edits + 1
  /\ file' \in UserDocs \ {file}
  /\ raced' = CASE stage = "idle"               -> "no"
                [] stage = "backup"             -> "before"
                [] stage \in {"temp", "rename"} -> "after"
  /\ UNCHANGED <<temp, backup, stage, op, doc, runs, faults>>

Sgw == Backup \/ WriteTemp \/ Rename \/ Fail \/ StartRemove \/ \E c \in Ours : StartInstall(c)

SettingsNext == Sgw \/ Edit

SettingsSpec == SettingsInit /\ [][SettingsNext]_settingsVars

-----------------------------------------------------------------------------
(* What editing somebody else's file must keep to.                         *)

\* The user's part of a file: the rest and the hooks that are not ours.
Commands(f) == IF f \in {Missing, Invalid, Null} THEN <<>> ELSE S!FlattenSeq(SessionStart(f))
UserPart(f) ==
  IF f = Missing THEN [rest |-> NoRest, hooks |-> <<>>, odd |-> FALSE]
  ELSE [rest |-> f.rest, hooks |-> Others(Commands(f)), odd |-> f.start = Odd]

Racing == edits' # edits
Replaced == file' # file /\ ~Racing

\* Installing and removing leave every other part of the settings file
\* untouched, whenever they are interrupted, and do not write a file that
\* they could not read; only what others save while a command is running is
\* lost (hook.go:151-152, 221-223, 250-254).
UserPartSurvives ==
  [][Replaced =>
       /\ file' \notin {Invalid, Null}
       /\ raced = "no" => file \notin {Invalid, Null} /\ UserPart(file') = UserPart(file)]_settingsVars

\* Installing replaces whatever was installed before: after it there is
\* exactly one command of ours, the new one (hook.go:151-180).
InstalledOnce ==
  [][stage = "rename" /\ op.kind = "install" /\ Replaced =>
       Among(Commands(file'), Ours) = <<op.cmd>>]_settingsVars

NothingToRemove == stage = "idle" /\ stage' = "idle" /\ runs' # runs /\ file # Invalid

\* `hook remove` takes the hook out: when it says that there is none, or
\* reports success, no command of ours is left (hook.go:183-184).
RemoveTakesItOut ==
  [][NothingToRemove \/ (stage = "rename" /\ op.kind = "remove" /\ Replaced) =>
       Among(Commands(file'), Ours) = <<>>]_settingsVars

\* "One copy of the file as it was before the first edit" is kept (hook.go:
\* 228): a backup is not overwritten.  It is, by the next command.
BackupIsKept == [][backup # Missing => backup' = backup]_settingsVars
=============================================================================
