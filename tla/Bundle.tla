------------------------------- MODULE Bundle -------------------------------
(***************************************************************************)
(* Bundles (internal/bundle/bundle.go), SKILL.md (internal/skill/skill.go) *)
(* and the files an agent gets of them (internal/translate/translate.go).  *)
(* A name is the list of its segments between slashes, so "/a" is          *)
(* <<"", "a">>; a content stands for its bytes and so for its SHA-256, and *)
(* the digest of a bundle for its list of paths and hashes.                *)
(***************************************************************************)
EXTENDS Naturals, Sequences, FiniteSets, FiniteSetsExt

CONSTANTS
  Contents,      \* what a file may hold
  Size,          \* Size[c]: the length of content c
  Document,      \* Document[c]: what content c is as a SKILL.md
  SkillNames,    \* the names ValidName accepts
  Forbidden,     \* segments with a backslash, a colon or a NUL
  Hidden,        \* segments of a folder's paths that begin with a dot
  Limits,        \* Limits.files, .file and .total of DefaultLimits
  EntrySize,     \* what an entry takes in the archive beside its data
  Allowance,     \* what the archive may hold beyond Limits.total
  MaxDescription

ASSUME BundleAssumption ==
  /\ Size \in [Contents -> Nat]
  /\ DOMAIN Document = Contents
  /\ Limits \in [files : Nat, file : Nat, total : Nat]
  \* A tar header takes a block.
  /\ EntrySize \in Nat \ {0} /\ Allowance \in Nat /\ MaxDescription \in Nat
  \* "The allowance on top of MaxTotal covers tar headers".
  /\ EntrySize * Limits.files <= Allowance

S == INSTANCE SequencesExt

Unsafe == <<>>   \* no path at all

\* Mutant: ".." is left in.
CleanPathUpward(name) ==
  LET p == IF Len(name) > 1 /\ name[1] = "." THEN Tail(name) ELSE name
  IN IF \A i \in DOMAIN p : p[i] \notin {"", "."} \cup Forbidden THEN p ELSE Unsafe

\* The path a name stands for, if it stays inside the skill directory.
CleanPath(name) ==
  LET p == IF Len(name) > 1 /\ name[1] = "." THEN Tail(name) ELSE name
  IN IF \A i \in DOMAIN p : p[i] \notin {"", ".", ".."} \cup Forbidden
     THEN p ELSE Unsafe

\* A directory's name may end in a slash and may be the root.
DirIsSafe(name) ==
  LET d == IF Len(name) > 1 /\ name[Len(name)] = "" THEN S!Front(name) ELSE name
  IN d = <<".">> \/ CleanPath(d) # Unsafe

\* The entries of an archive; "broken" is where it cannot be read further.
EntryTypes == {"dir", "reg", "global", "other", "broken"}
Entries == [type: EntryTypes, name: Seq(STRING), data: Contents]

SkillFile == <<"SKILL.md">>
File(p, c) == [path |-> p, data |-> c]

\* The sum of sizes[x] over the elements x of a set.
SumOver(sizes, elements) == MapThenSumSet(LAMBDA x : sizes[x], elements)
Total(files) == SumOver([f \in files |-> Size[f.data]], files)

\* "Bound total decompressed bytes".
Bound == Limits.total + Allowance

\* The regular entries among the first n, and what those hold.
Regs(archive, n) == {i \in 1..n : archive[i].type = "reg"}
Sizes(archive) == [i \in DOMAIN archive |-> Size[archive[i].data]]
Held(archive, n) == EntrySize * n + SumOver(Sizes(archive), Regs(archive, n))

\* ManifestDigest sorts, so neither order nor the archive matter.
Digest(files) == {<<f.path, f.data>> : f \in files}
DataAt(files, p) == (CHOOSE f \in files : f.path = p).data

\* Write: regular files only, in the order of their paths.
Encode(files) ==
  LET sorted == S!SetToSeq(files)
  IN [i \in DOMAIN sorted |->
       [type |-> "reg", name |-> sorted[i].path, data |-> sorted[i].data]]

-----------------------------------------------------------------------------
(* A skill's folder: the entries [path, kind, data] of a walk, kind being  *)
(* "file" or "link"; directories are implied by the paths.                 *)

\* Hidden files are skipped, and all that is below a hidden directory.
Visible(folder) == {e \in folder : \A i \in DOMAIN e.path : e.path[i] \notin Hidden}

NoLinks(folder) == \A e \in Visible(folder) : e.kind = "file"

\* Mutant: hidden files are sent along.
PackedHidden(folder) == {File(e.path, e.data) : e \in folder}

\* readDir: what `sgw publish` sends of a folder without links.
Packed(folder) == {File(e.path, e.data) : e \in Visible(folder)}

\* readSkillDir: what a folder source takes, within the limits of a bundle.
ReadSkillDir(folder) ==
  LET files == {File(e.path, e.data) : e \in Visible(folder)}
      ok == /\ NoLinks(folder)
            /\ \A f \in files : CleanPath(f.path) # Unsafe /\ Size[f.data] <= Limits.file
            /\ Total(files) <= Limits.total /\ Cardinality(files) <= Limits.files
            /\ \E f \in files : f.path = SkillFile
  IN IF ok THEN files ELSE {}

-----------------------------------------------------------------------------
\* Parse: a front matter between two lines "---", whose YAML reads as it is
\* or with a description quoted, with a name and a description.
Parses(d) ==
  /\ d.opens /\ d.closes
  /\ d.yaml \in {"plain", "colon"}
  /\ d.name \in SkillNames
  /\ d.description \in 1..MaxDescription

\* A folder resolves to a skill of that name or to nothing.
Resolved(folder, name) ==
  LET files == ReadSkillDir(folder)
      doc   == Document[DataAt(files, SkillFile)]
  IN IF files # {} /\ Parses(doc) /\ doc.name = name THEN files ELSE {}

-----------------------------------------------------------------------------
\* The directory of each agent, and the one format that is a single file.
Roots == [claude  |-> <<".claude", "skills">>,   codex    |-> <<".agents", "skills">>,
          cursor  |-> <<".cursor", "skills">>,   copilot  |-> <<".github", "skills">>,
          gemini  |-> <<".gemini", "skills">>,   kiro     |-> <<".kiro", "skills">>,
          windsurf |-> <<".windsurf", "skills">>]
Formats == DOMAIN Roots \cup {"cursor-rules"}

Translate(format, name, files) ==
  IF format = "cursor-rules"
  THEN {File(<<".cursor", "rules", name \o ".mdc">>, DataAt(files, SkillFile))}
  ELSE {File(Roots[format] \o <<name>> \o f.path, f.data) : f \in files}

\* Names of skills and of the agents' directories are segments of a path.
ASSUME SegmentAssumption ==
  /\ \A n \in SkillNames : {n, n \o ".mdc"} \cap ({"", ".", ".."} \cup Forbidden) = {}
  /\ \A format \in DOMAIN Roots :
       \A i \in DOMAIN Roots[format] : Roots[format][i] \notin Forbidden
  /\ Forbidden \cap {".cursor", "rules"} = {}

-----------------------------------------------------------------------------
\* MCP's resources/directory/read: what stands right below a directory, a
\* subdirectory in place of a file of the same name (files come in order).
Below(dir, p) == Len(p) > Len(dir) /\ SubSeq(p, 1, Len(dir)) = dir
Children(files, dir) ==
  LET inside == {f.path : f \in {g \in files : Below(dir, g.path)}}
      names  == {p[Len(dir) + 1] : p \in inside}
  IN {[name |-> n, dir |-> \E p \in inside : p[Len(dir) + 1] = n /\ Len(p) > Len(dir) + 1] : n \in names}
=============================================================================
