------------------------------ MODULE GitSource ------------------------------
(***************************************************************************)
(* A git repository as a source (internal/source/git.go, peek.go): what    *)
(* NewGit checks out in the user's cache against what PeekGit says of the  *)
(* remote.  Update is a hook run in which the remote stands still; HookRun *)
(* lets it move between the two and treats a fingerprint as the content.   *)
(*                                                                         *)
(* Names of branches and tags are their ranks in the order of ls-remote.   *)
(* A fetch keeps what the remote has deleted.                              *)
(***************************************************************************)
EXTENDS Naturals, FiniteSetsExt

CONSTANTS
  Branches, Tags,   \* names of branches and of tags
  Commits,
  Tails,            \* the names that end in a name, as team/main ends in main
  Refs,             \* the refs that manifests name
  MaxMoves          \* bound on what happens to the remote and to the cache

None == 0
Names == Branches \cup Tags

\* A ref is left out, a name, a commit, or a commit that is abbreviated.
Ref == [kind : {"default"}, of : {None}] \cup [kind : {"name"}, of : Names]
       \cup [kind : {"commit", "short"}, of : Commits]

ASSUME GitAssumption ==
  /\ Branches \subseteq Nat \ {None} /\ Branches # {}
  /\ Tags \subseteq Nat \ {None}
  /\ Commits \subseteq Nat \ {None} /\ Commits # {}
  /\ Tails \in [Names -> SUBSET Names]
  /\ \A n \in Names : n \in Tails[n]
  /\ Refs \subseteq Ref
  /\ MaxMoves \in Nat

VARIABLES
  heads, tags, default,   \* the remote
  cache,    \* the clone: remote-tracking branches, tags, origin/HEAD, commits
  ref,      \* the ref of the manifest
  result,   \* what the run since the remote's last move checked out
  seen,     \* history: fingerprints with what was checked out
  moves

remote == <<heads, tags, default>>
vars == <<remote, cache, ref, result, seen, moves>>

Tag == [commit : Commits \cup {None}, annotated : BOOLEAN]
NoTag == [commit |-> None, annotated |-> FALSE]
NoClone == [heads |-> [b \in Branches |-> None], tags |-> [t \in Tags |-> NoTag],
            head |-> None, commits |-> {}]
NoResult == [commit |-> None, pinned |-> FALSE]

TypeOK ==
  /\ heads \in [Branches -> Commits \cup {None}] /\ tags \in [Tags -> Tag]
  /\ default \in Branches
  /\ cache.heads \in [Branches -> Commits \cup {None}] /\ cache.tags \in [Tags -> Tag]
  /\ cache.head \in Branches \cup {None} /\ cache.commits \subseteq Commits
  /\ ref \in Refs
  /\ result \in [commit : Commits \cup {None}, pinned : BOOLEAN]
  /\ seen \subseteq [peek : Commits, commit : Commits, current : BOOLEAN]
  /\ moves \in 0..MaxMoves

\* A repository has a commit on its default branch.
Init ==
  /\ default \in Branches
  /\ \E c \in Commits : heads = [b \in Branches |-> IF b = default THEN c ELSE None]
  /\ tags = [t \in Tags |-> NoTag]
  /\ cache = NoClone
  /\ ref \in Refs
  /\ result = NoResult /\ seen = {} /\ moves = 0

-----------------------------------------------------------------------------
(* PeekGit: ls-remote lists every branch and tag whose name ends in the ref. *)

FoundBranches(n) == {b \in Branches \cap Tails[n] : heads[b] # None}
FoundTags(n) == {t \in Tags \cap Tails[n] : tags[t].commit # None}

\* Branches come before tags.
First(n) ==
  IF FoundBranches(n) # {} THEN heads[Min(FoundBranches(n))]
  ELSE IF FoundTags(n) # {} THEN tags[Min(FoundTags(n))].commit
  ELSE None

\* The commit of the last annotated tag goes before all else.
Peeled(n) ==
  LET annotated == {t \in FoundTags(n) : tags[t].annotated}
  IN IF annotated = {} THEN None ELSE tags[Max(annotated)].commit

\* Mutant: the ref is not passed on.
PeekDefault(r) == heads[default]

\* A full commit stands for itself; an abbreviated one is not found.
Peek(r) ==
  CASE r.kind = "default" -> heads[default]
    [] r.kind = "name" -> IF Peeled(r.of) # None THEN Peeled(r.of) ELSE First(r.of)
    [] r.kind = "commit" -> r.of
    [] r.kind = "short" -> None

-----------------------------------------------------------------------------
(* NewGit. *)

\* A clone notes the default branch as origin/HEAD; a fetch leaves it.
Opened == IF cache.head = None THEN [cache EXCEPT !.head = default] ELSE cache

Targets == {heads[b] : b \in Branches} \cup {tags[t].commit : t \in Tags}

\* Mutant: branches that the cache has are not updated.
FetchedOnce(c) ==
  [c EXCEPT
    !.heads = [b \in Branches |-> IF @[b] = None THEN heads[b] ELSE @[b]],
    !.tags = [t \in Tags |-> IF tags[t].commit # None THEN tags[t] ELSE @[t]],
    !.commits = @ \cup (Targets \ {None})]

\* git fetch --tags --force.
Fetched(c) ==
  [c EXCEPT
    !.heads = [b \in Branches |-> IF heads[b] # None THEN heads[b] ELSE @[b]],
    !.tags = [t \in Tags |-> IF tags[t].commit # None THEN tags[t] ELSE @[t]],
    !.commits = @ \cup (Targets \ {None})]

IsBranch(c, n) == n \in Branches /\ c.heads[n] # None

\* None when there is nothing to check out.
CheckedOut(c, r) ==
  CASE r.kind = "default" -> c.heads[c.head]
    [] r.kind = "name" /\ IsBranch(c, r.of) -> c.heads[r.of]
    [] r.kind = "name" /\ ~IsBranch(c, r.of) ->
         IF r.of \in Tags THEN c.tags[r.of].commit ELSE None
    [] r.kind \in {"commit", "short"} -> IF r.of \in c.commits THEN r.of ELSE None

\* Mutant: whoever names a ref has it pinned.
PinnedByName(c, r) == r.kind # "default"

Pinned(c, r) == r.kind # "default" /\ ~(r.kind = "name" /\ IsBranch(c, r.of))

\* origin/HEAD still names the default branch, when that is asked for.
Current(c, r) == r.kind = "default" => c.head = default

Update ==
  LET c == Fetched(Opened)
      commit == CheckedOut(c, ref)
      peek == Peek(ref)
  IN
  /\ cache' = c
  /\ result' = IF commit = None THEN NoResult
               ELSE [commit |-> commit, pinned |-> Pinned(c, ref)]
  /\ seen' = IF commit = None \/ peek = None THEN seen ELSE
              seen \cup {[peek |-> peek, commit |-> commit, current |-> Current(c, ref)]}
  /\ UNCHANGED <<remote, ref, moves>>

-----------------------------------------------------------------------------
(* Those who push to the remote, and whoever clears the cache. *)

Move ==
  /\ moves < MaxMoves
  /\ moves' = moves + 1
  /\ result' = NoResult
  /\ UNCHANGED <<ref, seen>>

Push(b, c) ==
  /\ Move
  /\ heads' = [heads EXCEPT ![b] = c]
  /\ UNCHANGED <<tags, default, cache>>

DeleteBranch(b) ==
  /\ b # default
  /\ Move
  /\ heads' = [heads EXCEPT ![b] = None]
  /\ UNCHANGED <<tags, default, cache>>

PutTag(t, c, annotated) ==
  /\ Move
  /\ tags' = [tags EXCEPT ![t] = [commit |-> c, annotated |-> annotated]]
  /\ UNCHANGED <<heads, default, cache>>

DeleteTag(t) ==
  /\ Move
  /\ tags' = [tags EXCEPT ![t] = NoTag]
  /\ UNCHANGED <<heads, default, cache>>

ChangeDefault(b) ==
  /\ heads[b] # None
  /\ Move
  /\ default' = b
  /\ UNCHANGED <<heads, tags, cache>>

ClearCache ==
  /\ Move
  /\ cache' = NoClone
  /\ UNCHANGED remote

Next ==
  \/ Update
  \/ ClearCache
  \/ \E b \in Branches : DeleteBranch(b) \/ ChangeDefault(b) \/ \E c \in Commits : Push(b, c)
  \/ \E t \in Tags : DeleteTag(t) \/ \E c \in Commits, a \in BOOLEAN : PutTag(t, c, a)

Spec == Init /\ [][Next]_vars

-----------------------------------------------------------------------------
\* What the remote means by a ref: a branch goes before a tag.
Meaning(r) ==
  CASE r.kind = "default" -> heads[default]
    [] r.kind = "name" ->
         IF r.of \in Branches /\ heads[r.of] # None THEN heads[r.of]
         ELSE IF r.of \in Tags THEN tags[r.of].commit ELSE None
    [] r.kind \in {"commit", "short"} -> r.of

\* What is checked out is what the remote means by the ref now, whatever the
\* cache has from before; a ref that the remote has deleted stays as it was,
\* and the default branch is the one that was cloned (git.go:75-99).
FollowsTheRef ==
  result.commit # None /\ Meaning(ref) # None /\ Current(cache, ref) =>
    result.commit = Meaning(ref)

\* The same whatever the default branch was: "branch, tag or commit; defaults
\* to the remote's HEAD" (git.go:20).
DefaultIsTheRemotesHead ==
  result.commit # None /\ ref.kind = "default" => result.commit = heads[default]

\* "A caller that holds the same fingerprint from last time knows there is no
\* work to do" (peek.go:14-15): a fingerprint stands for one checkout.
SameFingerprintSameCheckout ==
  \A x, y \in seen :
    x.peek = y.peek /\ x.current /\ y.current => x.commit = y.commit

\* What the sync may insist on is no branch of the remote: a branch
\* legitimately moves (git.go:113-115).
BranchesAreNotPinned ==
  result.pinned =>
    \/ ref.kind \in {"commit", "short"}
    \/ ref.kind = "name" /\ (ref.of \in Branches => heads[ref.of] = None)
=============================================================================
