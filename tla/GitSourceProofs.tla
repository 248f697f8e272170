--------------------------- MODULE GitSourceProofs ---------------------------
(***************************************************************************)
(* What the git cache checks out is what the remote means, for every set   *)
(* of branches, tags, commits and refs and every history of pushes, as     *)
(* long as no name is both a branch and a tag; and one fingerprint stands  *)
(* for one checkout, as long as no name ends in another.                   *)
(***************************************************************************)
EXTENDS GitSource, TLAPS

\* No name is a branch at one time and a tag at another.
NamesApart == Branches \cap Tags = {}

\* No name ends in another one, as team/main ends in main.
NoTails == \A n \in Names : Tails[n] = {n}

-----------------------------------------------------------------------------
(* The invariant: once a run has checked something out, and until somebody *)
(* pushes, the cache has all that the remote has.                          *)

RemoteOK ==
  /\ heads \in [Branches -> Commits \cup {None}]
  /\ tags \in [Tags -> Tag]
  /\ default \in Branches

Cache == [heads : [Branches -> Commits \cup {None}], tags : [Tags -> Tag],
          head : Branches \cup {None}, commits : SUBSET Commits]

\* Only of a branch of the remote is there a default.
DefaultExists == heads[default] # None

Mirrors(c) ==
  /\ \A b \in Branches : heads[b] # None => c.heads[b] = heads[b]
  /\ \A t \in Tags : tags[t].commit # None => c.tags[t] = tags[t]

UpToDate ==
  result.commit # None =>
    /\ Mirrors(cache)
    /\ result = [commit |-> CheckedOut(cache, ref), pinned |-> Pinned(cache, ref)]

Inv ==
  /\ RemoteOK
  /\ cache \in Cache
  /\ DefaultExists
  /\ ref \in Refs
  /\ result \in [commit : Commits \cup {None}, pinned : BOOLEAN]
  /\ result = NoResult \/ result.commit # None
  /\ UpToDate

LEMMA InvInit == Init => Inv
<1> SUFFICES ASSUME Init PROVE Inv
  OBVIOUS
<1> USE GitAssumption
<1>1. PICK c \in Commits : heads = [b \in Branches |-> IF b = default THEN c ELSE None]
  BY DEF Init
<1>2. RemoteOK /\ DefaultExists
  BY <1>1 DEF Init, RemoteOK, DefaultExists, NoTag, Tag, None
<1>3. cache \in Cache
  BY DEF Init, Cache, NoClone, NoTag, Tag
<1>4. result = NoResult /\ result.commit = None /\ ref \in Refs
  BY DEF Init, NoResult
<1> QED
  BY <1>2, <1>3, <1>4 DEF Inv, UpToDate, NoResult

\* A fetch brings all that the remote has into the cache.
LEMMA FetchMirrors ==
  ASSUME RemoteOK, cache \in Cache
  PROVE  /\ Fetched(Opened) \in Cache
         /\ Fetched(Opened).head # None
         /\ Mirrors(Fetched(Opened))
<1> DEFINE o == Opened
           hs == [b \in Branches |-> IF heads[b] # None THEN heads[b] ELSE o.heads[b]]
           ts == [t \in Tags |-> IF tags[t].commit # None THEN tags[t] ELSE o.tags[t]]
           cs == o.commits \cup (Targets \ {None})
<1>1. o \in Cache /\ o.head # None
  BY GitAssumption DEF Opened, Cache, RemoteOK
<1>2. Targets \ {None} \subseteq Commits
  BY DEF Targets, RemoteOK, Tag
<1>3. hs \in [Branches -> Commits \cup {None}] /\ ts \in [Tags -> Tag]
  BY <1>1 DEF Cache, RemoteOK
<1>4. Fetched(o) = [heads |-> hs, tags |-> ts, head |-> o.head, commits |-> cs]
  <2>1. Fetched(o) = [o EXCEPT !.heads = hs, !.tags = ts, !.commits = cs]
    BY DEF Fetched
  <2> HIDE DEF o, hs, ts, cs
  <2> QED
    BY <1>1, <2>1 DEF Cache
<1>5. Fetched(o) \in Cache /\ Fetched(o).head # None
  BY <1>1, <1>2, <1>3, <1>4 DEF Cache
<1>6. Mirrors(Fetched(o))
  BY <1>4 DEF Mirrors
<1> QED
  BY <1>5, <1>6

LEMMA InvStep == Inv /\ [Next]_vars => Inv'
<1> SUFFICES ASSUME Inv, [Next]_vars PROVE Inv'
  OBVIOUS
<1> USE GitAssumption
\* Whatever happens to the remote, the result of the last run is gone.
<1>1. ASSUME Move, RemoteOK', DefaultExists', cache' \in Cache PROVE Inv'
  BY <1>1 DEF Move, Inv, UpToDate, NoResult
<1>2. CASE Update
  <2> DEFINE c == Fetched(Opened)
             commit == CheckedOut(c, ref)
  <2>1. c \in Cache /\ c.head # None /\ Mirrors(c)
    BY FetchMirrors DEF Inv
  <2>2. /\ cache' = c
        /\ result' = IF commit = None THEN NoResult
                     ELSE [commit |-> commit, pinned |-> Pinned(c, ref)]
        /\ UNCHANGED <<remote, ref>>
    BY <1>2 DEF Update
  <2>3. RemoteOK' /\ DefaultExists' /\ ref' \in Refs /\ cache' \in Cache
    BY <2>1, <2>2 DEF Inv, RemoteOK, DefaultExists, remote
  <2>4. ref \in Ref
    BY DEF Inv
  <2>5. commit \in Commits \cup {None}
    BY <2>1, <2>4 DEF CheckedOut, Cache, Ref, IsBranch, Tag, Names
  <2>6. Pinned(c, ref) \in BOOLEAN
    BY DEF Pinned
  <2>7. /\ result' \in [commit : Commits \cup {None}, pinned : BOOLEAN]
        /\ result' = NoResult \/ result'.commit # None
    BY <2>2, <2>5, <2>6 DEF NoResult
  <2>8. UpToDate'
    <3>1. Mirrors(cache)'
      BY <2>1, <2>2 DEF Mirrors, remote
    <3>2. CheckedOut(cache, ref)' = commit /\ Pinned(cache, ref)' = Pinned(c, ref)
      BY <2>2 DEF CheckedOut, Pinned, IsBranch
    <3> QED
      BY <2>2, <3>1, <3>2 DEF UpToDate, NoResult
  <2> QED
    BY <2>3, <2>7, <2>8 DEF Inv
<1>3. ASSUME NEW b \in Branches, NEW c \in Commits, Push(b, c) PROVE Inv'
  BY <1>1, <1>3 DEF Push, Inv, RemoteOK, DefaultExists, None
<1>4. ASSUME NEW b \in Branches, DeleteBranch(b) PROVE Inv'
  BY <1>1, <1>4 DEF DeleteBranch, Inv, RemoteOK, DefaultExists
<1>5. ASSUME NEW b \in Branches, ChangeDefault(b) PROVE Inv'
  BY <1>1, <1>5 DEF ChangeDefault, Inv, RemoteOK, DefaultExists
<1>6. ASSUME NEW t \in Tags, NEW c \in Commits, NEW a \in BOOLEAN, PutTag(t, c, a) PROVE Inv'
  BY <1>1, <1>6 DEF PutTag, Inv, RemoteOK, DefaultExists, Tag
<1>7. ASSUME NEW t \in Tags, DeleteTag(t) PROVE Inv'
  BY <1>1, <1>7 DEF DeleteTag, Inv, RemoteOK, DefaultExists, NoTag, Tag
<1>8. CASE ClearCache
  <2>1. NoClone \in Cache
    BY DEF Cache, NoClone, NoTag, Tag
  <2> QED
    BY <1>1, <1>8, <2>1 DEF ClearCache, Inv, RemoteOK, DefaultExists, remote
<1>9. CASE UNCHANGED vars
  BY <1>9 DEF vars, remote, Inv, RemoteOK, DefaultExists, UpToDate, Mirrors, CheckedOut, Pinned, IsBranch
<1> QED
  BY <1>2, <1>3, <1>4, <1>5, <1>6, <1>7, <1>8, <1>9 DEF Next

LEMMA Invariance == Spec => []Inv
BY InvInit, InvStep, PTL DEF Spec

-----------------------------------------------------------------------------
\* What is checked out is what the remote means by the ref now, whatever was
\* pushed, moved, deleted or cleared before (git.go:75-99).
THEOREM CheckoutFollows ==
  ASSUME NamesApart
  PROVE  Spec => []FollowsTheRef
<1>1. Inv => FollowsTheRef
  <2> SUFFICES ASSUME Inv, result.commit # None, Meaning(ref) # None, Current(cache, ref)
               PROVE  result.commit = Meaning(ref)
    BY DEF FollowsTheRef
  <2>1. ref \in Ref /\ RemoteOK /\ Mirrors(cache) /\ result.commit = CheckedOut(cache, ref)
    BY GitAssumption DEF Inv, UpToDate
  <2>2. CASE ref.kind = "default"
    BY <2>1, <2>2 DEF Meaning, Current, Mirrors, CheckedOut, RemoteOK
  <2>3. CASE ref.kind = "name" /\ ref.of \in Branches
    BY <2>1, <2>3, NamesApart DEF Meaning, Mirrors, CheckedOut, IsBranch, NamesApart
  <2>4. CASE ref.kind = "name" /\ ref.of \in Tags
    BY <2>1, <2>4, NamesApart DEF Meaning, Mirrors, CheckedOut, IsBranch, NamesApart
  <2>5. CASE ref.kind \in {"commit", "short"}
    BY <2>1, <2>5 DEF Meaning, CheckedOut
  <2> QED
    BY <2>1, <2>2, <2>3, <2>4, <2>5 DEF Ref, Names
<1> QED
  BY <1>1, Invariance, PTL

\* What is pinned, so that the sync refuses any change of it, is no branch of
\* the remote, and this whatever the names are (git.go:113-115).
THEOREM NoBranchIsPinned == Spec => []BranchesAreNotPinned
<1>1. Inv => BranchesAreNotPinned
  <2> SUFFICES ASSUME Inv, result.pinned
               PROVE  \/ ref.kind \in {"commit", "short"}
                      \/ ref.kind = "name" /\ (ref.of \in Branches => heads[ref.of] = None)
    BY DEF BranchesAreNotPinned
  <2>1. result.commit # None
    BY DEF Inv, NoResult
  <2>2. ref \in Ref /\ Mirrors(cache)
    BY <2>1, GitAssumption DEF Inv, UpToDate
  <2>3. result = [commit |-> CheckedOut(cache, ref), pinned |-> Pinned(cache, ref)]
    BY <2>1 DEF Inv, UpToDate
  <2>4. Pinned(cache, ref)
    BY <2>3, Zenon
  <2> QED
    BY <2>2, <2>4 DEF Pinned, IsBranch, Mirrors, Ref
<1> QED
  BY <1>1, Invariance, PTL

-----------------------------------------------------------------------------
\* With names apart, the fingerprint is the very commit that is checked out.
PeekIsCommit == \A x \in seen : x.current => x.peek = x.commit

LEMMA PeekMeans ==
  ASSUME NamesApart, NoTails, RemoteOK, ref \in Ref, NEW c \in Cache, Mirrors(c),
         Peek(ref) # None, CheckedOut(c, ref) # None, Current(c, ref)
  PROVE  Peek(ref) = CheckedOut(c, ref)
<1>1. CASE ref.kind = "default"
  BY <1>1 DEF Peek, Mirrors, CheckedOut, Current, RemoteOK
<1>2. CASE ref.kind \in {"commit", "short"}
  BY <1>2 DEF Peek, CheckedOut
<1>3. CASE ref.kind = "name"
  <2> DEFINE n == ref.of
  <2>1. n \in Names /\ n \in Nat /\ Tails[n] = {n}
    BY <1>3, GitAssumption, NoTails DEF Ref, Names, NoTails, None
  <2>2. Min({n}) = n /\ Max({n}) = n
    BY <2>1 DEF Min, Max
  <2>3. CASE n \in Branches
    <3>1. n \notin Tags /\ FoundTags(n) = {} /\ Peeled(n) = None
      BY <2>1, <2>3, NamesApart DEF NamesApart, FoundTags, Peeled
    <3>2. FoundBranches(n) = IF heads[n] # None THEN {n} ELSE {}
      BY <2>1, <2>3 DEF FoundBranches
    <3>3. Peek(ref) = heads[n] /\ heads[n] # None
      BY <1>3, <2>2, <3>1, <3>2 DEF Peek, First
    <3> QED
      BY <1>3, <2>3, <3>3 DEF Mirrors, CheckedOut, IsBranch
  <2>4. CASE n \in Tags
    <3>1. n \notin Branches /\ FoundBranches(n) = {}
      BY <2>1, <2>4, NamesApart DEF NamesApart, FoundBranches
    <3>2. FoundTags(n) = IF tags[n].commit # None THEN {n} ELSE {}
      BY <2>1, <2>4 DEF FoundTags
    <3>3. Peeled(n) = IF tags[n].commit # None /\ tags[n].annotated THEN tags[n].commit ELSE None
      <4> DEFINE annotated == {t \in FoundTags(n) : tags[t].annotated}
      <4>1. annotated = IF tags[n].commit # None /\ tags[n].annotated THEN {n} ELSE {}
        BY <3>2
      <4>2. Peeled(n) = IF annotated = {} THEN None ELSE tags[Max(annotated)].commit
        BY DEF Peeled
      <4> HIDE DEF annotated
      <4> QED
        BY <2>2, <4>1, <4>2
    <3>4. Peek(ref) = tags[n].commit /\ tags[n].commit # None
      BY <1>3, <2>2, <3>1, <3>2, <3>3 DEF Peek, First
    <3> QED
      BY <1>3, <2>4, <3>1, <3>4 DEF Mirrors, CheckedOut, IsBranch
  <2> QED
    BY <2>1, <2>3, <2>4 DEF Names
<1> QED
  BY <1>1, <1>2, <1>3 DEF Ref

LEMMA PeekStep ==
  ASSUME NamesApart, NoTails
  PROVE  Inv /\ PeekIsCommit /\ [Next]_vars => PeekIsCommit'
<1> SUFFICES ASSUME Inv, PeekIsCommit, [Next]_vars PROVE PeekIsCommit'
  OBVIOUS
<1>1. CASE Update
  <2> DEFINE c == Fetched(Opened)
  <2>1. c \in Cache /\ Mirrors(c)
    BY FetchMirrors DEF Inv
  <2>2. \/ seen' = seen
        \/ /\ CheckedOut(c, ref) # None /\ Peek(ref) # None
           /\ seen' = seen \cup {[peek |-> Peek(ref), commit |-> CheckedOut(c, ref),
                                  current |-> Current(c, ref)]}
    BY <1>1 DEF Update
  <2>3. RemoteOK /\ ref \in Ref
    BY GitAssumption DEF Inv
  <2> HIDE DEF c
  <2>4. CheckedOut(c, ref) # None /\ Peek(ref) # None /\ Current(c, ref)
          => Peek(ref) = CheckedOut(c, ref)
    BY <2>1, <2>3, NamesApart, NoTails, PeekMeans
  <2> QED
    BY <2>2, <2>4 DEF PeekIsCommit
<1>2. CASE Move \/ UNCHANGED vars
  BY <1>2 DEF Move, vars, PeekIsCommit
<1> QED
  BY <1>1, <1>2 DEF Next, Push, DeleteBranch, PutTag, DeleteTag, ChangeDefault, ClearCache

\* One fingerprint stands for one checkout, so a hook that finds it unchanged
\* has nothing to do (peek.go:14-15).
THEOREM FingerprintIsCheckout ==
  ASSUME NamesApart, NoTails
  PROVE  Spec => []SameFingerprintSameCheckout
<1>1. Init => PeekIsCommit
  BY DEF Init, PeekIsCommit
<1>2. Inv /\ PeekIsCommit /\ [Next]_vars => PeekIsCommit'
  BY NamesApart, NoTails, PeekStep
<1>3. PeekIsCommit => SameFingerprintSameCheckout
  BY DEF PeekIsCommit, SameFingerprintSameCheckout
<1> QED
  BY <1>1, <1>2, <1>3, Invariance, PTL DEF Spec
=============================================================================
