------------------------------- MODULE MCSync -------------------------------
(***************************************************************************)
(* Small instances of Sync.  Skill alpha has the output paths p1 and p2,   *)
(* but only p1 in content c3; skill beta has p2, so the two collide unless *)
(* alpha serves c3; the content bad reaches for p3.  The data at a path is *)
(* the content it comes from.                                              *)
(***************************************************************************)
EXTENDS Sync, TLC

CONSTANTS alpha, beta, c1, c2, c3, bad, p1, p2, p3, gw, tag, dir

MCRefs == {alpha, beta}
MCContents == {c1, c2, c3, bad}

PathsOf(r, c) == CASE c = bad           -> {p1, p3}
                   [] c # bad /\ r = beta -> {p2}
                   [] c = c3 /\ r = alpha -> {p1}
                   [] OTHER             -> {p1, p2}
MCOut == [r \in MCRefs |-> [c \in MCContents |->
  [p \in Paths |-> IF p \in PathsOf(r, c) THEN c ELSE None]]]

Pack(v, d, c) == [version |-> v, digest |-> d, content |-> c]
Release1 == Pack(1, c1, c1)
Release2 == Pack(2, c2, c2)
Shrunk == Pack(2, c3, c3)       \* alpha without p2
Rewritten == Pack(1, c2, c2)    \* version 1 again, with other content
Tampered == Pack(2, c2, bad)    \* files that do not match the digest

Named(x, rs) == [source |-> x, star |-> FALSE, skills |-> rs]
Everything(x) == [source |-> x, star |-> TRUE, skills |-> {}]

\* A gateway that rewrites and tampers, and a git tag that moves.
FaultySources == {gw, tag}
FaultyBundles == [x \in FaultySources |->
  IF x = gw THEN {Release1, Rewritten, Shrunk, Tampered} ELSE {Release1, Shrunk}]
FaultyOffers == [x \in FaultySources |-> [r \in MCRefs |->
  IF r = alpha THEN (IF x = gw THEN Release1 ELSE Shrunk)
           ELSE (IF x = gw THEN None ELSE Release1)]]
FaultyManifests == {Everything(gw), Named(tag, {alpha, beta})}

\* A folder: the version is always the same and the content moves.
FolderBundles == [x \in {dir} |-> {Pack(1, c, c) : c \in {c1, c2, c3}}]
FolderOffers == [x \in {dir} |-> [r \in MCRefs |-> Release1]]
FolderManifests == {Named(dir, {alpha}), Named(dir, {beta})}
OneFolderManifest == {Named(dir, {alpha})}

\* A gateway that overlapping runs read while it moves.
Escaping == Pack(2, bad, bad)   \* writes outside the project
Forged == Pack(2, c1, c2)       \* beta's files do not match, at a path of its own
PairBundles == [x \in {gw} |-> {Release1, Shrunk, Forged, Escaping}]
PairOffers == [x \in {gw} |-> [r \in MCRefs |-> IF r = alpha THEN Shrunk ELSE Release1]]
PairManifests == {Named(gw, {alpha, beta})}

\* Runs have no order, and the properties of the pair are invariants.
Interchangeable == Permutations(Syncs)
=============================================================================
