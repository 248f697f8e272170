---------------------------- MODULE VersionOrder ----------------------------
(***************************************************************************)
(* The order of versions that `latest` means (internal/registry): versions *)
(* are ranked by semver, and stable releases come before pre-releases.     *)
(***************************************************************************)
EXTENDS Naturals, FiniteSets

CONSTANTS
  Versions,    \* ranks of the versions, from 1
  Stable       \* the versions that are no pre-releases

ASSUME VersionAssumption == Versions \subseteq Nat /\ IsFiniteSet(Versions)

\* Stable releases come before pre-releases, higher versions before lower.
Better(v, w) == IF v \in Stable <=> w \in Stable THEN v > w ELSE v \in Stable

IsBest(v, vs) == \A w \in vs \ {v} : Better(v, w)

Best(vs) == CHOOSE v \in vs : IsBest(v, vs)
=============================================================================
