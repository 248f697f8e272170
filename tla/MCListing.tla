----------------------------- MODULE MCListing ------------------------------
(***************************************************************************)
(* Three skills on pages of one entry.  Version 2 is a later pre-release   *)
(* of version 1; the policy hides version 1 of skill 2, and skill 3 has    *)
(* the one version.                                                        *)
(***************************************************************************)
EXTENDS Listing

MCKeys == {<<1, 1>>, <<1, 2>>, <<2, 1>>, <<2, 2>>, <<3, 1>>}
MCMay == Keys \ {<<2, 1>>}
\* The text searched for is in the names of skills 1 and 3.
NamesMatch == {k \in Keys : k[1] # 2}
\* The text searched for is in the description of pre-releases only.
PreReleasesMatch == {k \in Keys : k[2] = 2}
=============================================================================
