----------------------------- MODULE MCHookRun ------------------------------
(***************************************************************************)
(* One or two installs, followed by one or two sessions.                   *)
(***************************************************************************)
EXTENDS HookRun

CONSTANTS s1, s2, k1, k2, main, tag

\* Two projects follow two refs of one repository, or two folders.
TwoRefs == [k \in {k1, k2} |-> IF k = k1 THEN main ELSE tag]
OneRef == [k \in {k1} |-> main]
\* One session for both projects, a session for each, two for the same one.
Alternating == [s \in {s1} |-> {k1, k2}]
Separate == [s \in {s1, s2} |-> IF s = s1 THEN {k1} ELSE {k2}]
Single == [s \in {s1} |-> {k1}]
Overlapping == [s \in {s1, s2} |-> {k1}]
=============================================================================
