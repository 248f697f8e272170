---------------------------- MODULE MCGitSource -----------------------------
(***************************************************************************)
(* A main branch, another one, and a tag; or a branch team/main, which     *)
(* ends in main; or a name that is a branch first and a tag later.         *)
(***************************************************************************)
EXTENDS GitSource

Main == 2
Apart == [n \in Names |-> {n}]
TeamMain == [n \in Names |-> IF n = Main THEN {1, Main} ELSE {n}]

Default == [kind |-> "default", of |-> None]
Named(n) == [kind |-> "name", of |-> n]
AllRefs == {Default, [kind |-> "commit", of |-> 2], [kind |-> "short", of |-> 2]}
           \cup {Named(n) : n \in Names}
MainRef == {Named(Main)}
TagRef == {Named(3)}
=============================================================================
