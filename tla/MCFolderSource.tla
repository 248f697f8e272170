--------------------------- MODULE MCFolderSource ---------------------------
(***************************************************************************)
(* Two skills, alpha with a hidden file, a SKILL.md and another file, and  *)
(* beta with a SKILL.md.                                                   *)
(***************************************************************************)
EXTENDS FolderSource

MCSkill == [p \in Paths |-> IF p < 4 THEN "alpha" ELSE "beta"]
=============================================================================
