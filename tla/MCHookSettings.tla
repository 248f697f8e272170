--------------------------- MODULE MCHookSettings ---------------------------
(***************************************************************************)
(* Settings files with a hook of the user's, an empty entry, an older hook *)
(* of sgw and one that the user has moved into an entry of her own.        *)
(***************************************************************************)
EXTENDS HookSettings

CONSTANTS new, old, lint, plain, custom

With(entries) == [start |-> entries, rest |-> custom]
Plain == [start |-> <<>>, rest |-> plain]
MCRests == {plain, custom}

Known == {Missing, Invalid, Null, Plain, With(<<>>), With(<<<<lint>>, <<>>>>),
          With(<<<<old>>, <<lint>>>>), With(<<<<lint>>, <<lint, old>>>>),
          With(<<<<old, lint, old>>, <<new>>>>)}
OddToo == Known \cup {With(Odd)}
=============================================================================
