------------------------------- MODULE MCParse -------------------------------
(***************************************************************************)
(* Every text of up to five pieces: single characters, each special to     *)
(* some rule, and two pieces that reach the longer runs of segments.       *)
(***************************************************************************)
EXTENDS Parse

Singles == {<<c>> : c \in {"a", ".", "*", "?", "{", "}", ",", "/", "\\", ":"}}
AllPieces == Singles \cup {<<"*", "*", "/">>, <<".", "/">>}
DriveLetters == [c \in {"a"} |-> "A"]
BothDialects == {"posix", "win"}
=============================================================================
