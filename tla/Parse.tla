-------------------------------- MODULE Parse --------------------------------
(***************************************************************************)
(* A pattern that is written piece by piece, so that every short text is   *)
(* met, and what the parser must make of it.                               *)
(***************************************************************************)
EXTENDS Syntax, SequencesExt

CONSTANTS
    Letters,   \* as the parser has them
    Pieces,    \* what a text is put together from, sequences of characters
    Dialects,  \* the dialects parsed in
    MaxPieces  \* bound on the pieces of a text

VARIABLES dialect, text, pieces

INSTANCE Parser

vars == <<dialect, text, pieces>>

-----------------------------------------------------------------------------
(* Writing a pattern *)

Init == dialect \in Dialects /\ text = <<>> /\ pieces = 0

Write(piece) ==
    /\ pieces < MaxPieces
    /\ text' = text \o piece
    /\ pieces' = pieces + 1
    /\ UNCHANGED dialect

Next == \E piece \in Pieces : Write(piece)

Spec == Init /\ [][Next]_vars

-----------------------------------------------------------------------------
(* Properties *)

\* No two tokens or segments that mean one: the matcher backtracks over every split of a run of
\* stars, so a run that slips through multiplies its work (D-24).
InNormalForm(segments) ==
    /\ \A i \in 1..(Len(segments) - 1) :
         ~(segments[i] = DoubleStar /\ segments[i + 1] = DoubleStar)
    /\ \A i \in DOMAIN segments : segments[i] # DoubleStar =>
         LET tokens == segments[i].tokens IN
         /\ tokens \notin {<<>>, <<Dot>>, <<Dot, Dot>>}
         /\ ~HasStarPair(tokens)
         /\ \A t \in {tokens[k] : k \in DOMAIN tokens} :
              t.token = "alt" => \A a \in DOMAIN t.arms : ~HasStarPair(t.arms[a])

\* What the parser accepts is in normal form, `.` segments between two `**` included.
AcceptsNormalForms == Parsed(text).ok => InNormalForm(Parsed(text).segments)

\* Position i holds a separator that no escape covers.
SepAt(i) == IsSep(text[i]) /\ (dialect = "posix" =>
    LET run == CHOOSE n \in 0..(i - 1) : /\ \A k \in (i - n)..(i - 1) : text[k] = "\\"
                                         /\ n < i - 1 => text[i - n - 1] # "\\"
    IN run % 2 = 0)

Inner == {i \in (DetectAnchor(text).width + 1)..Len(text) : SepAt(i)}

\* Reading a pattern is reading the parts between its separators: no escape, brace or `.` reaches
\* across one (D-25, D-44 "intra-segment only").
SegmentsAreIndependent ==
    DetectAnchor(text).anchor = "relative" =>
        \A i \in Inner :
            LET left == Parsed(UpTo(text, i - 1))
                right == SegmentsOf(From(text, i))
                refused == ~left.ok \/ \E k \in DOMAIN right : IsBad(right[k])
            IN Parsed(text) = IF refused THEN Refused
                              ELSE [left EXCEPT !.segments = Collapse(left.segments \o right)]

OtherSep(c) == IF c = "/" THEN "\\" ELSE IF c = "\\" THEN "/" ELSE c

\* In `win` the two separators say the same, in an anchor too (D-22).
SeparatorsAgree ==
    dialect = "win" => Parsed([i \in DOMAIN text |-> OtherSep(text[i])]) = Parsed(text)

\* Take the text as a name and escape it as the dialect says.
EscapeChar(c) ==
    IF dialect = "posix" THEN <<"\\", c>> ELSE IF c \in {"{", "}"} THEN <<c, c>> ELSE <<c>>
Escaped == FlattenSeq([i \in DOMAIN text |-> EscapeChar(text[i])])

\* Windows names hold no metacharacter but braces; `.` and `..` name no entry; a letter and a
\* colon would name a drive.
IsName ==
    /\ text \notin {<<>>, <<".">>, <<".", ".">>}
    /\ dialect = "win" => \A i \in DOMAIN text : text[i] \notin {"*", "?", "/", "\\", ":"}

\* Every name can be asked for: escaped, it parses to one segment that is this name, letter by
\* letter (D-45 "`\` escapes anything", braces double).
EveryNameCanBeWritten ==
    IsName => Parsed(Escaped) =
                  [ok |-> TRUE, anchor |-> "relative", drive |-> "none",
                   segments |-> <<One([i \in DOMAIN text |-> Literal(text[i])])>>]
=============================================================================
