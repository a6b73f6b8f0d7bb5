------------------------------- MODULE Parser -------------------------------
(***************************************************************************)
(* The pattern parser of both dialects                                     *)
(* (src/crates/globazog/src/syntax/parse.rs), as operators from a sequence *)
(* of characters to an anchor and segments.                                *)
(*                                                                         *)
(* An error is a Bad token: which of several errors is reported is left    *)
(* out, that parsing fails is not. The alphabet of either dialect is all   *)
(* of UTF-8 (dialect.rs:49-52), so no text is refused for its alphabet.    *)
(***************************************************************************)
EXTENDS Syntax, SequencesExt

CONSTANTS
    Letters,    \* a function: the characters that may name a drive, and their uppercase
    dialect     \* "posix" or "win"

Bad == [token |-> "error"]

StartsWith(s, c) == s # <<>> /\ s[1] = c

-----------------------------------------------------------------------------
(* Separators and anchors *)

\* Mutant: one separator for all.
SlashIsSep(c) == c = "/"

IsSep(c) == c = "/" \/ (dialect = "win" /\ c = "\\")

\* How many separators s begins with.
SepRun(s) == CHOOSE n \in 0..Len(s) : /\ \A i \in 1..n : IsSep(s[i])
                                      /\ n < Len(s) => ~IsSep(s[n + 1])

HasDrive(s) == Len(s) >= 2 /\ s[1] \in DOMAIN Letters /\ s[2] = ":"

\* The anchor of s and the number of characters it takes; "error" for `C:foo` (D-33).
DetectAnchor(s) ==
    LET seps == SepRun(s) IN
    CASE dialect = "posix" ->
             [anchor |-> IF seps > 0 THEN "root" ELSE "relative", width |-> seps]
      [] dialect = "win" /\ seps > 0 ->
             [anchor |-> IF seps = 1 THEN "root" ELSE "unc", width |-> seps]
      [] dialect = "win" /\ seps = 0 /\ HasDrive(s) ->
             [anchor |-> IF Len(s) = 2 \/ IsSep(s[3]) THEN "drive" ELSE "error",
              width |-> 2 + SepRun(From(s, 2))]
      [] OTHER -> [anchor |-> "relative", width |-> 0]

-----------------------------------------------------------------------------
(* Segments *)

Escapes(s) == dialect = "posix" /\ StartsWith(s, "\\")

RECURSIVE RawFrom(_, _)

\* Mutant: an escaped separator splits.
RawIgnoringEscapes(s, cur) ==
    IF s = <<>> THEN <<cur>>
    ELSE IF IsSep(s[1]) THEN <<cur>> \o RawFrom(From(s, SepRun(s)), <<>>)
    ELSE RawFrom(Tail(s), Append(cur, s[1]))

\* Mutant: one separator is skipped, and the next begins an empty segment that ends the text.
RawStoppingAtRun(s, cur) ==
    IF s = <<>> THEN <<cur>>
    ELSE IF Escapes(s) /\ Len(s) > 1 THEN RawFrom(From(s, 2), cur \o UpTo(s, 2))
    ELSE IF IsSep(s[1])
    THEN <<cur>> \o (IF SepRun(s) > 1 THEN <<>> ELSE RawFrom(Tail(s), <<>>))
    ELSE RawFrom(Tail(s), Append(cur, s[1]))

\* Split at unescaped separators, a run of them at once; cur is the segment being read. A
\* dangling escape stays in its segment for Tokenize to refuse.
RawFrom(s, cur) ==
    IF s = <<>> THEN <<cur>>
    ELSE IF Escapes(s) /\ Len(s) > 1 THEN RawFrom(From(s, 2), cur \o UpTo(s, 2))
    ELSE IF IsSep(s[1]) THEN <<cur>> \o RawFrom(From(s, SepRun(s)), <<>>)
    ELSE RawFrom(Tail(s), Append(cur, s[1]))

RECURSIVE ParseBrace(_, _, _)

\* The alternation whose body s goes on with, and what follows it.
ParseBrace(s, arms, cur) ==
    IF s = <<>> \/ s[1] = "{" THEN [alt |-> Bad, rest |-> <<>>]
    ELSE IF Escapes(s)
    THEN IF Len(s) = 1 THEN [alt |-> Bad, rest |-> <<>>]
         ELSE ParseBrace(From(s, 2), arms, Append(cur, Literal(s[2])))
    ELSE CASE s[1] = "}" -> [alt |-> Alt(Append(arms, cur)), rest |-> Tail(s)]
           [] s[1] = "," -> ParseBrace(Tail(s), Append(arms, cur), <<>>)
           [] s[1] = "*" -> IF cur # <<>> /\ Last(cur) = Star
                            THEN [alt |-> Bad, rest |-> <<>>]
                            ELSE ParseBrace(Tail(s), arms, Append(cur, Star))
           [] s[1] = "?" -> ParseBrace(Tail(s), arms, Append(cur, AnyChar))
           [] OTHER -> ParseBrace(Tail(s), arms, Append(cur, Literal(s[1])))

\* `{{` and `}}` are literal braces in `win`, outside an alternation (D-45).
IsDoubled(s) == dialect = "win" /\ Len(s) >= 2 /\ s[1] \in {"{", "}"} /\ s[2] = s[1]

RECURSIVE Tokenize(_)
Tokenize(s) ==
    IF s = <<>> THEN <<>>
    ELSE IF Escapes(s)
    THEN IF Len(s) = 1 THEN <<Bad>> ELSE <<Literal(s[2])>> \o Tokenize(From(s, 2))
    ELSE IF IsDoubled(s) THEN <<Literal(s[1])>> \o Tokenize(From(s, 2))
    ELSE CASE s[1] = "*" -> <<Star>> \o Tokenize(Tail(s))
           [] s[1] = "?" -> <<AnyChar>> \o Tokenize(Tail(s))
           [] s[1] = "{" -> LET brace == ParseBrace(Tail(s), <<>>, <<>>)
                            IN <<brace.alt>> \o Tokenize(brace.rest)
           [] s[1] = "}" -> <<Bad>>
           [] OTHER -> <<Literal(s[1])>> \o Tokenize(Tail(s))

HasStarPair(tokens) == \E i \in 1..(Len(tokens) - 1) : tokens[i] = Star /\ tokens[i + 1] = Star

Dot == Literal(".")

\* What one raw segment adds: nothing for `.` and the empty one, an error for `..` and `x**`.
Classify(raw) ==
    LET tokens == Tokenize(raw) IN
    CASE tokens \in {<<>>, <<Dot>>} -> <<>>
      [] tokens = <<Star, Star>> -> <<DoubleStar>>
      [] OTHER -> IF HasStarPair(tokens) \/ tokens = <<Dot, Dot>> THEN <<One(<<Bad>>)>>
                                                                  ELSE <<One(tokens)>>

\* A run of `**` is one (D-24).
Collapse(segments) ==
    LET kept == SelectSeq([i \in DOMAIN segments |-> [at |-> i, segment |-> segments[i]]],
                          LAMBDA s : ~(/\ s.at > 1 /\ s.segment = DoubleStar
                                       /\ segments[s.at - 1] = DoubleStar))
    IN [i \in DOMAIN kept |-> kept[i].segment]

IsBad(segment) ==
    segment.segment = "match" /\ \E i \in DOMAIN segment.tokens : segment.tokens[i] = Bad

\* Mutant: a run of `**` is noticed in the text, where a `.` can hide it.
CollapsedInText(s) ==
    LET raw == RawFrom(s, <<>>)
        kept == {i \in DOMAIN raw : ~(i > 1 /\ raw[i] = <<"*", "*">> /\ raw[i - 1] = raw[i])}
    IN FlattenSeq([i \in DOMAIN raw |-> IF i \in kept THEN Classify(raw[i]) ELSE <<>>])

SegmentsOf(s) ==
    LET raw == RawFrom(s, <<>>)
    IN Collapse(FlattenSeq([i \in DOMAIN raw |-> Classify(raw[i])]))

\* Err: of the anchor, or of a segment.
Refused == [ok |-> FALSE]

Parsed(s) ==
    LET start == DetectAnchor(s)
        segments == SegmentsOf(From(s, start.width))
    IN IF start.anchor = "error" \/ \E i \in DOMAIN segments : IsBad(segments[i]) THEN Refused
       ELSE [ok |-> TRUE, anchor |-> start.anchor, segments |-> segments,
             drive |-> IF start.anchor = "drive" THEN Letters[s[1]] ELSE "none"]
=============================================================================
