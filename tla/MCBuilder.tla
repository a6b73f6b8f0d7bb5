------------------------------ MODULE MCBuilder ------------------------------
(***************************************************************************)
(* Two supplied roots out of absolute, relative, nested, respelled and     *)
(* `..` paths of both platforms, two patterns of every anchor as the       *)
(* parser reads them.                                                      *)
(***************************************************************************)
EXTENDS BuilderChecks, TLC

DriveLetters == ("a" :> "A") @@ ("c" :> "C")
Posix == INSTANCE Parser WITH Letters <- DriveLetters, dialect <- "posix"
Win == INSTANCE Parser WITH Letters <- DriveLetters, dialect <- "win"

SomeDrives == DOMAIN DriveLetters
Upper(c) == IF c \in DOMAIN DriveLetters THEN DriveLetters[c] ELSE c

A == Name(<<"a">>)
B == Name(<<"b">>)
C == <<Prefix(<<<<"c", ":">>>>), RootDir>>
SomePaths ==
    {<<RootDir, A>>, <<RootDir, Name(<<"A">>)>>, <<RootDir, A, B>>, <<RootDir, ParentDir>>,
     C \o <<A>>, <<Prefix(<<<<"C", ":">>>>), RootDir, Name(<<"A">>)>>, C \o <<A, B>>, <<A>>}

Read(dialect, case, text) ==
    LET parsed == IF dialect = "posix" THEN Posix!Parsed(text) ELSE Win!Parsed(text)
        Part(field, default) == IF parsed.ok THEN parsed[field] ELSE default
    IN [dialect |-> dialect, case |-> case, parses |-> parsed.ok,
        anchor |-> Part("anchor", "relative"), drive |-> Part("drive", "none"),
        segments |-> Part("segments", <<>>)]

SomeOptions == {[ring |-> 0, case |-> Unset], [ring |-> 1, case |-> "insensitive"]}

SomeBases == {<<RootDir, A>>, C \o <<B>>, <<A>>}

\* Relative, rooted, all literal, the bare root; an escaped separator within a name and at its
\* front, an escaped `..` below a name, a drive as a name, alone and with an escaped separator;
\* one that the parser refuses; a drive, a share, no share.
Texts ==
    {<<"posix", "insensitive", <<"a", "/", "*">>>>,
     <<"posix", Unset, <<"/", "a", "/", "*", "/", "b">>>>,
     <<"posix", Unset, <<"/", "a", "/", "b">>>>,
     <<"posix", Unset, <<"/">>>>,
     <<"posix", Unset, <<"/", "a", "\\", "/", "b", "/", "\\", "/", "b", "/", "*">>>>,
     <<"posix", Unset, <<"/", "a", "\\", "/", ".", ".", "/", "b">>>>,
     <<"posix", Unset, <<"/", "c", ":", "/", "*">>>>,
     <<"posix", Unset, <<"/", "a", ":", "\\", "/", "b", "/", "*">>>>,
     <<"posix", Unset, <<"{">>>>,
     <<"win", "sensitive", <<"c", ":", "\\", "a", "/", "b", "\\", "*">>>>,
     <<"win", Unset, <<"\\", "\\", "a", "\\", "b", "\\", "a", "\\", "*">>>>,
     <<"win", Unset, <<"\\", "\\", "a", "\\", "*">>>>}
SomePatterns == {Read(t[1], t[2], t[3]) : t \in Texts}
=============================================================================
