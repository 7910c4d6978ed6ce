------------------------------ MODULE MCStartup ------------------------------
(* Startup for TLC: all command lines of up to three groups over one file,    *)
(* longer ones that give the required options, and all files of up to two     *)
(* lines for the ones that reach read_elements in every way.                  *)
EXTENDS Startup

MCGarbage == "?"
MCLetter == Names \cup {"h", "x"}
MCPlain == {"set", "x"}

With(x, w) == <<Dash(x), w>>
Operands == {<<Text("x")>>}
Flagged == {<<Dash("t")>>, <<Dash("h")>>, <<Dash("x")>>}
Numbers == {With("n", Number(1)), With("n", Number(3)), With("n", Number(65537)),
            With("c", Number(1)), With("c", Number(131329)), With("u", Number(7)),
            <<Dash("n")>>}
Names3 == {With("r", Number(0)), With("r", Number(2)), With("f", Text("set")),
           With("a", Dash("r"))}
Groups == Operands \cup Flagged \cup Numbers \cup Names3

UpTo(S, m) == UNION {[1..k -> S] : k \in 0..m}
ServerSet == <<With("r", Number(1)), With("f", Text("set"))>>

\* On the curve: "a" at once, "b" late, "c" with one header, "" with none.
MCOnCurve(h, e) ==
    \/ e \in {"a", MCGarbage}
    \/ e = "b" /\ h % 4 = 2
    \/ e = "c" /\ h = 8

Lines == {<<"a">>, <<"b", "a">>, <<"">>, <<"a", "c", "b">>, <<"c", "">>}
File(s) == [exists |-> TRUE, lines |-> s]
NoFile == [exists |-> FALSE, lines |-> <<>>]
MCFiles == {NoFile} \cup {File(s) : s \in UpTo(Lines, 2)}

\* Command lines that give the required options, and then what read_elements
\* depends on.
Reading ==
    {ServerSet \o s : s \in UpTo({With("n", Number(1)), With("n", Number(3)),
                                  With("c", Number(1)), With("c", Number(2))}, 2)}

MCInputs ==
    [given : UpTo(Groups, 3)
             \cup {s \o <<g>> : s \in UpTo(Groups, 2),
                                g \in {<<Dash("f")>>, <<Dash("a")>>}}
             \cup {ServerSet \o s : s \in UpTo(Numbers, 3)},
     file : {File(<<<<"b", "a">>>>)}]
    \cup [given : Reading, file : MCFiles]
=============================================================================
