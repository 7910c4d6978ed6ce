------------------------------- MODULE Startup -------------------------------
(***************************************************************************)
(* psi_demonstrator from its command line to the points of its elements:   *)
(* what each program does before it sends anything it computed.  The       *)
(* connection and the exchanges are in Connection, Exchange and DhPsi.     *)
(***************************************************************************)
EXTENDS Integers, Sequences, ParseOptions, ReadElements, HashToPoint

CONSTANT Inputs   \* what the user may give: a command line and a file

\* The words are grouped as the program will read them, and a line has at
\* least one field, which may be empty.
ASSUME InputsAssumption ==
    \A input \in Inputs : /\ Grouped(input.given)
                          /\ input.file.lines \in Seq(Seq(STRING) \ {<<>>})

vars == <<pc, val, optionVars, fileVars, pointVars>>

Init ==
    /\ \E input \in Inputs : ParseInit(input.given) /\ ReadInit(input.file)
    /\ HashInit

\* listen or connect, whose results are ignored; the peer is external.
Connect ==
    /\ pc = "connect"
    /\ pc' = "open"
    /\ UNCHANGED <<val, optionVars, fileVars, pointVars>>

Ended ==
    pc \in {"usage", "no value", "bad role",
            "no file", "short file", "no field", "ready"}
Stopped == Ended /\ UNCHANGED vars

Next ==
    \/ ParseNext /\ UNCHANGED <<fileVars, pointVars>>
    \/ Connect
    \/ ReadNext /\ UNCHANGED <<optionVars, pointVars>>
    \/ (Hash(elements) \/ EndHash(elements)) /\ UNCHANGED <<optionVars, fileVars>>
    \/ Stopped

Spec == Init /\ [][Next]_vars
FairSpec == Spec /\ WF_vars(Next)

-----------------------------------------------------------------------------
(* Properties.                                                             *)

\* Every variable of psi_demonstrator and of the functions it calls stays in
\* its type, the octet col and the header of oaid_hashpoint in their widths.
TypeOK ==
    /\ val.c \in 0..255 /\ val.n \in Nat /\ val.t \in BOOLEAN
    /\ val.u \in Nat /\ val.r \in Nat \cup {Uninitialised}
    /\ result \in 0 .. Len(given) /\ set \subseteq Names
    /\ at \in 0 .. Len(file.lines)
    /\ Len(elements) <= val.n /\ Len(points) <= Len(elements)
    /\ hdr \in Headers

\* The loop over the words ends the way the groups say: with the usage text
\* for -h, for an operand before any option and for a missing required option;
\* by a null pointer for an option without its value at the end; never, at an
\* unknown option; and otherwise the program goes on.  An operand after an
\* option ends it as a success, whatever required options are missing.
OptionsOutcome ==
    LET complete == \A name \in Required : Named(name)
        letter == IF Stop > Len(given) THEN "" ELSE given[Stop][1].letter
    IN  /\ pc = "usage" <=> /\ pc # "parse"
                            /\ IF Stop > Len(given) THEN ~complete
                               ELSE letter = "h" \/ (letter = "" /\ Stop = 1)
        /\ pc = "no value" <=> pc # "parse" /\ Stop <= Len(given) /\ LacksValue(Stop)
        /\ letter \notin Names \cup {"", "h"} => pc = "parse"
        /\ pc # "parse" => result = Stop - 1

\* When the program goes on, each setting is the last value the command line
\* gives it, and the default if it gives none, in any order of the options.
\* Only the store of four octets into col spoils it: where nelements lies next
\* to col, a -c after -n leaves the upper half of what -n gave.
LastValueWins ==
    pc = "connect" =>
        LET value(name) == IF LastGiven(name) = 0 THEN Defaults[name]
                           ELSE given[LastGiven(name)][2].number
            word(name) == IF LastGiven(name) = 0 THEN Defaults[name]
                          ELSE given[LastGiven(name)][2]
        IN  /\ LastGiven("r") # 0 => val.r = value("r")
            /\ val.u = value("u")
            /\ val.c = value("c") % 256
            /\ val.f = word("f") /\ val.a = word("a")
            /\ val.t = Named("t")
            /\ IF adjacent /\ LastGiven("c") > LastGiven("n")
                 THEN val.n = (value("n") \div 65536) * 65536 + value("c") \div 65536
                 ELSE val.n = value("n")

\* Line k gives element k, for as many lines as -n says or, without it, for
\* all of them.  The program ends on the assertion only if the file is shorter
\* than that, and at a missing field only if one of those lines has none; an
\* element is something else than the field of its line only if there is none.
ReadExact ==
    LET lines == file.lines
        Has(k) == val.c < Len(Fields(lines[k]))
    IN  /\ Len(elements) <= Len(lines)
        /\ \A k \in DOMAIN elements :
              elements[k] = IF Has(k) THEN Fields(lines[k])[val.c + 1] ELSE Garbage
        /\ pc \in {"hash", "ready"} => Len(elements) = val.n
        /\ pc = "short file" => val.n > Len(lines)
        /\ pc = "no field" => /\ Len(elements) < val.n
                              /\ Len(elements) < Len(lines)
                              /\ ~Has(Len(elements) + 1)

\* The k-th header oaid_hashpoint tries, from 0.
Header(k) == (FirstHeader + k * 62343) % HeaderCount

\* The point of an element is that of the first header whose hash is on the
\* curve, so that it depends on the element alone: equal elements have equal
\* points on both sides, wherever they are in the files.
PointsExact ==
    \A j \in DOMAIN points :
        \E k \in Headers : /\ points[j] = <<Header(k), elements[j]>>
                       /\ OnCurve(Header(k), elements[j])
                       /\ \A l \in 0 .. k - 1 : ~OnCurve(Header(l), elements[j])

\* The program gets to the exchange or ends, except that it stays for ever at
\* an option that is not in the table and at an element that no header puts on
\* the curve: the odd step reaches every header.
NoHeader ==
    /\ pc = "hash" /\ Len(points) < Len(elements)
    /\ \A h \in Headers : ~OnCurve(h, elements[Len(points) + 1])
StartupEnds == <>(Ended \/ UnknownInFront \/ NoHeader)
=============================================================================
