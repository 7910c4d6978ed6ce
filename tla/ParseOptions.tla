---------------------------- MODULE ParseOptions ----------------------------
(***************************************************************************)
(* parse_options (util/parse_options.cpp) with the table that              *)
(* read_psi_demo_options gives it.  One action is one turn of the loop     *)
(* over the words, or the code after it.                                   *)
(*                                                                         *)
(* given is the command line as the user means it: a sequence of groups,   *)
(* each an option with or without a value, or an operand.  The code sees   *)
(* only the words.                                                         *)
(***************************************************************************)
EXTENDS Integers, Sequences, SequencesExt, FiniteSets, Settings

VARIABLES
    given,     \* the groups of the command line (never changes)
    adjacent,  \* the build puts nelements two octets behind col (never changes)
    argv,      \* the words from argv[1] on
    result,    \* how many options were handled
    set        \* the options whose flag set is true

optionVars == <<given, adjacent, argv, result, set>>

\* The table: names by type, and the required ones.
Numeric == {"r", "c", "u", "n"}
Strings == {"f", "a"}
Flags == {"t"}
Names == Numeric \cup Strings \cup Flags
Required == {"r", "f"}

ParseInit(groups) ==
    /\ given = groups
    /\ adjacent \in BOOLEAN
    /\ argv = FlattenSeq(given)
    /\ result = 0
    /\ set = {}
    /\ val = Defaults
    /\ pc = "parse"

\* *((uint32_t *)options[i].val) = v.  The variable behind c is one octet: the
\* other three go to what follows it, which in the shipped program is an unused
\* octet and then the two low octets of nelements.
\* Variant: an option that keeps its first value.
StoreFirst(name, v) == IF name \in set THEN val ELSE [val EXCEPT ![name] = v]
Store(name, v) ==
    IF name # "c" THEN [val EXCEPT ![name] = v]
    ELSE [val EXCEPT !.c = v % 256,
                     !.n = IF adjacent THEN (@ \div 65536) * 65536 + v \div 65536
                                       ELSE @]

\* The loop is at an option called name.
AtOption(name) == pc = "parse" /\ argv # <<>> /\ argv[1].letter = name

\* The option at the front is done; words is what is left of argv.
Handled(name, words) ==
    /\ argv' = words
    /\ result' = result + 1
    /\ set' = set \cup {name}
    /\ UNCHANGED <<given, adjacent, pc>>

\* argv[2] is a null pointer, and the code follows it.
NoValue(name) ==
    /\ name \in Numeric \cup Strings
    /\ AtOption(name)
    /\ Len(argv) = 1
    /\ pc' = "no value"
    /\ UNCHANGED <<optionVars, val>>

\* A number is taken from the next word only if that starts with a digit; the
\* option counts as set in any case.
NumberOption(name) ==
    /\ name \in Numeric
    /\ AtOption(name) /\ Len(argv) > 1
    /\ IF IsDigit(argv[2])
         THEN /\ val' = Store(name, argv[2].number)
              /\ Handled(name, Tail(Tail(argv)))
         ELSE /\ UNCHANGED val
              /\ Handled(name, Tail(argv))

StringOption(name) ==
    /\ name \in Strings
    /\ AtOption(name) /\ Len(argv) > 1
    /\ val' = [val EXCEPT ![name] = argv[2]]
    /\ Handled(name, Tail(Tail(argv)))

FlagOption(name) ==
    /\ name \in Flags
    /\ AtOption(name)
    /\ val' = [val EXCEPT ![name] = TRUE]
    /\ Handled(name, Tail(argv))

\* Every option is looked for in the table, and -h before it.
Help ==
    /\ AtOption("h")
    /\ pc' = "usage"
    /\ UNCHANGED <<optionVars, val>>

\* No entry of the table matches: argv is not advanced, and the next turn of
\* the loop finds the same word.
UnknownInFront ==
    pc = "parse" /\ argv # <<>> /\ argv[1].letter \notin Names \cup {"", "h"}
Unknown == UnknownInFront /\ UNCHANGED <<optionVars, val, pc>>

\* A word that is not of the form -x returns result; the caller reads 0 as
\* failure, and the required options are not looked at.
Operand ==
    /\ AtOption("")
    /\ pc' = IF result = 0 THEN "usage" ELSE "check role"
    /\ UNCHANGED <<optionVars, val>>

\* The end of the words, which is also where argc < 2 returns 0.
NoMoreWords(required) ==
    /\ pc = "parse" /\ argv = <<>>
    /\ pc' = IF required \subseteq set THEN "check role" ELSE "usage"
    /\ UNCHANGED <<optionVars, val>>

\* Variant: required options that are not asked for.
EndUnchecked == NoMoreWords({})
EndOfWords == NoMoreWords(Required)

\* read_psi_demo_options: assert(int_role < 2).  Without -r any value is there.
CheckRole ==
    /\ pc = "check role"
    /\ \E role \in IF val.r = Uninitialised THEN 0..2 ELSE {val.r} :
          /\ val' = [val EXCEPT !.r = role]
          /\ pc' = IF role < 2 THEN "connect" ELSE "bad role"
    /\ UNCHANGED optionVars

ParseNext ==
    \/ \E name \in Names : NoValue(name) \/ NumberOption(name)
                           \/ StringOption(name) \/ FlagOption(name)
    \/ Help \/ Unknown \/ Operand \/ EndOfWords \/ CheckRole

-----------------------------------------------------------------------------
(* What the groups mean.                                                   *)

\* How words make groups: every command line can be read so, and in one way.
\* An option that takes a value has it in its group, whatever a text looks
\* like, and is alone only where there is none; flags, -h, unknown options
\* and operands are alone.  A number is what atoi returned, in 32 bits.
Grouped(groups) ==
    /\ groups \in Seq(Seq(Word) \ {<<>>})
    /\ \A k \in DOMAIN groups :
          LET g == groups[k]
              name == g[1].letter
          IN  \/ Len(g) = 2 /\ name \in Strings
              \/ Len(g) = 2 /\ name \in Numeric /\ IsDigit(g[2])
                 /\ g[2].number \div 65536 < 65536
              \/ Len(g) = 1 /\ name \in Strings /\ k = Len(groups)
              \/ Len(g) = 1 /\ name \in Numeric
                 /\ (k = Len(groups) \/ ~IsDigit(groups[k + 1][1]))
              \/ Len(g) = 1 /\ name \notin Strings \cup Numeric

\* The first group at which the loop stops or stays: an operand, -h, an option
\* that is not in the table, or one that lacks its value at the end.
LacksValue(k) ==
    /\ k = Len(given) /\ Len(given[k]) = 1
    /\ given[k][1].letter \in Numeric \cup Strings
StopsAt(k) == LacksValue(k) \/ given[k][1].letter \notin Names
First(S) == CHOOSE k \in S : \A j \in S : k <= j
Stop == First({k \in DOMAIN given : StopsAt(k)} \cup {Len(given) + 1})

\* The last group before that which gives option name a value, or 0.
Giving(name) ==
    {k \in 1 .. Stop - 1 : given[k][1].letter = name /\ Len(given[k]) = 2}
LastGiven(name) == CHOOSE k \in Giving(name) \cup {0} :
                       \A j \in Giving(name) : j <= k
Named(name) == \E k \in 1 .. Stop - 1 : given[k][1].letter = name
=============================================================================
