------------------------------ MODULE Settings ------------------------------
(***************************************************************************)
(* The local variables of psi_demonstrator that the command line sets and  *)
(* the rest of the program reads.  parse_options reaches them through the  *)
(* pointers of its table, and read_elements changes nelements through one. *)
(***************************************************************************)
EXTENDS Integers, Sequences

CONSTANTS
    Letter,   \* the x of the words -x that may be given
    Plain     \* the other words

VARIABLES
    pc,   \* where the program is, or how it ended
    val   \* what the seven pointers of the options lead to, by option name

(* A word of the command line is of the form -x with x its letter, or it    *)
(* has no letter; it may start with a digit, and atoi then reads a number.  *)
Word == [letter : Letter \cup {""}, number : Int,
         text : Plain \cup {"", "127.0.0.1", "-", "digits"}]
Dash(x) == [letter |-> x, number |-> -1, text |-> "-"]
Number(v) == [letter |-> "", number |-> v, text |-> "digits"]
Text(t) == [letter |-> "", number |-> -1, text |-> t]
IsDigit(w) == w.number >= 0

\* int_role has no initial value.
Uninitialised == -1

\* The values psi_demonstrator starts from.
Defaults == [r |-> Uninitialised, f |-> Text(""), c |-> 0, u |-> 123,
             a |-> Text("127.0.0.1"), n |-> 0, t |-> FALSE]
=============================================================================
