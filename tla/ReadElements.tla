---------------------------- MODULE ReadElements ----------------------------
(***************************************************************************)
(* read_elements (mains/psi_demo.cpp): one getline per step.               *)
(***************************************************************************)
EXTENDS Integers, Sequences, Settings

CONSTANT Garbage   \* what lineArray[col] reads behind the last field

VARIABLES
    file,      \* [exists, lines]; a line is its fields, cut at each comma
    at,        \* how many lines the stream is past
    elements   \* the elements read so far

fileVars == <<file, at, elements>>

ReadInit(contents) == file = contents /\ at = 0 /\ elements = <<>>

\* The fields getline(ss, str, ',') returns: nothing follows a last comma.
Fields(line) ==
    IF line[Len(line)] = "" THEN SubSeq(line, 1, Len(line) - 1) ELSE line

Open ==
    /\ pc = "open"
    /\ pc' = CASE ~file.exists \/ val.f = Text("") -> "no file"
               [] val.n = 0 -> "count"
               [] OTHER -> "read"
    /\ UNCHANGED <<fileVars, val>>

\* Without -n the lines are counted, and the stream is set back to its start.
CountLine ==
    /\ pc = "count" /\ at < Len(file.lines)
    /\ at' = at + 1
    /\ val' = [val EXCEPT !.n = @ + 1]
    /\ UNCHANGED <<file, elements, pc>>

RewindTo(start) ==
    /\ pc = "count" /\ at = Len(file.lines)
    /\ pc' = "read"
    /\ at' = start
    /\ UNCHANGED <<file, elements, val>>

\* Variant: the stream stays at its end.
RewindNot == RewindTo(at)
Rewind == RewindTo(0)

\* assert(std::getline(infile, line)) fails.
ShortFile ==
    /\ pc = "read" /\ Len(elements) < val.n
    /\ at = Len(file.lines)
    /\ pc' = "short file"
    /\ UNCHANGED <<fileVars, val>>

\* A line with more than col fields gives its field; one without any field
\* leaves the vector without memory; one with some has other things behind
\* them, which may or may not be readable as a string.
ReadLine ==
    /\ pc = "read" /\ Len(elements) < val.n
    /\ at < Len(file.lines)
    /\ LET fields == Fields(file.lines[at + 1]) IN
       \/ /\ val.c < Len(fields)
          /\ elements' = Append(elements, fields[val.c + 1])
          /\ at' = at + 1
          /\ UNCHANGED pc
       \/ /\ val.c >= Len(fields) /\ fields # <<>>
          /\ elements' = Append(elements, Garbage)
          /\ at' = at + 1
          /\ UNCHANGED pc
       \/ /\ val.c >= Len(fields)
          /\ pc' = "no field"
          /\ UNCHANGED <<elements, at>>
    /\ UNCHANGED <<file, val>>

EndRead ==
    /\ pc = "read" /\ Len(elements) = val.n
    /\ pc' = "hash"
    /\ UNCHANGED <<fileVars, val>>

ReadNext == Open \/ CountLine \/ Rewind \/ ShortFile \/ ReadLine \/ EndRead
=============================================================================
