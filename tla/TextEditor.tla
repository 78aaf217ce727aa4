----------------------------- MODULE TextEditor -----------------------------
(* What the script window promises: lines of text, of which only the lengths *)
(* matter here, with a cursor in one of them, whatever part of them the      *)
(* window shows.                                                             *)
EXTENDS Naturals, Sequences, SequencesExt

VARIABLES doc, line, col    \* lengths; the line of the cursor; characters before it

Init == doc = <<0>> /\ line = 1 /\ col = 0

Insert ==
    \E n \in 1 .. 4 : /\ doc' = [doc EXCEPT ![line] = @ + n]
                      /\ col' = col + n /\ line' = line

Split ==
    /\ doc' = InsertAt([doc EXCEPT ![line] = col], line + 1, doc[line] - col)
    /\ line' = line + 1 /\ col' = 0

\* A line is joined to the one above it.
Joined(l) == [RemoveAt(doc, l) EXCEPT ![l - 1] = doc[l - 1] + doc[l]]

BackSpace ==
    \/ col > 0 /\ doc' = [doc EXCEPT ![line] = @ - 1] /\ col' = col - 1 /\ line' = line
    \/ col = 0 /\ line > 1 /\ doc' = Joined(line) /\ line' = line - 1 /\ col' = doc[line - 1]

Delete ==
    /\ UNCHANGED <<line, col>>
    /\ \/ col < doc[line] /\ doc' = [doc EXCEPT ![line] = @ - 1]
       \/ col = doc[line] /\ line < Len(doc) /\ doc' = Joined(line + 1)

Move ==
    /\ doc' = doc
    /\ line' \in 1 .. Len(doc) /\ col' \in 0 .. doc[line']

Next == Insert \/ Split \/ BackSpace \/ Delete \/ Move
=============================================================================
