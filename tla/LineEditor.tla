----------------------------- MODULE LineEditor -----------------------------
(* What the input line promises: a line of text with a cursor between two   *)
(* characters, whatever part of it the screen shows.                        *)
EXTENDS Sequences, SequencesExt

CONSTANTS Chars, Words, History    \* what can be typed, completed, recalled

VARIABLES before, after    \* the text to the left and to the right of the cursor

vars == <<before, after>>

Init == before = << >> /\ after = << >>

Insert == \E c \in Chars : before' = Append(before, c) /\ UNCHANGED after

BackSpace == before # << >> /\ before' = Front(before) /\ UNCHANGED after

Delete == after # << >> /\ after' = Tail(after) /\ UNCHANGED before

\* The cursor moves, the text stays.
Move == before' \o after' = before \o after

\* The word to the left of the cursor is exchanged for one of the words on offer.
Complete ==
    /\ after' = after
    /\ \E n \in 0 .. Len(before), w \in Words :
          /\ \A i \in n + 1 .. Len(before) : before[i] # " "
          /\ n > 0 => before[n] = " "
          /\ before' = SubSeq(before, 1, n) \o w

\* A line of the history, with the cursor at its end; or, after Enter, none.
Recall == after' = << >> /\ before' \in History \cup {<< >>}

Next == Insert \/ BackSpace \/ Delete \/ Move \/ Complete \/ Recall

Spec == Init /\ [][Next]_vars
=============================================================================
