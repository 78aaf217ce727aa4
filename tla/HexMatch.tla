------------------------------ MODULE HexMatch ------------------------------
(***************************************************************************)
(* Completion of a word by the numbers on the screen:                      *)
(* Wnd::HighlightHexNumber (BugChecker/Wnd.cpp) searches every row for the *)
(* word and takes the numbers that contain it.  One row is scanned, one    *)
(* iteration of the inner loop a step.                                     *)
(***************************************************************************)
EXTENDS Integers, Sequences, SequencesExt, FiniteSets

CONSTANTS Hex,          \* characters of which IsHex is true
          Rows,         \* rows of the screen
          Words         \* hexadecimal words, in capitals

VARIABLES row, text, x, pos, matches

Init == row \in Rows /\ text \in Words /\ x = 1 /\ pos = 0 /\ matches = << >>

Scanning == x <= Len(row)

IsHex(i) == i \in DOMAIN row /\ row[i] \in Hex

\* The number around column i: the columns of hexadecimal digits without a gap.
Digits(i) == {k \in DOMAIN row : \A m \in DOMAIN row :
                 (k <= m /\ m <= i) \/ (i <= m /\ m <= k) => IsHex(m)}
First(d) == CHOOSE k \in d : \A m \in d : k <= m
Final(d) == CHOOSE k \in d : \A m \in d : k >= m

NotHex ==
    /\ Scanning /\ ~IsHex(x)
    /\ x' = x + 1 /\ pos' = 0
    /\ UNCHANGED <<row, text, matches>>

Mismatch_GoesOn ==
    /\ Scanning /\ IsHex(x) /\ row[x] # text[pos + 1]
    /\ x' = x + 1 /\ pos' = 0
    /\ UNCHANGED <<row, text, matches>>

\* Back to the column after the one where the comparison began.
Mismatch ==
    /\ Scanning /\ IsHex(x) /\ row[x] # text[pos + 1]
    /\ x' = x - pos + 1 /\ pos' = 0
    /\ UNCHANGED <<row, text, matches>>

SameDigit ==
    /\ Scanning /\ IsHex(x) /\ row[x] = text[pos + 1] /\ pos + 1 < Len(text)
    /\ x' = x + 1 /\ pos' = pos + 1
    /\ UNCHANGED <<row, text, matches>>

\* The whole word: a match if the number is longer, and the scan goes on behind it.
Match ==
    /\ Scanning /\ IsHex(x) /\ row[x] = text[pos + 1] /\ pos + 1 = Len(text)
    /\ LET d == Digits(x) IN
       IF Cardinality(d) > Len(text)
       THEN matches' = Append(matches, <<First(d), Final(d)>>) /\ x' = Final(d) + 1
       ELSE UNCHANGED matches /\ x' = x + 1
    /\ pos' = 0
    /\ UNCHANGED <<row, text>>

Next == NotHex \/ Mismatch \/ SameDigit \/ Match

-----------------------------------------------------------------------------
(* Properties.                                                              *)

\* The columns of the numbers that contain the word and are longer than it.
Numbers == {<<a, b>> \in (DOMAIN row) \X (DOMAIN row) :
               /\ b - a + 1 > Len(text)
               /\ \A k \in a .. b : IsHex(k)
               /\ ~IsHex(a - 1) /\ ~IsHex(b + 1)
               /\ \E k \in a .. b : IsPrefix(text, SubSeq(row, k, b))}

\* When the row is done, each number that completes the word was found once and from
\* left to right, also where the word's own digits repeat and a comparison fails midway.
AllNumbersFound ==
    ~Scanning => matches = SetToSortSeq(Numbers, LAMBDA m, n : m[1] < n[1])
=============================================================================
