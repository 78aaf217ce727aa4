------------------------------ MODULE Symbols ------------------------------
(***************************************************************************)
(* Symbol files: pdb.exe collects the symbols of a PDB file and writes     *)
(* them sorted (pdb/cpp/bcs.cpp, iterate.cpp), and the debugger searches   *)
(* them (BugChecker/Symbols.cpp).  Names are numbers, in the order of the  *)
(* names; an empty name is 0.                                              *)
(*                                                                         *)
(* A public symbol is [address, length].  A data type is [name, length,    *)
(* firstMember, numOfMembers] and a member [name, type], the index of its  *)
(* data type in the PDB file being a history field of both.                *)
(***************************************************************************)
EXTENDS Integers, Sequences, SequencesExt, FiniteSets

CONSTANTS Addresses, Lengths, Names,
          MaxPublics, MaxTypes, MaxMembers      \* bounds on the PDB file

\* A further bound: a PDB file has either public symbols or types, since nothing relates
\* the two tables.

VARIABLES
    PublicSymbols, DataTypes, DataTypeMembers,
    current,            \* number of the type that is iterated in the PDB file
    added,              \* the last BCS_AddDataType returned TRUE
    written,            \* the file was written
    query,              \* what the debugger searches, <<table, key>>
    start, end,         \* start_index, end_index
    found               \* an index, 0 for NULL

pdb    == <<PublicSymbols, DataTypes, DataTypeMembers, current, added>>
search == <<query, start, end, found>>

NoQuery == <<"none", 0>>

Init ==
    /\ PublicSymbols = << >> /\ DataTypes = << >> /\ DataTypeMembers = << >>
    /\ current = 0 /\ added = FALSE /\ written = FALSE
    /\ query = NoQuery /\ start = 0 /\ end = 0 /\ found = 0

-----------------------------------------------------------------------------
(* pdb.exe.                                                                 *)

AddPublicSymbol(a, n) ==
    /\ ~written /\ current = 0 /\ Len(PublicSymbols) < MaxPublics
    /\ PublicSymbols' = Append(PublicSymbols, [address |-> a, length |-> n])
    /\ UNCHANGED <<DataTypes, DataTypeMembers, current, added, written, search>>

\* The next type in iterateDataTypes; one without a name is not added.
AddDataType(name, n) ==
    /\ ~written /\ PublicSymbols = << >> /\ current < MaxTypes
    /\ current' = current + 1
    /\ added' = (name # 0)
    /\ DataTypes' = IF name = 0 THEN DataTypes
                    ELSE Append(DataTypes, [name |-> name, length |-> n, of |-> current + 1,
                                            firstMember |-> Len(DataTypeMembers) + 1,
                                            numOfMembers |-> 0])
    /\ UNCHANGED <<PublicSymbols, DataTypeMembers, written, search>>

HasMembers_Always == DataTypes # << >>

\* iterateMembers is called for a type that was added.
HasMembers == added

AddDataTypeMember(name) ==
    /\ ~written /\ HasMembers /\ Len(DataTypeMembers) < MaxMembers
    /\ name # 0
    /\ DataTypeMembers' = Append(DataTypeMembers, [name |-> name, of |-> current])
    /\ DataTypes' = [DataTypes EXCEPT ![Len(DataTypes)].numOfMembers = @ + 1]
    /\ UNCHANGED <<PublicSymbols, current, added, written, search>>

\* The orders in which std::sort can leave the elements of s, by their keys.
Sorted(s, key) ==
    LET orders == {p \in [DOMAIN s -> DOMAIN s] : ToSet(p) = DOMAIN s}
    IN  {[i \in DOMAIN s |-> s[p[i]]] :
            p \in {q \in orders : \A i, k \in DOMAIN s : i < k => s[q[i]][key] <= s[q[k]][key]}}

WriteFile ==
    /\ ~written /\ written' = TRUE
    /\ PublicSymbols' \in Sorted(PublicSymbols, "address")
    /\ DataTypes' \in Sorted(DataTypes, "name")
    /\ UNCHANGED <<DataTypeMembers, current, added, search>>

-----------------------------------------------------------------------------
(* The debugger.                                                            *)

Table == IF query[1] = "public" THEN PublicSymbols ELSE DataTypes

Begin(table, key) ==
    /\ written /\ query = NoQuery
    /\ CASE table = "public" -> PublicSymbols # << >>
         [] table = "type" -> DataTypes # << >> /\ DataTypeMembers # << >>
    /\ query' = <<table, key>>
    /\ start' = 1
    /\ end' = Len(IF table = "public" THEN PublicSymbols ELSE DataTypes)
    /\ found' = 0
    /\ UNCHANGED <<pdb, written>>

Searching_Strict == query # NoQuery /\ found = 0 /\ start < end

Searching == query # NoQuery /\ found = 0 /\ start <= end

\* The comparison of the key with an element: 0 if it is the one, else where to go on.
Compare(s) ==
    CASE query[1] = "public" /\ query[2] >= s.address /\ query[2] < s.address + s.length -> 0
      [] query[1] = "public" /\ query[2] >= s.address + s.length /\ query[2] > s.address -> 1
      [] query[1] = "type" -> query[2] - s.name
      [] OTHER -> -1

Longest_Any(i) == i

\* GetDatatype: of the types with the same name, the longest and of those the first,
\* unless it is the one that was found.
Longest(i) ==
    LET same == {k \in DOMAIN DataTypes : DataTypes[k].name = DataTypes[i].name}
        best == {k \in same : \A j \in same : DataTypes[j].length <= DataTypes[k].length}
    IN  IF i \in best THEN i ELSE CHOOSE k \in best : \A j \in best : k <= j

BinarySearch ==
    /\ Searching
    /\ LET middle == start + (end - start) \div 2
           comp   == Compare(Table[middle])
       IN  /\ found' = IF comp # 0 THEN 0
                       ELSE IF query[1] = "type" THEN Longest(middle) ELSE middle
           /\ start' = IF comp > 0 THEN middle + 1 ELSE start
           /\ end' = IF comp < 0 THEN middle - 1 ELSE end
    /\ UNCHANGED <<pdb, written, query>>

Done == query # NoQuery /\ ~Searching

Next ==
    \/ \E a \in Addresses, n \in Lengths : AddPublicSymbol(a, n)
    \/ \E name \in Names \cup {0}, n \in Lengths : AddDataType(name, n)
    \/ \E name \in Names \cup {0} : AddDataTypeMember(name)
    \/ WriteFile
    \/ \E key \in Addresses : Begin("public", key)
    \/ \E key \in Names : Begin("type", key)
    \/ BinarySearch

-----------------------------------------------------------------------------
(* Properties.                                                              *)

Covers(i, rva) ==
    /\ PublicSymbols[i].address <= rva
    /\ rva < PublicSymbols[i].address + PublicSymbols[i].length

Disjoint ==
    \A i, k \in DOMAIN PublicSymbols : i < k =>
        PublicSymbols[i].address + PublicSymbols[i].length <= PublicSymbols[k].address
          /\ PublicSymbols[i].address # PublicSymbols[k].address

\* An address is given the name of the symbol that contains it, and if no two symbols
\* overlap an address inside one is given a name.
PublicIsFound ==
    Done /\ query[1] = "public" =>
        /\ found # 0 => Covers(found, query[2])
        /\ Disjoint /\ (\E i \in DOMAIN PublicSymbols : Covers(i, query[2])) => found # 0

\* A type that is in the file is found, and of several with its name the most complete:
\* forward declarations have length 0.
MostComplete ==
    Done /\ query[1] = "type" =>
        LET same == {k \in DOMAIN DataTypes : DataTypes[k].name = query[2]} IN
        IF same = {} THEN found = 0
        ELSE found \in same /\ \A k \in same : DataTypes[k].length <= DataTypes[found].length

\* The members that the debugger reads from a type are its own, all of them, whatever
\* order the types were sorted in and however many without a name were between them.
MembersAreOwn ==
    \A i \in DOMAIN DataTypes :
        LET t == DataTypes[i] IN
        {k \in DOMAIN DataTypeMembers : DataTypeMembers[k].of = t.of}
            = t.firstMember .. t.firstMember + t.numOfMembers - 1
=============================================================================
