--------------------------- MODULE KernelModules ---------------------------
(***************************************************************************)
(* RefreshNtModulesForProc0 (BugChecker/Platform.cpp): the list of kernel  *)
(* images is brought up to date in a session, from PsLoadedModuleList,     *)
(* before a command looks at it.  Windows loads and unloads images between *)
(* two sessions; in a session memory that is paged out cannot be read.     *)
(***************************************************************************)
EXTENDS Naturals, Sequences, SequencesExt, FiniteSets

CONSTANTS Images, Bases, SizeOf,   \* SizeOf[i]: sizeOfImage in the headers of i
          MaxLoaded                \* bound: images loaded at the same time

VARIABLES
    loaded,   \* PsLoadedModuleList: a sequence of [img, base]
    mods,     \* GetNtModulesByProcess(0): what it was when the entry was added
    session,  \* the machine is stopped and the list has been refreshed
    seen      \* the entries of loaded the session could read

Init == loaded = << >> /\ mods = << >> /\ session = FALSE /\ seen = << >>

\* Windows, between two sessions.
Load(i, b) ==
    /\ ~session /\ Len(loaded) < MaxLoaded
    /\ \A k \in DOMAIN loaded : loaded[k].base # b
    /\ loaded' = Append(loaded, [img |-> i, base |-> b])
    /\ UNCHANGED <<mods, session, seen>>

Unload(k) ==
    /\ ~session
    /\ loaded' = RemoveAt(loaded, k)
    /\ UNCHANGED <<mods, session, seen>>

-----------------------------------------------------------------------------
Same_Base(m, e) == m.base = e.base

\* "is this image already in the vector?"
Same(m, e) == m.base = e.base /\ SizeOf[m.img] = SizeOf[e.img]

Found(ms, e) == {k \in DOMAIN ms : Same(ms[k], e)}

\* One turn of the loop, for an entry whose headers can be read: s holds the list
\* and `present`.
Visit(s, e) ==
    IF Found(s.mods, e) # {}
    THEN [s EXCEPT !.present = @ \cup
                      {CHOOSE k \in Found(s.mods, e) : \A j \in Found(s.mods, e) : k <= j}]
    ELSE [mods |-> Append(s.mods, e), present |-> s.present \cup {Len(s.mods) + 1}]

\* "remove all the modules that are no more present."
Present(s) ==
    LET kept == SetToSortSeq(s.present, <) IN [k \in DOMAIN kept |-> s.mods[kept[k]]]

\* The loop ends at the head of the list, or early at a link that cannot be read;
\* it passes over images whose headers cannot be read.
RefreshNtModulesForProc0(readable) ==
    LET read == SelectSeq(loaded, LAMBDA e : e \in readable) IN
    /\ ~session
    /\ mods' = Present(FoldLeft(Visit, [mods |-> mods, present |-> {}], read))
    /\ session' = TRUE /\ seen' = read
    /\ UNCHANGED loaded

\* The session ends.
Continue == session /\ session' = FALSE /\ seen' = << >> /\ UNCHANGED <<loaded, mods>>

Next ==
    \/ \E i \in Images, b \in Bases : Load(i, b)
    \/ \E k \in DOMAIN loaded : Unload(k)
    \/ \E readable \in SUBSET ToSet(loaded) : RefreshNtModulesForProc0(readable)
    \/ Continue

-----------------------------------------------------------------------------
(* Properties.                                                              *)

\* In a session the list has exactly the images that could be read, each once and
\* under the headers it has now, whatever was loaded at its base before, what could
\* not be read at an earlier session and in which order the images came.
ListIsLoaded ==
    session => ToSet(mods) = ToSet(seen) /\ Len(mods) = Len(seen)
=============================================================================
