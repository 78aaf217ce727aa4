------------------------- MODULE KdcomInstall_proofs -------------------------
(***************************************************************************)
(* Proofs about KdcomInstall: wherever Install fails or the machine stops, *)
(* and however often that happens, the newest kdcom.dll of Windows and a   *)
(* complete boot.ini or boot.bak are there, no boot entry but Install's    *)
(* own is given BugChecker's module and no second one debugs with it, for  *)
(* any number of backups, updates and boot entries.                        *)
(***************************************************************************)
EXTENDS KdcomInstall, FiniteSetTheorems, WellFoundedInduction, TLAPS

Saved == \E b \in Backups : old[b] = version

\* What keeps kdcom.dll: Install renames it, to a name that is not in use, before
\* it writes the file again.
Files ==
    /\ dll \in [Dlls -> Int] /\ old \in [Backups -> Int] /\ version \in Nat \ {0}
    /\ step \in {"own", "move"} => replaceKdcom /\ old[MaxBackups] = None
    /\ step = "copy" /\ replaceKdcom => Saved
    /\ KdcomKept

\* The steps between the search for an entry and the renaming of boot.ini.
Editing == {"disable", "entry", "transport", "enable", "rest", "write", "delete", "backup"}

\* What keeps boot.ini: the editor begins with a file that has entries, and such a
\* file is complete; boot.bak is deleted while boot.ini is there.
Boot ==
    /\ ini.entries # << >> => short \/ ini.whole
    /\ step \in Editing /\ IsXp => ini.entries # << >>
    /\ step \in {"write", "delete", "backup", "replace"} => IsXp
    /\ step \in {"delete", "backup", "replace"} => short \/ tmp.whole
    /\ step = "replace" => short \/ bak.whole
    /\ BootIniKept

\* A set of indices of backups that is not empty has a smallest one.
LEMMA SmallestIndex ==
    ASSUME NEW S \in SUBSET Nat, S # {}
    PROVE  \E n \in S : \A m \in S : n <= m
<1>1. PICK n \in S : \A m \in S : <<m, n>> \notin OpToRel(<, Nat)
    BY NatLessThanWellFounded, WFMin, Zenon
<1>2. ASSUME NEW m \in S PROVE n <= m
    <2>1. SUFFICES ASSUME m < n PROVE FALSE
        OBVIOUS
    <2>2. <<m, n>> \in Nat \X Nat /\ <<m, n>>[1] < <<m, n>>[2]
        BY <2>1
    <2>3. <<m, n>> \in OpToRel(<, Nat)
        BY <2>2 DEF OpToRel
    <2> QED
        BY <1>1, <2>3, Zenon
<1> QED
    BY <1>2

\* There is a first name that is not in use if the last one is not.
LEMMA BackupIsFree ==
    ASSUME MaxBackups \in Nat \ {0}, old[MaxBackups] = None
    PROVE  kdcomBackup \in Backups /\ old[kdcomBackup] = None
<1> DEFINE S == {b \in Backups : old[b] = None}
<1>1. S \in SUBSET Nat /\ MaxBackups \in S
    BY DEF Backups
<1>2. PICK n \in S : \A m \in S : n <= m
    <2> HIDE DEF S
    <2> QED
        BY <1>1, SmallestIndex
<1>3. n \in Backups /\ old[n] = None /\ \A c \in 1 .. n - 1 : old[c] # None
    BY <1>2 DEF Backups
<1> QED
    BY <1>3 DEF kdcomBackup

\* The steps that touch neither kdcom.dll nor its backups.
LEMMA FilesUntouched ==
    ASSUME Files, UNCHANGED <<os, dll, old, version>>,
           step' \in {"own", "move"} => replaceKdcom /\ old[MaxBackups] = None,
           step' = "copy" => ~replaceKdcom
    PROVE  Files'
BY DEF Files, Saved, KdcomKept, replaceKdcom

\* The renaming of kdcom.dll.
LEMMA MoveKeepsFiles ==
    ASSUME MaxBackups \in Nat \ {0}, Files, Move
    PROVE  Files'
<1>1. fp = "kdcom.dll" /\ kdcomBackup \in Backups /\ old[kdcomBackup] = None
    BY BackupIsFree DEF Files, Move, fp
<1>2. /\ old' = [old EXCEPT ![kdcomBackup] = dll["kdcom.dll"]]
      /\ dll' = [dll EXCEPT !["kdcom.dll"] = None] /\ version' = version /\ step' = "copy"
    BY <1>1 DEF Move, Goto
<1>3. Saved'
    BY <1>1, <1>2 DEF Files, KdcomKept, Saved, None, Backups
<1>4. dll' \in [Dlls -> Int] /\ old' \in [Backups -> Int]
    BY <1>1, <1>2 DEF Files, Dlls, None
<1> QED
    BY <1>2, <1>3, <1>4 DEF Files, KdcomKept, Saved

\* The copy of BugChecker's module, complete or cut short by a crash.
LEMMA CopyKeepsFiles ==
    ASSUME Files, step = "copy", step' \in {"find", "idle"}, UNCHANGED <<os, old, version>>,
           NEW c \in Int, dll' = [dll EXCEPT ![fp] = c]
    PROVE  Files'
<1>1. dll' \in [Dlls -> Int]
    BY Zenon DEF Files
<1>2. KdcomKept'
    <2>1. CASE replaceKdcom
        BY <2>1 DEF Files, Saved, KdcomKept
    <2>2. CASE ~replaceKdcom
        BY <2>2 DEF Files, KdcomKept, fp
    <2> QED
        BY <2>1, <2>2
<1> QED
    BY <1>1, <1>2 DEF Files

\* Every step keeps the files.
LEMMA StepKeepsFiles ==
    ASSUME MaxBackups \in Nat \ {0}, Files, [InstallNext]_installVars
    PROVE  Files'
<1>1. CASE StartInstall
    BY <1>1, FilesUntouched DEF StartInstall, Goto, files
<1>2. CASE Own
    BY <1>2, FilesUntouched DEF Own, Goto, files, Files
<1>3. CASE Move
    BY <1>3, MoveKeepsFiles
<1>4. CASE Copy
    <2>1. /\ step = "copy" /\ step' = "find" /\ UNCHANGED <<os, old, version>>
          /\ dll' = [dll EXCEPT ![fp] = Ours]
        BY <1>4 DEF Copy, Goto
    <2>2. Ours \in Int
        BY DEF Ours
    <2> QED
        BY <2>1, <2>2, CopyKeepsFiles, Zenon
<1>5. CASE Crash
    <2>1. CASE UNCHANGED dll
        BY <1>5, <2>1, FilesUntouched DEF Crash, EndInstall, Goto
    <2>2. CASE step = "copy" /\ \E c \in {None, Broken} : dll' = [dll EXCEPT ![fp] = c]
        <3>1. PICK c \in {None, Broken} : dll' = [dll EXCEPT ![fp] = c]
            BY <2>2, Zenon
        <3>2. c \in Int
            BY DEF None, Broken
        <3>3. step = "copy" /\ step' = "idle" /\ UNCHANGED <<os, old, version>>
            BY <1>5, <2>2 DEF Crash, EndInstall, Goto
        <3> QED
            BY <3>1, <3>2, <3>3, CopyKeepsFiles, Zenon
    <2> QED
        BY <1>5, <2>1, <2>2 DEF Crash
<1>6. CASE WindowsUpdate
    BY <1>6 DEF WindowsUpdate, Files, KdcomKept, Dlls
<1>7. CASE Find \/ Disable \/ CopyEntry \/ EnableTransport \/ EnableDebugger \/ SetRest
    <2>1. UNCHANGED <<os, dll, old, version>>
        BY <1>7 DEF Find, Disable, CopyEntry, EnableTransport, EnableDebugger, SetRest, files
    <2>2. step' \in {"idle", "success"} \cup Editing
        BY <1>7 DEF Find, Disable, CopyEntry, EnableTransport, EnableDebugger, SetRest, Goto,
                    Editing
    <2> QED
        BY <2>1, <2>2, FilesUntouched DEF Editing
<1>8. CASE WriteTmp \/ DeleteBak \/ MoveIni \/ MoveTmp \/ Success \/ \E p \in Steps : Failed(p)
    <2>1. UNCHANGED <<os, dll, old, version>>
        BY <1>8, Zenon DEF WriteTmp, DeleteBak, MoveIni, MoveTmp, Success, Failed, files
    <2>2. step' \in {"idle", "success", "replace"} \cup Editing
        BY <1>8, Zenon DEF WriteTmp, DeleteBak, MoveIni, MoveTmp, Success, Failed, EndInstall, Goto,
                           Editing
    <2> QED
        BY <2>1, <2>2, FilesUntouched DEF Editing
<1>9. CASE UNCHANGED installVars
    BY <1>9, FilesUntouched DEF installVars, files, Files, KdcomKept, Saved, replaceKdcom
<1> QED
    BY <1>1, <1>2, <1>3, <1>4, <1>5, <1>6, <1>7, <1>8, <1>9, SMTT(30) DEF InstallNext

\* The newest kdcom.dll of Windows is never lost.
THEOREM KdcomIsKept ==
    InstallSpec => []KdcomKept
<1>1. InstallInit => Files
    BY DEF InstallInit, Files, KdcomKept, Dlls, None
<1>2. Files /\ [InstallNext]_installVars => Files'
    BY StepKeepsFiles, InstallAssumption
<1>3. Files => KdcomKept
    BY DEF Files
<1> QED
    BY <1>1, <1>2, <1>3, PTL DEF InstallSpec

\* The steps before FinishEditing leave a file with entries; those of the store are
\* complete with every change.
LEMMA EditKeepsBoot ==
    ASSUME Boot,
           StartInstall \/ Own \/ Move \/ Copy \/ Find \/ Disable \/ CopyEntry \/ EnableTransport
               \/ EnableDebugger \/ SetRest
    PROVE  Boot'
<1>1. UNCHANGED <<os, bak, tmp, short>>
    BY SMTT(30) DEF StartInstall, Own, Move, Copy, Find, Disable, CopyEntry, EnableTransport,
                    EnableDebugger,
           SetRest, boot
<1>2. UNCHANGED ini \/ (~IsXp /\ ini'.whole)
    BY DEF StartInstall, Own, Move, Copy, Find, Disable, CopyEntry, EnableTransport, EnableDebugger,
           SetRest, boot, Store, Whole
<1>3. step' \notin {"delete", "backup", "replace"} /\ (step' = "write" => IsXp)
    BY DEF StartInstall, Own, Move, Copy, Find, Disable, CopyEntry, EnableTransport, EnableDebugger,
           SetRest, Goto
<1>4. step' \in Editing /\ IsXp => ini.entries # << >>
    BY DEF StartInstall, Own, Move, Copy, Find, Disable, CopyEntry, EnableTransport, EnableDebugger,
           SetRest, Goto, Editing, Boot
<1> QED
    BY <1>1, <1>2, <1>3, <1>4, SMTT(30) DEF Boot, BootIniKept, IsXp, Editing

\* FinishEditing: boot.bak is deleted only with a complete boot.ini, and boot.ini
\* renamed only with a complete new file.
LEMMA FinishKeepsBoot ==
    ASSUME Boot, WriteTmp \/ DeleteBak \/ MoveIni \/ MoveTmp
    PROVE  Boot'
<1>1. CASE WriteTmp
    <2>1. UNCHANGED <<os, ini, bak>> /\ step = "write"
        BY <1>1, Zenon DEF WriteTmp
    <2>2. CASE tmp' = Whole(edit) /\ step' = "delete" /\ UNCHANGED short
        <3>1. tmp'.whole
            BY <2>2 DEF Whole
        <3> QED
            BY <2>1, <2>2, <3>1 DEF Boot, BootIniKept, IsXp, Editing
    <2>3. CASE short' = TRUE /\ step' \in {"delete", "idle"}
        BY <2>1, <2>3 DEF Boot, BootIniKept, IsXp, Editing
    <2> QED
        BY <1>1, <2>2, <2>3, Zenon DEF WriteTmp, Goto, EndInstall
<1>2. CASE DeleteBak
    BY <1>2 DEF DeleteBak, Goto, files, Boot, BootIniKept, IsXp, Editing
<1>3. CASE MoveIni
    BY <1>3 DEF MoveIni, Goto, EndInstall, files, NoFile, Boot, BootIniKept, IsXp, Editing
<1>4. CASE MoveTmp
    BY <1>4 DEF MoveTmp, Goto, EndInstall, files, NoFile, Boot, BootIniKept, IsXp, Editing
<1> QED
    BY <1>1, <1>2, <1>3, <1>4

\* Unless a write to the new file has failed, a complete boot.ini or boot.bak is there
\* at every moment.
THEOREM BootIniIsKept == InstallSpec => []BootIniKept
<1>1. InstallInit => Boot
    BY DEF InstallInit, Boot, BootIniKept, Whole, Editing
<1>2. Boot /\ [InstallNext]_installVars => Boot'
    <2> SUFFICES ASSUME Boot, [InstallNext]_installVars PROVE Boot'
        OBVIOUS
    <2>1. CASE Success \/ Crash \/ WindowsUpdate \/ \E p \in Steps : Failed(p)
        <3>1. UNCHANGED <<os, ini, bak, tmp, short>> /\ step' = "idle"
            BY <2>1 DEF Success, Crash, WindowsUpdate, Failed, EndInstall, Goto, boot
        <3> QED
            BY <3>1 DEF Boot, BootIniKept, IsXp, Editing
    <2>2. CASE UNCHANGED installVars
        BY <2>2 DEF installVars, boot, Boot, BootIniKept, IsXp
    <2> QED
        BY <2>1, <2>2, EditKeepsBoot, FinishKeepsBoot DEF InstallNext
<1>3. Boot => BootIniKept
    BY DEF Boot
<1> QED
    BY <1>1, <1>2, <1>3, PTL DEF InstallSpec
-----------------------------------------------------------------------------
(* The boot entries.  f is the name of BugChecker's module, fp.             *)

\* An entry that debugs with BugChecker's module.
Debugs(f, e) == e.debug /\ e.kd = f

\* Only Install's own entries have a module, the right one, and those that debug with it
\* belong to this Windows.
GoodEntry(f) == {e \in Entry : /\ e.new \/ e.kd = "none"
                               /\ e.kd \in {"none", f}
                               /\ Debugs(f, e) => e.mine}

AtMostOne(f, es) ==
    \A i, j \in 1 .. Len(es) : Debugs(f, es[i]) /\ Debugs(f, es[j]) => i = j

Has(f, es) == \E i \in 1 .. Len(es) : Debugs(f, es[i])

Good(f, es) == es \in Seq(GoodEntry(f)) /\ AtMostOne(f, es)

\* Where Install is in the list: pEntry is an entry of this Windows.  As long as it is
\* not Install's own, no entry debugs; afterwards no other one does.
Placed(f, p, es, c) ==
    /\ p \in {"disable", "entry", "transport", "enable"} =>
          c \in 1 .. Len(es) /\ es[c].mine
    /\ p \in {"disable", "entry"} => ~Has(f, es)
    /\ p \in {"transport", "enable"} =>
          /\ es[c].new
          /\ \A i \in 1 .. Len(es) : Debugs(f, es[i]) => i = c
    /\ p = "enable" => es[c].kd = f
    /\ p \in {"rest", "write"} => Has(f, es)

Early == {"idle", "own", "move", "copy"}

\* The inductive invariant of the boot entries.
Entries ==
    /\ Good(fp, ini.entries) /\ Good(fp, bak.entries)
    /\ Good(fp, tmp.entries) /\ Good(fp, edit)
    /\ Placed(fp, step, entries, cur)
    /\ step \in {"delete", "backup", "replace"} => short \/ Has(fp, tmp.entries)
    /\ step = "success" => short \/ Has(fp, ini.entries)
    /\ step \notin Early => dll[fp] = Ours
    /\ step \in {"write", "delete", "backup", "replace"} => IsXp
    /\ IsXp /\ step \in {"disable", "entry", "transport", "enable", "rest", "write"} =>
          Len(ini.entries) <= Len(edit)

\* The empty list is a good one.
LEMMA GoodEmpty == ASSUME NEW f PROVE Good(f, << >>)
BY DEF Good, AtMostOne

\* A copy of an entry differs in being Install's own.
LEMMA EntryCopied ==
    ASSUME NEW e \in Entry, NEW c, c = [e EXCEPT !.new = TRUE]
    PROVE  c \in Entry /\ c.new /\ c.mine = e.mine /\ c.debug = e.debug /\ c.kd = e.kd
BY Zenon DEF Entry

\* EnableCustomKD gives an entry a module.
LEMMA EntryModule ==
    ASSUME NEW e \in Entry, NEW f \in Dlls, NEW c, c = [e EXCEPT !.kd = f]
    PROVE  c \in Entry /\ c.kd = f /\ c.mine = e.mine /\ c.debug = e.debug /\ c.new = e.new
BY Zenon DEF Entry

\* The debugger is switched on.
LEMMA EntryOn ==
    ASSUME NEW e \in Entry, NEW c, c = [e EXCEPT !.debug = TRUE]
    PROVE  c \in Entry /\ c.debug /\ c.mine = e.mine /\ c.kd = e.kd /\ c.new = e.new
BY Zenon DEF Entry

\* The debugger is switched off.
LEMMA EntryOff ==
    ASSUME NEW e \in Entry, NEW c, c = [e EXCEPT !.debug = FALSE]
    PROVE  c \in Entry /\ ~c.debug /\ c.mine = e.mine /\ c.kd = e.kd /\ c.new = e.new
BY Zenon DEF Entry

\* A list in which one entry is changed.
LEMMA Changed ==
    ASSUME NEW S, NEW s \in Seq(S), NEW c \in 1 .. Len(s), NEW x \in S,
           NEW t, t = [s EXCEPT ![c] = x]
    PROVE  /\ t \in Seq(S) /\ Len(t) = Len(s) /\ t[c] = x
           /\ \A i \in 1 .. Len(s) : i # c => t[i] = s[i]
OBVIOUS

\* A list put together of two.
LEMMA Joined ==
    ASSUME NEW S, NEW a \in Seq(S), NEW b \in Seq(S), NEW t, t = a \o b
    PROVE  /\ t \in Seq(S) /\ Len(t) = Len(a) + Len(b)
           /\ \A i \in 1 .. Len(a) : t[i] = a[i]
           /\ \A i \in 1 .. Len(b) : t[Len(a) + i] = b[i]
<1>1. t \in Seq(S) /\ Len(t) = Len(a) + Len(b)
    OBVIOUS
<1>2. \A i \in 1 .. Len(a) : t[i] = a[i]
    OBVIOUS
<1>3. \A i \in 1 .. Len(b) : t[Len(a) + i] = b[i]
    OBVIOUS
<1> QED
    BY <1>1, <1>2, <1>3

\* t is s with x at place c.
Longer(S, s, c, x, t) ==
    /\ t \in Seq(S) /\ Len(t) = Len(s) + 1 /\ t[c] = x
    /\ \A i \in 1 .. Len(t) : i # c => \E j \in 1 .. Len(s) : t[i] = s[j]

With(s, c, x) == SubSeq(s, 1, c - 1) \o <<x>> \o SubSeq(s, c, Len(s))

\* A list with a new entry.
LEMMA Inserted ==
    ASSUME NEW S, NEW s \in Seq(S), NEW c \in 1 .. Len(s) + 1, NEW x \in S,
           NEW t, t = With(s, c, x)
    PROVE  Longer(S, s, c, x, t)
<1> DEFINE a == SubSeq(s, 1, c - 1)
           b == SubSeq(s, c, Len(s))
<1>1. a \in Seq(S) /\ Len(a) = c - 1 /\ \A i \in 1 .. c - 1 : a[i] = s[i]
    OBVIOUS
<1>2. /\ b \in Seq(S) /\ Len(b) = Len(s) - c + 1
      /\ \A i \in 1 .. Len(s) - c + 1 : b[i] = s[c + i - 1]
    OBVIOUS
<1>3. t = (a \o <<x>>) \o b
    BY Zenon DEF With
<1> HIDE DEF a, b
<1> DEFINE d == a \o <<x>>
<1>4. /\ d \in Seq(S) /\ Len(d) = c /\ d[c] = x /\ \A i \in 1 .. c - 1 : d[i] = s[i]
    BY <1>1, SMTT(30)
<1>5. t = d \o b
    BY <1>3
<1> HIDE DEF d
<1>6. /\ t \in Seq(S) /\ Len(t) = Len(s) + 1
      /\ \A i \in 1 .. c : t[i] = d[i]
      /\ \A i \in 1 .. Len(b) : t[c + i] = b[i]
    <2>1. Len(t) = Len(d) + Len(b) /\ t \in Seq(S)
        BY <1>2, <1>4, <1>5, Joined
    <2>2. \A i \in 1 .. Len(d) : t[i] = d[i]
        BY <1>2, <1>4, <1>5, Joined
    <2>3. \A i \in 1 .. Len(b) : t[Len(d) + i] = b[i]
        BY <1>2, <1>4, <1>5, Joined
    <2> QED
        BY <1>2, <1>4, <2>1, <2>2, <2>3
<1>7. ASSUME NEW i \in 1 .. Len(t), i # c PROVE \E j \in 1 .. Len(s) : t[i] = s[j]
    <2>1. CASE i < c
        <3>1. t[i] = s[i] /\ i \in 1 .. Len(s)
            BY <1>4, <1>6, <1>7, <2>1
        <3> QED
            BY <3>1
    <2>2. CASE i > c
        <3>1. i - c \in 1 .. Len(b) /\ i = c + (i - c)
            BY <1>2, <1>6, <1>7, <2>2
        <3>2. PICK q \in 1 .. Len(b) : i = c + q
            BY <3>1
        <3>3. t[i] = b[q]
            BY <1>6, <3>2
        <3>4. b[q] = s[c + q - 1] /\ c + q - 1 \in 1 .. Len(s)
            BY <1>2, <3>2
        <3> QED
            BY <3>3, <3>4
    <2> QED
        BY <1>7, <2>1, <2>2
<1> QED
    BY <1>4, <1>6, <1>7 DEF Longer

\* A list whose entries from n + 1 to k are missing, or all from n + 1.
LEMMA CutIsGood ==
    ASSUME NEW f, NEW s, Good(f, s), NEW k \in 0 .. Len(s), NEW n \in 0 .. k,
           NEW new \in {<< >>, SubSeq(s, k + 1, Len(s))}
    PROVE  Good(f, SubSeq(s, 1, n) \o new)
<1> DEFINE a == SubSeq(s, 1, n)
           t == a \o new
<1>1. s \in Seq(GoodEntry(f)) /\ AtMostOne(f, s)
    BY DEF Good
<1>2. a \in Seq(GoodEntry(f)) /\ Len(a) = n /\ \A i \in 1 .. n : a[i] = s[i]
    BY <1>1
<1>3. PICK d \in Nat : /\ new \in Seq(GoodEntry(f)) /\ n + d + Len(new) <= Len(s)
                       /\ \A i \in 1 .. Len(new) : new[i] = s[n + d + i]
    <2>1. CASE new = << >>
        BY <1>1, <2>1
    <2>2. CASE new = SubSeq(s, k + 1, Len(s))
        <3>1. /\ new \in Seq(GoodEntry(f)) /\ Len(new) = Len(s) - k
              /\ \A i \in 1 .. Len(s) - k : new[i] = s[k + i]
            BY <1>1, <2>2
        <3>2. k - n \in Nat /\ n + (k - n) = k /\ k + Len(new) <= Len(s)
            BY <1>1, <3>1
        <3>3. /\ n + (k - n) + Len(new) <= Len(s)
              /\ \A i \in 1 .. Len(new) : new[i] = s[n + (k - n) + i]
            BY <3>1, <3>2
        <3> QED
            BY <3>1, <3>2, <3>3, Zenon
    <2> QED
        BY <2>1, <2>2
<1> HIDE DEF a
<1>4. /\ t \in Seq(GoodEntry(f)) /\ Len(t) = n + Len(new)
      /\ \A i \in 1 .. n : t[i] = a[i]
      /\ \A i \in 1 .. Len(new) : t[n + i] = new[i]
    <2>1. t \in Seq(GoodEntry(f))
        BY <1>2, <1>3
    <2>4. Len(t) = Len(a) + Len(new)
        <3>1. new \in Seq(GoodEntry(f))
            BY <1>3
        <3> QED
            BY <1>2, <3>1
    <2>2. \A i \in 1 .. Len(a) : t[i] = a[i]
        BY <1>2, <1>3, Joined
    <2>3. \A i \in 1 .. Len(new) : t[Len(a) + i] = new[i]
        BY <1>2, <1>3, Joined, SMTT(30)
    <2> HIDE DEF t
    <2> QED
        BY <1>2, <2>1, <2>2, <2>3, <2>4
<1> HIDE DEF t
<1>5. \A i \in 1 .. Len(t) : t[i] = s[IF i <= n THEN i ELSE i + d]
    <2> SUFFICES ASSUME NEW i \in 1 .. Len(t)
                 PROVE  t[i] = s[IF i <= n THEN i ELSE i + d]
        OBVIOUS
    <2>1. CASE i <= n
        BY <1>2, <1>4, <2>1
    <2>2. CASE i > n
        <3>1. i - n \in 1 .. Len(new) /\ n + d + (i - n) = i + d /\ n + (i - n) = i
            BY <1>3, <1>4, <2>2
        <3>2. t[i] = s[n + d + (i - n)]
            BY <1>3, <1>4, <2>2, <3>1, Zenon
        <3> QED
            BY <2>2, <3>1, <3>2
    <2> QED
        BY <2>1, <2>2
<1>6. AtMostOne(f, t)
    <2> SUFFICES ASSUME NEW i \in 1 .. Len(t), NEW j \in 1 .. Len(t),
                        Debugs(f, t[i]), Debugs(f, t[j])
                 PROVE  i = j
        BY DEF AtMostOne
    <2> DEFINE g(x) == IF x <= n THEN x ELSE x + d
    <2>1. t[i] = s[g(i)] /\ t[j] = s[g(j)]
        BY <1>5
    <2>2. g(i) \in 1 .. Len(s) /\ g(j) \in 1 .. Len(s)
        BY <1>1, <1>3, <1>4
    <2>3. g(i) = g(j)
        <3> HIDE DEF g
        <3> QED
            BY <1>1, <2>1, <2>2 DEF AtMostOne
    <2> QED
        BY <1>3, <1>4, <2>3
<1> QED
    BY <1>4, <1>6 DEF Good, t, a

\* The name of the module is fixed by the version of Windows.
LEMMA ModuleName ==
    /\ fp \in Dlls /\ fp # "none"
    /\ os' = os => fp' = fp /\ IsXp' = IsXp
BY DEF fp, replaceKdcom, Dlls, IsXp

\* FindBestOSEntry finds an entry of this Windows, and BugChecker's if there is one.
LEMMA BestIs ==
    ASSUME NEW es \in Seq(Entry), Best(es) # 0
    PROVE  /\ Best(es) \in 1 .. Len(es) /\ es[Best(es)].mine
           /\ (\E i \in 1 .. Len(es) : es[i].mine /\ Custom(es[i])) => Custom(es[Best(es)])
<1> DEFINE mine   == {i \in DOMAIN es : es[i].mine}
           custom == {i \in mine : Custom(es[i])}
           least(S) == CHOOSE i \in S : \A j \in S : i <= j
<1>1. Best(es) = IF custom # {} THEN least(custom) ELSE IF mine # {} THEN least(mine) ELSE 0
    BY Zenon DEF Best
<1>2. mine \in SUBSET Nat /\ custom \in SUBSET Nat /\ mine \subseteq 1 .. Len(es)
      /\ custom \subseteq mine
    OBVIOUS
<1>3. ASSUME NEW S \in SUBSET Nat, S # {} PROVE least(S) \in S
    <2>1. \E n \in S : \A q \in S : n <= q
        BY <1>3, SmallestIndex
    <2> QED
        BY <2>1, Zenon
<1>4. CASE custom # {}
    <2>1. least(custom) \in custom
        BY <1>2, <1>3, <1>4, Zenon
    <2>2. Best(es) \in custom
        BY <1>1, <1>4, <2>1
    <2>3. Best(es) \in mine /\ Custom(es[Best(es)])
        BY <2>2, Zenon
    <2> QED
        BY <1>2, <2>3
<1>5. CASE custom = {}
    <2>1. mine # {} /\ Best(es) = least(mine)
        BY <1>1, <1>5, SMTT(30)
    <2>2. Best(es) \in mine
        BY <1>2, <1>3, <2>1
    <2>3. \A i \in 1 .. Len(es) : ~(es[i].mine /\ Custom(es[i]))
        BY <1>5
    <2> QED
        BY <1>2, <2>2, <2>3
<1> QED
    BY <1>4, <1>5

\* Outside the editing of the list nothing is claimed about pEntry.
LEMMA PlacedElsewhere ==
    ASSUME NEW f, NEW p, NEW es, NEW c,
           p \notin {"disable", "entry", "transport", "enable", "rest", "write"}
    PROVE  Placed(f, p, es, c)
BY DEF Placed

\* The steps before the list is read, and the ways out of Install.
LEMMA EarlyKeepsEntries ==
    ASSUME Entries, UNCHANGED <<os, ini, bak, tmp>>, edit' \in {edit, << >>},
           step' \in Early \cup {"find"}, step' = "find" => dll'[fp] = Ours
    PROVE  Entries'
<1>1. fp' = fp /\ IsXp' = IsXp
    BY ModuleName
<1>2. Good(fp', ini'.entries) /\ Good(fp', bak'.entries) /\ Good(fp', tmp'.entries)
      /\ Good(fp', edit')
    BY <1>1, GoodEmpty DEF Entries
<1>3. step' \in {"idle", "own", "move", "copy", "find"}
    BY DEF Early
<1>4. Placed(fp', step', entries', cur')
    BY <1>3, PlacedElsewhere
<1> QED
    BY <1>1, <1>2, <1>3, <1>4 DEF Entries, Early

\* A change of the list that is being edited.
LEMMA StoreKeepsEntries ==
    ASSUME Entries, step \notin Early, UNCHANGED <<os, dll, bak, tmp, short>>,
           NEW es, Good(fp, es), Placed(fp, step', es, cur'),
           IF IsXp THEN edit' = es /\ UNCHANGED ini ELSE ini'.entries = es /\ UNCHANGED edit,
           IsXp => Len(ini.entries) <= Len(es),
           step' \in {"idle", "entry", "transport", "enable", "rest"}
    PROVE  Entries'
<1>1. fp' = fp /\ IsXp' = IsXp
    BY ModuleName
<1>2. entries' = es
    BY <1>1 DEF entries
<1>3. Good(fp', ini'.entries) /\ Good(fp', bak'.entries) /\ Good(fp', tmp'.entries)
      /\ Good(fp', edit')
    BY <1>1 DEF Entries
<1>4. Placed(fp', step', entries', cur')
    BY <1>1, <1>2
<1>5. dll'[fp'] = Ours
    BY <1>1 DEF Entries
<1>6. IsXp' => Len(ini'.entries) <= Len(edit')
    BY <1>1
<1> QED
    BY <1>3, <1>4, <1>5, <1>6 DEF Entries

\* What the invariant says of the list that is being edited.
LEMMA EditedList ==
    ASSUME Entries
    PROVE  /\ Good(fp, entries) /\ entries \in Seq(GoodEntry(fp))
           /\ \A i \in 1 .. Len(entries) : entries[i] \in GoodEntry(fp)
           /\ IsXp /\ step \in {"disable", "entry", "transport", "enable"} =>
                 Len(ini.entries) <= Len(entries)
<1>1. Good(fp, entries)
    BY DEF Entries, entries
<1>2. entries \in Seq(GoodEntry(fp))
    BY <1>1 DEF Good
<1>3. IsXp /\ step \in {"disable", "entry", "transport", "enable"} =>
         Len(ini.entries) <= Len(entries)
    BY DEF Entries, entries
<1> QED
    BY <1>1, <1>2, <1>3

\* The search for the entry to copy or to complete.
LEMMA FindKeepsEntries == ASSUME Entries, Find PROVE Entries'
<1> DEFINE es == ini.entries
<1>1. fp' = fp /\ IsXp' = IsXp /\ fp \in Dlls /\ fp # "none"
    BY ModuleName DEF Find
<1>2. /\ UNCHANGED <<os, dll, ini, bak, tmp, short>> /\ step = "find"
      /\ edit' = (IF IsXp THEN ini.entries ELSE << >>)
      /\ cur' = Best(es) /\ Best(es) # 0
      /\ step' = IF Custom(es[cur']) THEN "transport" ELSE "disable"
    BY DEF Find, Goto, files, boot
<1>3. dll[fp] = Ours /\ Good(fp, es)
    BY <1>2 DEF Entries, Early
<1>4. es \in Seq(GoodEntry(fp)) /\ AtMostOne(fp, es)
    BY <1>3 DEF Good
<1>5. es \in Seq(Entry) /\ \A i \in 1 .. Len(es) : es[i] \in GoodEntry(fp)
    BY <1>4 DEF GoodEntry
<1>6. /\ cur' \in 1 .. Len(es) /\ es[cur'].mine
      /\ (\E i \in 1 .. Len(es) : es[i].mine /\ Custom(es[i])) => Custom(es[cur'])
    BY <1>2, <1>5, BestIs
<1>7. entries' = es
    BY <1>1, <1>2 DEF entries
<1>8. Placed(fp, step', es, cur')
    <2>1. CASE Custom(es[cur'])
        <3>1. step' = "transport"
            BY <1>2, <2>1
        <3>2. es[cur'] \in GoodEntry(fp)
            BY <1>5, <1>6
        <3>3. Debugs(fp, es[cur']) /\ es[cur'].new
            BY <2>1, <3>2 DEF Custom, GoodEntry, Debugs, Dlls
        <3>4. \A i \in 1 .. Len(es) : Debugs(fp, es[i]) => i = cur'
            BY <1>4, <1>6, <3>3 DEF AtMostOne
        <3> QED
            BY <1>6, <3>1, <3>3, <3>4 DEF Placed
    <2>2. CASE ~Custom(es[cur'])
        <3>1. step' = "disable"
            BY <1>2, <2>2
        <3>2. ~Has(fp, es)
            <4> SUFFICES ASSUME NEW i \in 1 .. Len(es), Debugs(fp, es[i]) PROVE FALSE
                BY DEF Has
            <4>1. es[i] \in GoodEntry(fp)
                BY <1>5
            <4>2. es[i].mine /\ Custom(es[i])
                BY <1>1, <1>3, <4>1, SMTT(30) DEF GoodEntry, Debugs, Custom
            <4> QED
                BY <1>6, <2>2, <4>2
        <3> QED
            BY <1>6, <3>1, <3>2 DEF Placed
    <2> QED
        BY <2>1, <2>2
<1>9. Good(fp', ini'.entries) /\ Good(fp', bak'.entries) /\ Good(fp', tmp'.entries)
      /\ Good(fp', edit')
    BY <1>1, <1>2, GoodEmpty DEF Entries
<1>10. Placed(fp', step', entries', cur')
    BY <1>1, <1>7, <1>8, SMTT(30)
<1>11. step' \in {"transport", "disable"} /\ dll'[fp'] = Ours
       /\ (IsXp' => Len(ini'.entries) <= Len(edit'))
    BY <1>1, <1>2, <1>3, <1>4
<1> HIDE DEF es
<1> QED
    BY <1>9, <1>10, <1>11 DEF Entries

\* ExplicitlyDisableDebugging.
LEMMA DisableKeepsEntries == ASSUME Entries, Disable PROVE Entries'
<1>1. /\ step = "disable" /\ step' = "entry" /\ cur' = cur
      /\ UNCHANGED <<os, dll, bak, tmp, short>>
    BY DEF Disable, Goto, files
<1>2. /\ Good(fp, entries) /\ entries \in Seq(GoodEntry(fp))
      /\ IsXp => Len(ini.entries) <= Len(entries)
    BY <1>1, EditedList
<1>3. /\ cur \in 1 .. Len(entries) /\ entries[cur].mine /\ ~Has(fp, entries)
    BY <1>1 DEF Entries, Placed
<1>4. CASE UNCHANGED <<edit, ini>>
    <2>1. Placed(fp, step', entries, cur')
        BY <1>1, <1>3 DEF Placed
    <2>2. IF IsXp THEN edit' = entries /\ UNCHANGED ini
                  ELSE ini'.entries = entries /\ UNCHANGED edit
        BY <1>4 DEF entries
    <2> QED
        BY <1>1, <1>2, <2>1, <2>2, StoreKeepsEntries DEF Early
<1>5. CASE ~IsXp /\ Store([entries EXCEPT ![cur].debug = FALSE])
    <2>1. PICK c : c = [entries[cur] EXCEPT !.debug = FALSE]
        BY Zenon
    <2>2. PICK t : t = [entries EXCEPT ![cur] = c]
        BY Zenon
    <2>3. entries[cur] \in GoodEntry(fp) /\ entries[cur] \in Entry
        BY <1>2, <1>3 DEF GoodEntry
    <2>4. c \in Entry /\ ~c.debug /\ c.mine = entries[cur].mine /\ c.kd = entries[cur].kd
          /\ c.new = entries[cur].new
        BY <2>1, <2>3, EntryOff, Zenon
    <2>5. ~Debugs(fp, c) /\ c \in GoodEntry(fp)
        BY <2>3, <2>4 DEF Debugs, GoodEntry
    <2>6. /\ t \in Seq(GoodEntry(fp)) /\ Len(t) = Len(entries) /\ t[cur] = c
          /\ \A i \in 1 .. Len(entries) : i # cur => t[i] = entries[i]
        BY <1>2, <1>3, <2>2, <2>5, Changed
    <2>7. ~Has(fp, t)
        BY <1>3, <2>5, <2>6 DEF Has
    <2>8. Good(fp, t)
        BY <2>6, <2>7 DEF Good, AtMostOne, Has
    <2>9. Placed(fp, step', t, cur')
        BY <1>1, <1>3, <2>4, <2>6, <2>7, Zenon DEF Placed
    <2>10. ~IsXp /\ ini'.entries = t /\ UNCHANGED edit
        BY <1>5, <2>1, <2>2 DEF Store, Whole
    <2> QED
        BY <1>1, <2>8, <2>9, <2>10, StoreKeepsEntries DEF Early
<1> QED
    BY <1>4, <1>5 DEF Disable

\* What Store does to the list.
LEMMA Stored ==
    ASSUME NEW t, Store(t)
    PROVE  IF IsXp THEN edit' = t /\ UNCHANGED ini ELSE ini'.entries = t /\ UNCHANGED edit
BY DEF Store, Whole

\* CopyEntry, wherever the copy comes to stand.
LEMMA CopyKeepsEntries == ASSUME Entries, CopyEntry PROVE Entries'
<1>1. step = "entry" /\ UNCHANGED <<os, dll, bak, tmp, short>>
    BY DEF CopyEntry, files
<1>2. /\ Good(fp, entries) /\ entries \in Seq(GoodEntry(fp))
      /\ IsXp => Len(ini.entries) <= Len(entries)
    BY <1>1, EditedList
<1>3. /\ cur \in 1 .. Len(entries) /\ entries[cur].mine /\ ~Has(fp, entries)
    BY <1>1 DEF Entries, Placed
<1>4. PICK c : c = [entries[cur] EXCEPT !.new = TRUE]
    BY Zenon
<1>5. PICK k \in 1 .. Len(entries) + 1 :
         /\ Store(With(entries, k, c))
         /\ \/ step' = "transport" /\ cur' = k
            \/ step' = "idle" /\ cur' = 0
    BY <1>2, <1>4 DEF CopyEntry, Goto, With
<1>6. PICK t : t = With(entries, k, c)
    OBVIOUS
<1>7. entries[cur] \in GoodEntry(fp) /\ entries[cur] \in Entry
    BY <1>2, <1>3 DEF GoodEntry
<1>8. c \in Entry /\ c.new /\ c.mine = entries[cur].mine /\ c.debug = entries[cur].debug
      /\ c.kd = entries[cur].kd
    BY <1>4, <1>7, EntryCopied, Zenon
<1>9. ~Debugs(fp, entries[cur])
    BY <1>3 DEF Has
<1>10. ~Debugs(fp, c)
    BY <1>8, <1>9, Zenon DEF Debugs
<1>11. c \in GoodEntry(fp)
    BY <1>7, <1>8, <1>10 DEF GoodEntry
<1>12. /\ t \in Seq(GoodEntry(fp)) /\ Len(t) = Len(entries) + 1 /\ t[k] = c
       /\ \A i \in 1 .. Len(t) : i # k => \E j \in 1 .. Len(entries) : t[i] = entries[j]
    <2>1. Longer(GoodEntry(fp), entries, k, c, t)
        BY <1>2, <1>5, <1>6, <1>11, Inserted
    <2> QED
        BY <2>1 DEF Longer
<1>13. ~Has(fp, t)
    BY <1>3, <1>10, <1>12 DEF Has
<1>14. Good(fp, t)
    BY <1>12, <1>13 DEF Good, AtMostOne, Has
<1>15. Placed(fp, step', t, cur')
    <2>1. CASE step' = "idle"
        BY <2>1, PlacedElsewhere
    <2>2. CASE step' = "transport" /\ cur' = k
        <3>1. k \in 1 .. Len(t) /\ t[k].mine /\ t[k].new
            BY <1>2, <1>3, <1>8, <1>12, Zenon
        <3> QED
            BY <1>13, <2>2, <3>1 DEF Placed, Has
    <2> QED
        BY <1>5, <2>1, <2>2
<1>16. IF IsXp THEN edit' = t /\ UNCHANGED ini ELSE ini'.entries = t /\ UNCHANGED edit
    BY <1>5, <1>6, Stored
<1>17. IsXp => Len(ini.entries) <= Len(t)
    <2>1. Good(fp, ini.entries)
        BY DEF Entries
    <2>2. ini.entries \in Seq(GoodEntry(fp))
        BY <2>1 DEF Good
    <2> QED
        BY <1>2, <1>12, <2>2
<1> QED
    BY <1>1, <1>5, <1>14, <1>15, <1>16, <1>17, StoreKeepsEntries DEF Early

\* EnableCustomKD: the name of the module.
LEMMA TransportKeepsEntries == ASSUME Entries, EnableTransport PROVE Entries'
<1>1. /\ step = "transport" /\ step' = "enable" /\ cur' = cur
      /\ UNCHANGED <<os, dll, bak, tmp, short>>
    BY DEF EnableTransport, Goto, files
<1>2. /\ entries \in Seq(GoodEntry(fp))
      /\ IsXp => Len(ini.entries) <= Len(entries)
    BY <1>1, EditedList
<1>3. /\ cur \in 1 .. Len(entries) /\ entries[cur].mine /\ entries[cur].new
      /\ \A i \in 1 .. Len(entries) : Debugs(fp, entries[i]) => i = cur
    BY <1>1 DEF Entries, Placed
<1>4. PICK c : c = [entries[cur] EXCEPT !.kd = fp]
    BY Zenon
<1>5. PICK t : t = [entries EXCEPT ![cur] = c]
    BY Zenon
<1>6. entries[cur] \in Entry /\ fp \in Dlls
    BY <1>2, <1>3, ModuleName DEF GoodEntry
<1>7. c \in Entry /\ c.kd = fp /\ c.mine = entries[cur].mine /\ c.new = entries[cur].new
    BY <1>4, <1>6, EntryModule
<1>8. c \in GoodEntry(fp)
    BY <1>3, <1>7, Zenon DEF GoodEntry
<1>9. /\ t \in Seq(GoodEntry(fp)) /\ Len(t) = Len(entries) /\ t[cur] = c
      /\ \A i \in 1 .. Len(entries) : i # cur => t[i] = entries[i]
    BY <1>2, <1>3, <1>5, <1>8, Changed
<1>10. \A i \in 1 .. Len(t) : Debugs(fp, t[i]) => i = cur
    BY <1>3, <1>9
<1>11. Good(fp, t)
    BY <1>9, <1>10 DEF Good, AtMostOne
<1>12. t[cur].mine /\ t[cur].new /\ t[cur].kd = fp
    BY <1>3, <1>7, <1>9, Zenon
<1>13. Placed(fp, step', t, cur')
    BY <1>1, <1>3, <1>9, <1>10, <1>12 DEF Placed
<1>14. IF IsXp THEN edit' = t /\ UNCHANGED ini ELSE ini'.entries = t /\ UNCHANGED edit
    <2>1. Store(t)
        BY <1>4, <1>5 DEF EnableTransport
    <2> QED
        BY <2>1, Stored
<1> QED
    BY <1>1, <1>2, <1>9, <1>11, <1>13, <1>14, StoreKeepsEntries DEF Early

\* EnableCustomKD: the switch.
LEMMA EnableKeepsEntries == ASSUME Entries, EnableDebugger PROVE Entries'
<1>1. /\ step = "enable" /\ step' = "rest" /\ cur' = cur
      /\ UNCHANGED <<os, dll, bak, tmp, short>>
    BY DEF EnableDebugger, Goto, files
<1>2. /\ entries \in Seq(GoodEntry(fp))
      /\ IsXp => Len(ini.entries) <= Len(entries)
    BY <1>1, EditedList
<1>3. /\ cur \in 1 .. Len(entries) /\ entries[cur].mine /\ entries[cur].new
      /\ entries[cur].kd = fp
      /\ \A i \in 1 .. Len(entries) : Debugs(fp, entries[i]) => i = cur
    BY <1>1 DEF Entries, Placed
<1>4. PICK c : c = [entries[cur] EXCEPT !.debug = TRUE]
    BY Zenon
<1>5. PICK t : t = [entries EXCEPT ![cur] = c]
    BY Zenon
<1>6. entries[cur] \in Entry
    BY <1>2, <1>3 DEF GoodEntry
<1>7. /\ c \in Entry /\ c.debug /\ c.mine = entries[cur].mine /\ c.kd = entries[cur].kd
      /\ c.new = entries[cur].new
    BY <1>4, <1>6, EntryOn, Zenon
<1>8. c \in GoodEntry(fp) /\ Debugs(fp, c)
    BY <1>3, <1>7, ZenonT(30) DEF GoodEntry, Debugs
<1>9. /\ t \in Seq(GoodEntry(fp)) /\ Len(t) = Len(entries) /\ t[cur] = c
      /\ \A i \in 1 .. Len(entries) : i # cur => t[i] = entries[i]
    BY <1>2, <1>3, <1>5, <1>8, Changed
<1>10. \A i \in 1 .. Len(t) : Debugs(fp, t[i]) => i = cur
    BY <1>3, <1>9
<1>11. Good(fp, t)
    BY <1>9, <1>10 DEF Good, AtMostOne
<1>12. Has(fp, t)
    BY <1>3, <1>8, <1>9 DEF Has
<1>13. Placed(fp, step', t, cur')
    BY <1>1, <1>12 DEF Placed
<1>14. IF IsXp THEN edit' = t /\ UNCHANGED ini ELSE ini'.entries = t /\ UNCHANGED edit
    <2>1. Store(t)
        BY <1>4, <1>5, SMTT(30) DEF EnableDebugger
    <2> QED
        BY <2>1, Stored
<1> QED
    BY <1>1, <1>2, <1>9, <1>11, <1>13, <1>14, StoreKeepsEntries DEF Early

\* The settings that are not modelled, after which the list of boot.ini is written.
LEMMA RestKeepsEntries == ASSUME Entries, SetRest PROVE Entries'
<1>1. /\ step = "rest" /\ step' = (IF IsXp THEN "write" ELSE "success")
      /\ UNCHANGED <<os, dll, ini, bak, tmp, short, edit, cur>>
    BY DEF SetRest, Goto, files, boot
<1>2. fp' = fp /\ IsXp' = IsXp /\ entries' = entries
    BY <1>1, ModuleName, SMTT(30) DEF entries
<1>3. Has(fp, entries)
    BY <1>1 DEF Entries, Placed
<1>4. Placed(fp, step', entries, cur)
    BY <1>1, <1>3 DEF Placed
<1>5. step' = "success" => Has(fp, ini.entries)
    BY <1>1, <1>3 DEF entries
<1> QED
    BY <1>1, <1>2, <1>4, <1>5 DEF Entries, Early

\* FinishEditing: the new boot.ini has BugChecker's entry unless a write has failed.
LEMMA FinishKeepsEntries ==
    ASSUME Entries, WriteTmp \/ DeleteBak \/ MoveIni \/ MoveTmp
    PROVE  Entries'
<1>1. /\ UNCHANGED <<os, dll>> /\ step \in {"write", "delete", "backup", "replace"}
    BY Zenon DEF WriteTmp, DeleteBak, MoveIni, MoveTmp, files
<1>2. /\ fp' = fp /\ IsXp' = IsXp /\ IsXp /\ dll[fp] = Ours
    BY <1>1, ModuleName DEF Entries, Early
<1>3. /\ Good(fp, ini.entries) /\ Good(fp, bak.entries) /\ Good(fp, tmp.entries)
      /\ Good(fp, edit) /\ Good(fp, << >>) /\ Good(fp, NoFile.entries)
    BY GoodEmpty DEF Entries, NoFile
<1>4. CASE WriteTmp
    <2>1. step = "write" /\ UNCHANGED <<ini, bak>> /\ Has(fp, edit)
          /\ Len(ini.entries) <= Len(edit)
        BY <1>2, <1>4, ZenonT(30) DEF WriteTmp, Entries, Placed, entries
    <2>2. CASE tmp' = Whole(edit) /\ Goto("delete") /\ UNCHANGED <<short, edit, cur>>
        <3>1. tmp'.entries = edit /\ step' = "delete"
            BY <2>2 DEF Whole, Goto
        <3>2. Placed(fp', step', entries', cur')
            BY <3>1, PlacedElsewhere, SMTT(30)
        <3> QED
            BY <1>1, <1>2, <1>3, <2>1, <2>2, <3>1, <3>2 DEF Entries
    <2>3. CASE /\ \E n \in 0 .. Len(ini.entries),
                     new \in {<< >>, SubSeq(edit, Len(ini.entries) + 1, Len(edit))} :
                     tmp' = [entries |-> SubSeq(edit, 1, n) \o new, whole |-> FALSE]
               /\ short' = TRUE
               /\ \/ Goto("delete") /\ UNCHANGED <<edit, cur>>
                  \/ EndInstall
        <3>1. PICK n \in 0 .. Len(ini.entries),
                   new \in {<< >>, SubSeq(edit, Len(ini.entries) + 1, Len(edit))} :
                   tmp' = [entries |-> SubSeq(edit, 1, n) \o new, whole |-> FALSE]
            BY <2>3, ZenonT(30)
        <3>2. Len(ini.entries) \in 0 .. Len(edit)
            BY <1>3, <2>1 DEF Good
        <3>3. Good(fp, SubSeq(edit, 1, n) \o new)
            BY <1>3, <3>2, CutIsGood, Zenon
        <3>4. Good(fp, tmp'.entries)
            BY <3>1, <3>3, Zenon
        <3>5. short' /\ step' \in {"delete", "idle"} /\ Good(fp, edit')
            BY <1>3, <2>3, Zenon DEF Goto, EndInstall
        <3>6. Placed(fp', step', entries', cur')
            BY <3>5, PlacedElsewhere, SMTT(30)
        <3> QED
            BY <1>1, <1>2, <1>3, <2>1, <3>4, <3>5, <3>6 DEF Entries
    <2> QED
        BY <1>4, <2>2, <2>3, Zenon DEF WriteTmp
<1>5. CASE DeleteBak
    <2>1. /\ step' = "backup" /\ UNCHANGED <<ini, tmp, short, edit>> /\ bak' \in {NoFile, bak}
          /\ step = "delete"
        BY <1>5 DEF DeleteBak, Goto
    <2>2. Placed(fp', step', entries', cur')
        BY <2>1, PlacedElsewhere, SMTT(30)
    <2> QED
        BY <1>1, <1>2, <1>3, <2>1, <2>2 DEF Entries
<1>6. CASE MoveIni
    <2>1. /\ UNCHANGED short /\ step = "backup"
          /\ \/ /\ bak' = ini /\ ini' = NoFile /\ step' = "replace" /\ UNCHANGED <<tmp, edit>>
             \/ tmp' = NoFile /\ edit' = << >> /\ step' = "idle" /\ UNCHANGED <<ini, bak>>
        BY <1>6 DEF MoveIni, Goto, EndInstall
    <2>2. Placed(fp', step', entries', cur')
        BY <2>1, PlacedElsewhere, SMTT(30)
    <2> QED
        BY <1>1, <1>2, <1>3, <2>1, <2>2 DEF Entries, Early
<1>7. CASE MoveTmp
    <2>1. /\ UNCHANGED short /\ step = "replace" /\ tmp' = NoFile
          /\ \/ ini' = tmp /\ step' = "success" /\ UNCHANGED <<bak, edit>>
             \/ ini' = bak /\ bak' = NoFile /\ edit' = << >> /\ step' = "idle"
             \/ edit' = << >> /\ step' = "idle" /\ UNCHANGED <<ini, bak>>
        BY <1>7 DEF MoveTmp, Goto, EndInstall
    <2>2. Placed(fp', step', entries', cur')
        BY <2>1, PlacedElsewhere
    <2> QED
        BY <1>1, <1>2, <1>3, <2>1, <2>2 DEF Entries, Early
<1> QED
    BY <1>4, <1>5, <1>6, <1>7

\* Every step keeps the boot entries in order.
LEMMA StepKeepsEntries ==
    ASSUME Files, Entries, [InstallNext]_installVars
    PROVE  Entries'
<1>1. CASE StartInstall \/ Own \/ Move \/ Success \/ WindowsUpdate \/ Crash
              \/ \E p \in Steps : Failed(p)
    <2>1. /\ UNCHANGED <<os, ini, bak, tmp>> /\ edit' \in {edit, << >>}
          /\ step' \in {"idle", "own", "move", "copy"}
        BY <1>1, Zenon DEF StartInstall, Own, Move, Success, WindowsUpdate, Crash, Failed, EndInstall,
               Goto, boot
    <2> QED
        BY <2>1, EarlyKeepsEntries DEF Early
<1>2. CASE Copy
    <2>1. /\ UNCHANGED <<os, ini, bak, tmp, edit>> /\ step' = "find"
          /\ dll' = [dll EXCEPT ![fp] = Ours]
        BY <1>2 DEF Copy, Goto, boot
    <2>2. dll'[fp] = Ours
        BY <2>1, ModuleName DEF Files
    <2> QED
        BY <2>1, <2>2, EarlyKeepsEntries
<1>3. CASE UNCHANGED installVars
    <2>1. UNCHANGED <<os, dll, ini, bak, tmp, short, step, edit, cur>>
        BY <1>3 DEF installVars, files, boot
    <2>2. fp' = fp /\ IsXp' = IsXp /\ entries' = entries
        BY <2>1, ModuleName DEF entries
    <2> QED
        BY <2>1, <2>2 DEF Entries
<1> QED
    BY SMTT(30), <1>1, <1>2, <1>3, FindKeepsEntries, DisableKeepsEntries, CopyKeepsEntries,
       TransportKeepsEntries, EnableKeepsEntries, RestKeepsEntries, FinishKeepsEntries
       DEF InstallNext

\* The entries of Windows before the first installation are in order.
LEMMA InitKeepsEntries ==
    ASSUME InstallInit
    PROVE  Entries
<1>1. PICK es \in Stores : ini = Whole(es)
    BY DEF InstallInit
<1>2. es \in Seq({e \in Entry : ~e.new /\ e.kd = "none"})
    BY InstallAssumption
<1>3. \A i \in 1 .. Len(es) : es[i] \in Entry /\ es[i].kd = "none"
    BY <1>2
<1>4. \A i \in 1 .. Len(es) : ~Debugs(fp, es[i])
    BY <1>3, ModuleName DEF Debugs
<1>5. \A i \in 1 .. Len(es) : es[i] \in GoodEntry(fp)
    BY <1>3, <1>4 DEF GoodEntry
<1>6. es \in Seq(GoodEntry(fp))
    BY <1>2, <1>5
<1>7. Good(fp, es)
    BY <1>4, <1>6 DEF Good, AtMostOne
<1>8. Good(fp, ini.entries) /\ Good(fp, bak.entries) /\ Good(fp, tmp.entries)
      /\ Good(fp, edit)
    BY <1>1, <1>7, GoodEmpty DEF Whole, InstallInit, NoFile
<1>9. step = "idle"
    BY DEF InstallInit
<1>10. Placed(fp, step, entries, cur)
    BY <1>9, PlacedElsewhere
<1> QED
    BY <1>8, <1>9, <1>10 DEF Entries, Early

\* The invariants of the files and of the entries together.
LEMMA EntriesInv ==
    InstallSpec => []Entries
<1>1. InstallInit => Files
    BY DEF InstallInit, Files, KdcomKept, Dlls, None
<1>3. InstallInit => Entries
    BY InitKeepsEntries
<1>2. Files /\ Entries /\ [InstallNext]_installVars => (Files /\ Entries)'
    BY StepKeepsFiles, StepKeepsEntries, InstallAssumption
<1> QED
    BY <1>1, <1>2, <1>3, PTL DEF InstallSpec

\* Install never harms Windows: the newest kdcom.dll is still there, only its own boot
\* entries were given BugChecker's module, and there is a complete boot.ini or boot.bak,
\* for every list of entries, every number of backups and updates, and wherever Install
\* fails or the machine stops.
THEOREM WindowsIsKept ==
    InstallSpec => []InstallKeepsWindows
<1>1. Entries => OwnEntriesOnly
    <2> SUFFICES ASSUME Entries, NEW es \in {ini.entries, bak.entries, edit},
                        NEW i \in DOMAIN es
                 PROVE  es[i].new \/ es[i].kd = "none"
        BY DEF OwnEntriesOnly
    <2>1. Good(fp, es)
        BY DEF Entries
    <2>2. es \in Seq(GoodEntry(fp))
        BY <2>1 DEF Good
    <2>3. es[i] \in GoodEntry(fp)
        BY <2>2
    <2> QED
        BY <2>3 DEF GoodEntry
<1> QED
    BY <1>1, EntriesInv, KdcomIsKept, BootIniIsKept, PTL DEF InstallKeepsWindows

\* However often Install is started, fails or is cut short, at most one boot entry debugs
\* with BugChecker's module, and exactly one does when Install reports success.
THEOREM OneEntryOnly ==
    InstallSpec => []InstallOneEntry
<1>1. Entries => InstallOneEntry
    <2> SUFFICES ASSUME Entries PROVE InstallOneEntry
        OBVIOUS
    <2> DEFINE es == ini.entries
               ours == {i \in DOMAIN es : es[i].debug /\ es[i].kd = fp}
    <2>1. es \in Seq(GoodEntry(fp)) /\ AtMostOne(fp, es)
        BY DEF Entries, Good
    <2>2. ours = {i \in 1 .. Len(es) : Debugs(fp, es[i])}
        BY <2>1 DEF Debugs
    <2>3. \A i, j \in ours : i = j
        BY <2>1, <2>2, SMTT(30) DEF AtMostOne
    <2>4. step = "success" => short \/ (ours # {} /\ dll[fp] = Ours)
        BY <2>2 DEF Entries, Has, Early
    <2>5. Cardinality(ours) = IF ours = {} THEN 0 ELSE 1
        <3> HIDE DEF ours
        <3>1. CASE ours = {}
            BY <3>1, FS_EmptySet
        <3>2. CASE ours # {}
            <4>1. PICK x : ours = {x}
                BY <2>3, <3>2
            <4> QED
                BY <3>2, <4>1, FS_Singleton, Zenon
        <3> QED
            BY <3>1, <3>2
    <2>6. InstallOneEntry <=> /\ Cardinality(ours) <= 1
                              /\ step = "success" => short \/ (Cardinality(ours) = 1 /\ dll[fp] = Ours)
        BY Zenon DEF InstallOneEntry
    <2> HIDE DEF ours
    <2> QED
        BY <2>4, <2>5, <2>6
<1> QED
    BY <1>1, EntriesInv, PTL
=============================================================================
