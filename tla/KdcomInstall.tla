---------------------------- MODULE KdcomInstall ----------------------------
(***************************************************************************)
(* KdcomInstall::Install of Symbol Loader: it puts BugChecker's KDCOM into *)
(* System32 and adds a boot entry that uses it.  On Windows 10 and later   *)
(* the module takes the place of kdcom.dll, which is renamed to            *)
(* kdcom_old.dll, kdcom_old_2.dll, ...; before, it is a file of its own,   *)
(* kdbc.dll.  The boot entries are objects of the BCD store, where every   *)
(* change is permanent at once, or lines of boot.ini on Windows XP, which  *)
(* is replaced by a new file.                                              *)
(*                                                                         *)
(* Every step may fail, and the machine may stop between any two of them.  *)
(* Afterwards Install can be started again, and Windows Update may bring   *)
(* another kdcom.dll.                                                      *)
(***************************************************************************)
EXTENDS Integers, Sequences, FiniteSets

CONSTANTS Systems,      \* the versions of Windows, out of "xp", "vista", "win10"
          Stores,       \* the boot entries there may be at the beginning
          MaxBackups,   \* bound of the files kdcom_old*.dll
          MaxVersion,   \* bound of the updates of kdcom.dll
          MaxEntries    \* bound of the boot entries

VARIABLES os,           \* the version of Windows
          dll,          \* what kdcom.dll and kdbc.dll are
          old,          \* what kdcom_old.dll, kdcom_old_2.dll, ... are
          version,      \* history: the newest kdcom.dll that Windows has brought
          ini,          \* the BCD store or boot.ini
          bak, tmp,     \* boot.bak and boot.ini.tmpXXXX
          step,           \* the next step of Install
          edit,         \* m_OSEntries of the editor of boot.ini
          cur,          \* index of pEntry
          short         \* history: a write to the new boot.ini has failed

files == <<dll, old, version>>
boot  == <<ini, bak, tmp, short>>
installVars == <<os, files, boot, step, edit, cur>>

\* What a file may be besides a version of Windows' own kdcom.dll.
None   == 0
Ours   == -1
Broken == -2
Backups == 1 .. MaxBackups
Dlls    == {"kdcom.dll", "kdbc.dll"}

\* A boot entry: whether it starts this Windows, was made by Install, debugs, and
\* with which module.
Entry == [mine : BOOLEAN, new : BOOLEAN, debug : BOOLEAN, kd : Dlls \cup {"none"}]

\* Before the first installation the entries are Windows' own.
ASSUME InstallAssumption ==
    /\ MaxBackups \in Nat \ {0}
    /\ Stores \subseteq Seq({e \in Entry : ~e.new /\ e.kd = "none"})

NoFile    == [entries |-> << >>, whole |-> FALSE]
Whole(es) == [entries |-> es, whole |-> TRUE]

InstallInit ==
    /\ os \in Systems
    /\ version = 1 /\ dll = [f \in Dlls |-> IF f = "kdcom.dll" THEN 1 ELSE None]
    /\ old = [b \in Backups |-> None]
    /\ \E es \in Stores : ini = Whole(es)
    /\ bak = NoFile /\ tmp = NoFile /\ short = FALSE
    /\ step = "idle" /\ edit = << >> /\ cur = 0

replaceKdcom == os = "win10"
fp == IF replaceKdcom THEN "kdcom.dll" ELSE "kdbc.dll"

kdcomBackup_First == 1

\* The first of the names kdcom_old*.dll that is not in use.
kdcomBackup == CHOOSE b \in Backups : old[b] = None /\ \A c \in 1 .. b - 1 : old[c] # None

Goto(p) == step' = p

EndInstall == Goto("idle") /\ edit' = << >> /\ cur' = 0

\* A step fails, which is shown in a message box.
Failed(p) == step = p /\ EndInstall /\ UNCHANGED <<os, files, boot>>

-----------------------------------------------------------------------------
(* The files.                                                               *)

\* The user clicks; kdbc_XXbit.dll is there and valid.
StartInstall ==
    /\ step = "idle" /\ old[MaxBackups] = None /\ Len(ini.entries) < MaxEntries
    /\ Goto(IF replaceKdcom THEN "own" ELSE "copy")
    /\ UNCHANGED <<os, files, boot, edit, cur>>

\* TakeOwnership and the DACL of the present file, which must exist.
Own ==
    /\ step = "own" /\ dll[fp] # None
    /\ Goto("move")
    /\ UNCHANGED <<os, files, boot, edit, cur>>

Move ==
    /\ step = "move"
    /\ old' = [old EXCEPT ![kdcomBackup] = dll[fp]]
    /\ dll' = [dll EXCEPT ![fp] = None]
    /\ Goto("copy")
    /\ UNCHANGED <<os, version, boot, edit, cur>>

Copy ==
    /\ step = "copy"
    /\ dll' = [dll EXCEPT ![fp] = Ours]
    /\ Goto("find")
    /\ UNCHANGED <<os, old, version, boot, edit, cur>>

-----------------------------------------------------------------------------
(* The boot entry: CreateVirtualKDBootEntry.                                *)

IsXp == os = "xp"

\* The entries as the editor has them.
entries == IF IsXp THEN edit ELSE ini.entries

Custom_Enabled(e) == e.debug

\* GetDebuggerMode is kdCustom, and the module is BugChecker's.
Custom(e) == e.debug /\ e.kd \in Dlls /\ dll[e.kd] = Ours

\* FindBestOSEntry: BugChecker's entry of this Windows, or the first one of it.
Best(es) ==
    LET mine   == {i \in DOMAIN es : es[i].mine}
        custom == {i \in mine : Custom(es[i])}
        least(S) == CHOOSE i \in S : \A j \in S : i <= j
    IN  IF custom # {} THEN least(custom) ELSE IF mine # {} THEN least(mine) ELSE 0

\* CreateConfigurationEditor reads boot.ini, which must be there with an entry.
\* ExplicitlyDisableDebugging and CopyEntry follow, unless the entry is already
\* BugChecker's.
Find ==
    /\ step = "find"
    /\ ini.entries # << >> /\ Best(ini.entries) # 0
    /\ cur' = Best(ini.entries)
    /\ edit' = IF IsXp THEN ini.entries ELSE << >>
    /\ Goto(IF Custom(ini.entries[cur']) THEN "transport" ELSE "disable")
    /\ UNCHANGED <<os, files, boot>>

\* Writes the entries of the editor of boot.ini to memory, those of the store to
\* the disk.
Store(es) ==
    IF IsXp THEN edit' = es /\ UNCHANGED ini
    ELSE ini' = Whole(es) /\ UNCHANGED edit

\* ExplicitlyDisableDebugging: its result is not looked at; boot.ini needs none.
Disable ==
    /\ step = "disable"
    /\ \/ ~IsXp /\ Store([entries EXCEPT ![cur].debug = FALSE])
       \/ UNCHANGED <<edit, ini>>
    /\ Goto("entry")
    /\ UNCHANGED <<os, files, bak, tmp, short, cur>>

\* CopyEntry.  The place of the copy among the objects of the store is not known,
\* and inserting it in the list of the boot menu may fail.
CopyEntry ==
    /\ step = "entry"
    /\ \E i \in (IF IsXp THEN {Len(entries) + 1} ELSE 1 .. Len(entries) + 1) :
          /\ Store(SubSeq(entries, 1, i - 1) \o <<[entries[cur] EXCEPT !.new = TRUE]>>
                     \o SubSeq(entries, i, Len(entries)))
          /\ \/ Goto("transport") /\ cur' = i
             \/ ~IsXp /\ Goto("idle") /\ cur' = 0
    /\ UNCHANGED <<os, files, bak, tmp, short>>

EnableTransport_Kdcom ==
    /\ step = "transport"
    /\ Store([entries EXCEPT ![cur].kd = "kdcom.dll"])
    /\ Goto("enable")
    /\ UNCHANGED <<os, files, bak, tmp, short, cur>>

\* EnableCustomKD: the name of the module, the permission for test signatures and
\* the switch, one after the other.
EnableTransport ==
    /\ step = "transport"
    /\ Store([entries EXCEPT ![cur].kd = fp])
    /\ Goto("enable")
    /\ UNCHANGED <<os, files, bak, tmp, short, cur>>

EnableDebugger ==
    /\ step = "enable"
    /\ Store([entries EXCEPT ![cur].debug = TRUE])
    /\ Goto("rest")
    /\ UNCHANGED <<os, files, bak, tmp, short, cur>>

\* The settings of Windows 8, the description and the timeout.
SetRest ==
    /\ step = "rest"
    /\ Goto(IF IsXp THEN "write" ELSE "success")
    /\ UNCHANGED <<os, files, boot, edit, cur>>

-----------------------------------------------------------------------------
(* FinishEditing of the editor of boot.ini.                                 *)

\* The new file.  After a write that fails the list of changes is deleted twice,
\* which ends the process or goes unnoticed; the rest of the old lines is left out.
\* The new entry is written last, and nobody looks whether it was.
WriteTmp ==
    /\ step = "write"
    /\ \/ tmp' = Whole(edit) /\ Goto("delete") /\ UNCHANGED <<short, edit, cur>>
       \/ /\ \E n \in 0 .. Len(ini.entries),
                new \in {<< >>, SubSeq(edit, Len(ini.entries) + 1, Len(edit))} :
                tmp' = [entries |-> SubSeq(edit, 1, n) \o new, whole |-> FALSE]
          /\ short' = TRUE
          /\ \/ Goto("delete") /\ UNCHANGED <<edit, cur>>
             \/ EndInstall
    /\ UNCHANGED <<os, files, ini, bak>>

DeleteBak_Ini ==
    /\ step = "delete"
    /\ bak' = NoFile /\ ini' = NoFile
    /\ Goto("backup")
    /\ UNCHANGED <<os, files, tmp, short, edit, cur>>

\* boot.bak is deleted, if it can be, and then boot.ini is renamed to it.
DeleteBak ==
    /\ step = "delete"
    /\ bak' \in {NoFile, bak}
    /\ Goto("backup")
    /\ UNCHANGED <<os, files, ini, tmp, short, edit, cur>>

MoveIni ==
    /\ step = "backup"
    /\ \/ /\ bak = NoFile /\ bak' = ini /\ ini' = NoFile
          /\ Goto("replace") /\ UNCHANGED <<tmp, edit, cur>>
       \/ tmp' = NoFile /\ EndInstall /\ UNCHANGED <<ini, bak>>
    /\ UNCHANGED <<os, files, short>>

\* If the new file cannot be renamed, the old one gets its name back, unless that
\* fails, too.
MoveTmp ==
    /\ step = "replace"
    /\ tmp' = NoFile
    /\ \/ ini' = tmp /\ Goto("success") /\ UNCHANGED <<bak, edit, cur>>
       \/ ini' = bak /\ bak' = NoFile /\ EndInstall
       \/ EndInstall /\ UNCHANGED <<ini, bak>>
    /\ UNCHANGED <<os, files, short>>

\* "Operation completed successfully."
Success == step = "success" /\ EndInstall /\ UNCHANGED <<os, files, boot>>

-----------------------------------------------------------------------------
(* What is not Install.                                                     *)

\* The machine stops, maybe in the middle of the copy, and is started again.
Crash ==
    /\ step # "idle" /\ EndInstall
    /\ \/ UNCHANGED dll
       \/ step = "copy" /\ \E c \in {None, Broken} : dll' = [dll EXCEPT ![fp] = c]
    /\ UNCHANGED <<os, old, version, boot>>

\* "sometimes Windows Update replaces KDCOM.DLL with a newer version".
WindowsUpdate ==
    /\ step = "idle" /\ version < MaxVersion
    /\ version' = version + 1
    /\ dll' = [dll EXCEPT !["kdcom.dll"] = version + 1]
    /\ UNCHANGED <<os, old, boot, step, edit, cur>>

Steps == {"own", "move", "copy", "find", "transport", "enable", "rest", "entry", "write"}

InstallNext ==
    \/ StartInstall \/ Own \/ Move \/ Copy
    \/ Find \/ Disable \/ CopyEntry \/ EnableTransport \/ EnableDebugger \/ SetRest
    \/ WriteTmp \/ DeleteBak \/ MoveIni \/ MoveTmp \/ Success
    \/ \E p \in Steps : Failed(p)
    \/ Crash \/ WindowsUpdate

InstallSpec == InstallInit /\ [][InstallNext]_installVars

-----------------------------------------------------------------------------
(* Properties.                                                              *)

\* The newest kdcom.dll of Windows is never lost: it is still kdcom.dll, or one of
\* the backups, however often Install was run, failed or was cut short.
KdcomKept == dll["kdcom.dll"] = version \/ \E b \in Backups : old[b] = version

\* The user can always start Windows without BugChecker: Install changes only its
\* own entries, also those that an earlier one has left unfinished.
OwnEntriesOnly ==
    \A es \in {ini.entries, bak.entries, edit} :
        \A i \in DOMAIN es : es[i].new \/ es[i].kd = "none"

\* Wherever FinishEditing is stopped, a complete boot.ini or boot.bak is there,
\* unless a write to the new file has failed.
BootIniKept == short \/ ini.whole \/ bak.whole

\* What Install never does to Windows, wherever it fails or is cut short.
InstallKeepsWindows == KdcomKept /\ OwnEntriesOnly /\ BootIniKept

\* Repeated and failed installations add up to one entry that debugs with
\* BugChecker's module at most, and to exactly one when Install reports success.
InstallOneEntry ==
    LET ours == {i \in DOMAIN ini.entries : ini.entries[i].debug /\ ini.entries[i].kd = fp}
    IN  /\ Cardinality(ours) <= 1
        /\ step = "success" => short \/ (Cardinality(ours) = 1 /\ dll[fp] = Ours)
=============================================================================
