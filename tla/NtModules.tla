------------------------------ MODULE NtModules ------------------------------
(***************************************************************************)
(* Root::NtModules, BugChecker's list of the modules of every process      *)
(* (BugChecker/Platform.cpp).  It is filled by a snapshot when the driver  *)
(* is loaded, then kept up to date by the notify routines for images and   *)
(* processes, on any processor, under DebuggerLock with interrupts         *)
(* disabled.  The debugger reads it in its sessions, without the lock,     *)
(* when KD has frozen all processors; it keeps the list of the kernel's    *)
(* images itself (module KernelModules).                                   *)
(*                                                                         *)
(* The system around it is external: a thread maps an image, which calls   *)
(* the notify routine, and only then links it into the list of its process *)
(* that EnumUserModules walks.                                             *)
(***************************************************************************)
EXTENDS Naturals

CONSTANTS Threads,    \* threads that load and unload modules
          Procs,      \* EPROCESS addresses
          Groupings,  \* which process each thread may belong to
          Mods,       \* modules of processes, each at its own base
          MayLoad     \* the modules each process may load

ASSUME NtModulesAssumption ==
    /\ Groupings \subseteq [Threads -> Procs]
    /\ MayLoad \in [Procs -> SUBSET Mods]

VARIABLES
    ProcOf,          \* the process of each thread
    drv, todo,       \* the driver; the processes its snapshot has still to visit
    notify,          \* the notify routines that are registered
    mods,            \* Root::NtModules: how many entries each list has for a module
    lock,            \* Root::DebuggerLock.state
    at, image, seen, \* per thread: place in the code, ImageInfo, loadedMods
    mapped, linked,  \* per process: its images, and the list of its loader
    kd, frozen,      \* "off", "freezing" or "on"; the threads KD has frozen
    missed,          \* history: the images no routine was told of, or without name
    ever,            \* history: the images mapped since the process began
    untold           \* history: the processes that began without a told exit

lists  == <<mods, missed, ever, untold>>
past   == <<missed, ever, untold>>
system == <<mapped, linked>>
vars   == <<ProcOf, drv, todo, notify, lists, lock, at, image, seen, system, kd, frozen>>

NoModules == [m \in Mods |-> 0]

Init ==
    /\ ProcOf \in Groupings
    /\ drv = "snapshot" /\ todo = Procs /\ notify = {}
    /\ mods = [p \in Procs |-> NoModules]
    /\ missed = [p \in Procs |-> {}] /\ ever = [p \in Procs |-> {}]
    /\ untold = {}
    /\ lock = 0
    /\ at = [t \in Threads |-> "out"]
    /\ image = [t \in Threads |-> "none"] /\ seen = [t \in Threads |-> {}]
    /\ mapped = [p \in Procs |-> {}] /\ linked = [p \in Procs |-> {}]
    /\ kd = "off" /\ frozen = {}

Runs(t) == t \notin frozen

Go(t, to) == at' = [at EXCEPT ![t] = to]

\* No thread of the process is in the notify routine for its exit.
Alive(p) == \A t \in Threads : ProcOf[t] = p => at[t] \notin {"exit", "exiting"}

-----------------------------------------------------------------------------
(* Threads of the system, and the notify routines they call.                *)

\* Variant: ImageInfo is not taken over.
MapImage_NoInfo(t, m) ==
    LET p == ProcOf[t] IN
    /\ Runs(t) /\ at[t] = "out" /\ Alive(p) /\ m \notin mapped[p]
    /\ mapped' = [mapped EXCEPT ![p] = @ \cup {m}]
    /\ Go(t, IF "image" \in notify THEN "enum" ELSE "link")
    /\ ever' = [ever EXCEPT ![p] = @ \cup {m}]
    /\ UNCHANGED <<ProcOf, drv, todo, notify, mods, missed, untold, lock, image, seen,
                   linked, kd, frozen>>

\* An image is mapped; the kernel calls LoadImageNotifyRoutine.
MapImage(t, m) ==
    LET p == ProcOf[t] IN
    /\ Runs(t) /\ at[t] = "out" /\ Alive(p) /\ m \notin mapped[p]
    /\ mapped' = [mapped EXCEPT ![p] = @ \cup {m}]
    /\ image' = [image EXCEPT ![t] = m]
    /\ Go(t, IF "image" \in notify THEN "enum" ELSE "link")
    /\ missed' = [missed EXCEPT ![p] = IF "image" \in notify THEN @ \ {m}
                                                             ELSE @ \cup {m}]
    /\ ever' = [ever EXCEPT ![p] = @ \cup {m}]
    /\ UNCHANGED <<ProcOf, drv, todo, notify, mods, untold, lock, seen, linked, kd, frozen>>

\* EnumUserModules, before the lock is taken.
EnumUserModules(t) ==
    /\ Runs(t) /\ at[t] = "enum"
    /\ seen' = [seen EXCEPT ![t] = linked[ProcOf[t]]]
    /\ Go(t, "spin")
    /\ UNCHANGED <<ProcOf, drv, todo, notify, lists, lock, image, system, kd, frozen>>

\* There is neither a name of the image nor of its pdb file, or its process is not
\* found.
NoName(t) ==
    /\ Runs(t) /\ at[t] = "enum"
    /\ missed' = [missed EXCEPT ![ProcOf[t]] = @ \cup {image[t]}]
    /\ Go(t, "link")
    /\ UNCHANGED <<ProcOf, drv, todo, notify, mods, ever, untold, lock, image, seen,
                   system, kd, frozen>>

\* The constructor of NtModulesAccess(TRUE).
Lock(t) ==
    /\ Runs(t) /\ at[t] \in {"spin", "exit"}
    /\ lock = 0
    /\ lock' = 1
    /\ Go(t, IF at[t] = "spin" THEN "erase" ELSE "exiting")
    /\ UNCHANGED <<ProcOf, drv, todo, notify, lists, image, seen, system, kd, frozen>>

\* Variant: the modules that are found are erased.
StillLoaded_Inverted(t) ==
    [m \in Mods |-> IF m \notin seen[t] THEN mods[ProcOf[t]][m] ELSE 0]

\* Variant: no module is erased.
StillLoaded_All(t) == mods[ProcOf[t]]

\* Variant: the loop ends before the first module.
StillLoaded_KeepsFirst(t) ==
    [m \in Mods |-> IF \/ m \in seen[t]
                       \/ m = CHOOSE n \in Mods :
                                 mods[ProcOf[t]] # NoModules => mods[ProcOf[t]][n] > 0
                     THEN mods[ProcOf[t]][m] ELSE 0]

\* The modules of the process that are kept.
StillLoaded(t) == [m \in Mods |-> IF m \in seen[t] THEN mods[ProcOf[t]][m] ELSE 0]

\* "remove the unloaded modules."
EraseUnloaded(t) ==
    /\ Runs(t) /\ at[t] = "erase"
    /\ mods' = [mods EXCEPT ![ProcOf[t]] = StillLoaded(t)]
    /\ Go(t, "push")
    /\ UNCHANGED <<ProcOf, drv, todo, notify, past, lock, image, seen, system, kd, frozen>>

\* Variant: the lock is not given back.
PushModule_KeepsLock(t) ==
    /\ Runs(t) /\ at[t] = "push"
    /\ mods' = [mods EXCEPT ![ProcOf[t]][image[t]] = @ + 1]
    /\ Go(t, "link")
    /\ UNCHANGED <<ProcOf, drv, todo, notify, past, lock, image, seen, system, kd, frozen>>

\* "add the new module.", and the destructor of NtModulesAccess.
PushModule(t) ==
    /\ Runs(t) /\ at[t] = "push"
    /\ mods' = [mods EXCEPT ![ProcOf[t]][image[t]] = @ + 1]
    /\ lock' = 0
    /\ Go(t, "link")
    /\ UNCHANGED <<ProcOf, drv, todo, notify, past, image, seen, system, kd, frozen>>

\* The loader links the image, or gives up and unmaps it.
LinkImage(t) ==
    LET p == ProcOf[t] IN
    /\ Runs(t) /\ at[t] = "link"
    /\ \/ /\ linked' = [linked EXCEPT ![p] = @ \cup {image[t]}]
          /\ UNCHANGED mapped
       \/ /\ mapped' = [mapped EXCEPT ![p] = @ \ {image[t]}]
          /\ UNCHANGED linked
    /\ image' = [image EXCEPT ![t] = "none"]
    /\ seen' = [seen EXCEPT ![t] = {}]
    /\ Go(t, "out")
    /\ UNCHANGED <<ProcOf, drv, todo, notify, lists, lock, kd, frozen>>

UnloadImage(t, m) ==
    LET p == ProcOf[t] IN
    /\ Runs(t) /\ at[t] = "out" /\ Alive(p) /\ m \in linked[p]
    /\ linked' = [linked EXCEPT ![p] = @ \ {m}]
    /\ mapped' = [mapped EXCEPT ![p] = @ \ {m}]
    /\ UNCHANGED <<ProcOf, drv, todo, notify, lists, lock, at, image, seen, kd, frozen>>

\* The snapshot also meets a process that begins while it runs, once in the model.
Revisited(p) == drv = "snapshot" /\ p \notin untold

\* The last thread of a process ends; its EPROCESS is used again for the next
\* process when the routines have been called.  No routine is told when none is
\* registered, or when PsLookupProcessByProcessId does not find the process.
ExitProcess(t) ==
    LET p == ProcOf[t] IN
    /\ Runs(t) /\ \A u \in Threads : ProcOf[u] = p => at[u] = "out"
    /\ mapped' = [mapped EXCEPT ![p] = {}]
    /\ linked' = [linked EXCEPT ![p] = {}]
    /\ missed' = [missed EXCEPT ![p] = {}]
    /\ ever' = [ever EXCEPT ![p] = {}]
    /\ \/ /\ "process" \in notify
          /\ Go(t, "exit")
          /\ UNCHANGED <<todo, untold>>
       \/ /\ untold' = untold \cup {p}
          /\ todo' \in {todo \ {p}, IF Revisited(p) THEN todo \cup {p} ELSE todo \ {p}}
          /\ UNCHANGED at
    /\ UNCHANGED <<ProcOf, drv, notify, mods, lock, image, seen, kd, frozen>>

\* Variant: the routine leaves the modules of the process.
EraseProcess_KeepsModules(t) ==
    /\ Runs(t) /\ at[t] = "exiting"
    /\ untold' = untold \ {ProcOf[t]}
    /\ lock' = 0
    /\ Go(t, "out")
    /\ UNCHANGED <<ProcOf, drv, todo, notify, mods, missed, ever, image, seen, system,
                   kd, frozen>>

\* CreateProcessNotifyRoutine under the lock.
EraseProcess(t) ==
    /\ Runs(t) /\ at[t] = "exiting"
    /\ mods' = [mods EXCEPT ![ProcOf[t]] = NoModules]
    /\ untold' = untold \ {ProcOf[t]}
    /\ lock' = 0
    /\ Go(t, "out")
    /\ UNCHANGED <<ProcOf, drv, todo, notify, missed, ever, image, seen, system, kd, frozen>>

-----------------------------------------------------------------------------
(* DriverEntry and DrvUnload.                                               *)

others == <<at, image, seen, system, kd, frozen>>

\* GetModulesSnapshot: the visit of one process.
Snapshot(p) ==
    /\ drv = "snapshot" /\ kd # "on" /\ p \in todo
    /\ mods' = [mods EXCEPT ![p] = [m \in Mods |-> IF m \in linked[p] THEN @[m] + 1
                                                                    ELSE @[m]]]
    /\ missed' = [missed EXCEPT ![p] = @ \ linked[p]]
    /\ todo' = todo \ {p}
    /\ UNCHANGED <<ProcOf, drv, notify, ever, untold, lock, others>>

\* PsSetCreateProcessNotifyRoutine, then PsSetLoadImageNotifyRoutine; DriverEntry
\* goes on when one fails.
Register(which, to) ==
    /\ kd # "on"
    /\ notify' \in {notify, notify \cup {which}}
    /\ drv' = to
    /\ UNCHANGED <<ProcOf, todo, lists, lock, others>>

DriverEntry ==
    \/ drv = "snapshot" /\ todo = {} /\ Register("process", "registering")
    \/ drv = "registering" /\ Register("image", "running")

\* DrvUnload: the system waits for the routines that are running.
Unregister(which, busy) ==
    /\ kd # "on"
    /\ which \in notify /\ \A t \in Threads : at[t] \notin busy
    /\ notify' = notify \ {which}
    /\ drv' = "unloading"
    /\ UNCHANGED <<ProcOf, todo, lists, lock, others>>

DrvUnload ==
    \/ drv = "running" /\ Unregister("process", {"exit", "exiting"})
    \/ /\ drv \in {"running", "unloading"} /\ "process" \notin notify
       /\ Unregister("image", {"enum", "spin", "erase", "push"})

-----------------------------------------------------------------------------
(* KD and the debugger.                                                     *)

\* Variant: the lock leaves interrupts enabled.
Interruptible_Always(t) == TRUE

\* KD freezes a processor by an interrupt, which DebuggerLock.Lock disables before
\* it spins and Unlock enables again.
Interruptible(t) == at[t] \notin {"spin", "erase", "push", "exit", "exiting"}

Break ==
    /\ kd = "off"
    /\ kd' = "freezing"
    /\ UNCHANGED <<ProcOf, drv, todo, notify, lists, lock, at, image, seen, system, frozen>>

Freeze(t) ==
    /\ kd = "freezing" /\ Runs(t) /\ Interruptible(t)
    /\ frozen' = frozen \cup {t}
    /\ UNCHANGED <<ProcOf, drv, todo, notify, lists, lock, at, image, seen, system, kd>>

StartSession ==
    /\ kd = "freezing" /\ frozen = Threads
    /\ kd' = "on"
    /\ UNCHANGED <<ProcOf, drv, todo, notify, lists, lock, at, image, seen, system, frozen>>

EndSession ==
    /\ kd = "on"
    /\ kd' = "off" /\ frozen' = {}
    /\ UNCHANGED <<ProcOf, drv, todo, notify, lists, lock, at, image, seen, system>>

-----------------------------------------------------------------------------
Step(t) ==
    \/ EnumUserModules(t) \/ NoName(t)
    \/ Lock(t)
    \/ EraseUnloaded(t)
    \/ PushModule(t)
    \/ LinkImage(t)
    \/ EraseProcess(t)

Next ==
    \/ \E t \in Threads :
          \/ \E m \in MayLoad[ProcOf[t]] : MapImage(t, m) \/ UnloadImage(t, m)
          \/ ExitProcess(t)
          \/ Step(t)
          \/ Freeze(t)
    \/ \E p \in Procs : Snapshot(p)
    \/ DriverEntry
    \/ DrvUnload
    \/ Break
    \/ StartSession
    \/ EndSession

Spec == Init /\ [][Next]_vars

\* Processors run; one of those that spin gets the lock; KD sends its interrupt
\* again until every processor has taken it.
FairSpec ==
    /\ Spec
    /\ \A t \in Threads : /\ SF_vars(Lock(t))
                          /\ WF_vars(EraseUnloaded(t) \/ PushModule(t) \/ EraseProcess(t))
                          /\ SF_vars(Freeze(t))
    /\ WF_vars(StartSession)

-----------------------------------------------------------------------------
(* Properties.                                                              *)

\* The variables hold what the code's types allow: the list of a process holds
\* images that were given to a routine.
TypeOK ==
    /\ ProcOf \in Groupings
    /\ drv \in {"snapshot", "registering", "running", "unloading"}
    /\ todo \subseteq Procs /\ untold \subseteq Procs
    /\ notify \subseteq {"process", "image"}
    /\ mods \in [Procs -> [Mods -> Nat]]
    /\ lock \in {0, 1}
    /\ at \in [Threads -> {"out", "enum", "spin", "erase", "push", "link", "exit",
                           "exiting"}]
    /\ image \in [Threads -> Mods \cup {"none"}]
    /\ seen \in [Threads -> SUBSET Mods]
    /\ {mapped, linked, missed, ever} \subseteq [Procs -> SUBSET Mods]
    /\ kd \in {"off", "freezing", "on"} /\ frozen \subseteq Threads

\* NtModulesAccess(FALSE) in a session takes no lock: no notify routine was frozen
\* in the middle of an update, so that the session never finds a torn list.
SessionFindsWholeList ==
    kd = "on" => lock = 0 /\ \A t \in Threads : at[t] \notin {"erase", "push", "exiting"}

SingleLoader(p) == \A t, u \in Threads : ProcOf[t] = p /\ ProcOf[u] = p => t = u

Listed(p) == {m \in Mods : mods[p][m] > 0}

\* In a process whose modules are loaded by one thread at a time, a module that is
\* loaded, and that a routine or the snapshot saw, is in the list at every moment:
\* the routine never removes a loaded module as one of "the unloaded modules".
NoneMissing ==
    \A p \in Procs : SingleLoader(p) => linked[p] \ missed[p] \subseteq Listed(p)

\* LoadImageNotifyRoutine pushes without looking for the base in the list: even so
\* no list holds a base twice, in whatever order the routines of threads of the
\* same process enumerate and update.
OncePerBase == \A p \in Procs \ untold : \A m \in Mods : mods[p][m] <= 1

\* An EPROCESS is used again after its process has exited: the list under its
\* address holds only images mapped in the process that has it now, outside of the
\* notify routine for the exit.
FromThisProcess ==
    \A p \in Procs \ untold : Alive(p) => Listed(p) \subseteq ever[p]

\* "remove the unloaded modules.": when a routine leaves, the list of a process with
\* one loading thread has its loaded modules and the new one, and no other.
UnloadedAreRemoved ==
    [][\A t \in Threads : at[t] = "push" /\ at'[t] = "link" /\ SingleLoader(ProcOf[t])
          => Listed(ProcOf[t])' \subseteq linked[ProcOf[t]] \cup {image[t]}]_vars

\* Spinning with interrupts disabled never keeps KD from freezing every processor:
\* a session that was asked for starts.
EventuallyFrozen == kd = "freezing" ~> kd = "on"

\* The list of a process is what its threads and the driver together have made of it: no
\* loaded module is missing, none is in it twice, and none is of an earlier process with
\* the same EPROCESS.
ListsRight == TypeOK /\ NoneMissing /\ OncePerBase /\ FromThisProcess
=============================================================================
