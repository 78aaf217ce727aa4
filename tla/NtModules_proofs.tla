-------------------------- MODULE NtModules_proofs --------------------------
(***************************************************************************)
(* Proofs about NtModules, for any number of threads, processes and        *)
(* modules: a session, which takes no lock, finds no list in the middle of *)
(* an update, and the lists hold what is loaded.                           *)
(***************************************************************************)
EXTENDS NtModules, TLAPS

Places == {"out", "enum", "spin", "erase", "push", "link", "exit", "exiting"}

Types ==
    /\ at \in [Threads -> Places]
    /\ lock \in {0, 1}
    /\ kd \in {"off", "freezing", "on"}
    /\ frozen \subseteq Threads

\* Inside of NtModulesAccess(TRUE), the lock taken.
Holds(t) == at[t] \in {"erase", "push", "exiting"}

\* The lock is held by one thread exactly if it is taken, ...
OneHolder ==
    /\ \A t \in Threads : Holds(t) => lock = 1
    /\ \A t, u \in Threads : Holds(t) /\ Holds(u) => t = u
    /\ lock = 1 => \E t \in Threads : Holds(t)

\* ... and KD has frozen threads only where interrupts are enabled.
FrozenOutside ==
    /\ \A t \in frozen : Interruptible(t)
    /\ kd = "on" => frozen = Threads

IInv == Types /\ OneHolder /\ FrozenOutside

\* A step that moves one running thread between places outside of the lock.
LEMMA MoveOutside ==
    ASSUME IInv, NEW t \in Threads, NEW to \in Places, Runs(t), ~Holds(t),
           at' = [at EXCEPT ![t] = to], to \notin {"erase", "push", "exiting"},
           UNCHANGED <<lock, kd, frozen>>
    PROVE  IInv'
<1>1. Types'
    BY DEF IInv, Types
<1>2. OneHolder'
    BY DEF IInv, Types, OneHolder, Holds
<1>3. FrozenOutside'
    BY DEF IInv, Types, FrozenOutside, Interruptible, Runs
<1> QED
    BY <1>1, <1>2, <1>3 DEF IInv

\* The constructor of NtModulesAccess takes the lock only if nobody has it.
LEMMA LockKeeps ==
    ASSUME IInv, NEW t \in Threads, Lock(t)
    PROVE  IInv'
<1>1. PICK to \in {"erase", "exiting"} : at' = [at EXCEPT ![t] = to]
    BY Zenon DEF Lock, Go
<1>2. Types'
    BY <1>1 DEF IInv, Types, Lock, Places
<1>3. OneHolder'
    <2>1. \A u \in Threads : ~Holds(u)
        BY DEF IInv, OneHolder, Lock
    <2>2. \A u \in Threads : Holds(u)' => u = t
        BY <1>1, <2>1 DEF IInv, Types, Holds
    <2>3. Holds(t)' /\ lock' = 1
        BY <1>1 DEF IInv, Types, Holds, Lock
    <2> QED
        BY <2>2, <2>3 DEF OneHolder
<1>4. FrozenOutside'
    BY <1>1 DEF IInv, Types, FrozenOutside, Interruptible, Runs, Lock
<1> QED
    BY <1>2, <1>3, <1>4 DEF IInv

\* The holder goes on from erasing to pushing.
LEMMA EraseKeeps ==
    ASSUME IInv, NEW t \in Threads, EraseUnloaded(t)
    PROVE  IInv'
<1>1. at' = [at EXCEPT ![t] = "push"] /\ Holds(t) /\ Runs(t) /\ UNCHANGED <<lock, kd, frozen>>
    BY DEF EraseUnloaded, Go, Holds
<1>2. Types'
    BY <1>1 DEF IInv, Types, Places
<1>3. OneHolder'
    <2>1. \A u \in Threads : Holds(u)' <=> Holds(u)
        BY <1>1 DEF IInv, Types, Holds
    <2> QED
        BY <1>1, <2>1 DEF IInv, OneHolder
<1>4. FrozenOutside'
    BY <1>1 DEF IInv, Types, FrozenOutside, Interruptible, Runs
<1> QED
    BY <1>2, <1>3, <1>4 DEF IInv

\* The destructor of NtModulesAccess: the only holder gives the lock back.
LEMMA UnlockKeeps ==
    ASSUME IInv, NEW t \in Threads, PushModule(t) \/ EraseProcess(t)
    PROVE  IInv'
<1>1. PICK to \in {"link", "out"} : at' = [at EXCEPT ![t] = to]
    BY DEF PushModule, EraseProcess, Go
<1>2. Holds(t) /\ Runs(t) /\ lock' = 0 /\ UNCHANGED <<kd, frozen>>
    BY DEF PushModule, EraseProcess, Holds
<1>3. Types'
    BY <1>1, <1>2 DEF IInv, Types, Places
<1>4. OneHolder'
    <2>1. \A u \in Threads : ~Holds(u)'
        BY <1>1, <1>2 DEF IInv, Types, OneHolder, Holds
    <2> QED
        BY <1>2, <2>1 DEF OneHolder
<1>5. FrozenOutside'
    BY <1>1, <1>2 DEF IInv, Types, FrozenOutside, Interruptible, Runs
<1> QED
    BY <1>3, <1>4, <1>5 DEF IInv

\* Every step of a thread of the system keeps the invariant.
LEMMA ThreadKeeps ==
    ASSUME IInv, NEW t \in Threads,
           \/ \E m \in MayLoad[ProcOf[t]] : MapImage(t, m) \/ UnloadImage(t, m)
           \/ ExitProcess(t) \/ Step(t)
    PROVE  IInv'
<1>1. CASE \E m \in MayLoad[ProcOf[t]] : MapImage(t, m)
    <2>1. PICK to \in {"enum", "link"} : at' = [at EXCEPT ![t] = to]
        BY <1>1, ZenonT(30) DEF MapImage, Go
    <2>2. Runs(t) /\ ~Holds(t) /\ UNCHANGED <<lock, kd, frozen>>
        BY <1>1 DEF MapImage, Holds
    <2> QED
        BY <2>1, <2>2, MoveOutside, Zenon DEF Places
<1>2. CASE \E m \in MayLoad[ProcOf[t]] : UnloadImage(t, m)
    BY <1>2 DEF UnloadImage, IInv, Types, OneHolder, FrozenOutside, Holds, Interruptible
<1>3. CASE ExitProcess(t)
    <2>1. Runs(t) /\ ~Holds(t) /\ UNCHANGED <<lock, kd, frozen>>
        BY <1>3 DEF ExitProcess, Holds
    <2>2. CASE at' = [at EXCEPT ![t] = "exit"]
        BY <2>1, <2>2, MoveOutside, ZenonT(30) DEF Places
    <2>3. CASE UNCHANGED at
        BY <2>1, <2>3 DEF IInv, Types, OneHolder, FrozenOutside, Holds, Interruptible
    <2> QED
        BY <1>3, <2>2, <2>3, SMTT(30) DEF ExitProcess, Go
<1>4. CASE EnumUserModules(t) \/ NoName(t) \/ LinkImage(t)
    <2>1. PICK to \in {"spin", "link", "out"} : at' = [at EXCEPT ![t] = to]
        BY <1>4 DEF EnumUserModules, NoName, LinkImage, Go
    <2>2. Runs(t) /\ ~Holds(t) /\ UNCHANGED <<lock, kd, frozen>>
        BY <1>4 DEF EnumUserModules, NoName, LinkImage, Holds
    <2> QED
        BY <2>1, <2>2, MoveOutside, ZenonT(30) DEF Places
<1> QED
    BY <1>1, <1>2, <1>3, <1>4, LockKeeps, EraseKeeps, UnlockKeeps, SMTT(30) DEF Step

\* KD keeps it: it freezes a thread only where interrupts are enabled, and starts a
\* session when all of them are frozen.
LEMMA KdKeeps ==
    ASSUME IInv, Break \/ StartSession \/ EndSession \/ \E t \in Threads : Freeze(t)
    PROVE  IInv'
<1>1. UNCHANGED <<at, lock>>
    BY DEF Break, StartSession, EndSession, Freeze
<1>2. Types'
    BY <1>1 DEF IInv, Types, Break, StartSession, EndSession, Freeze
<1>3. OneHolder'
    BY <1>1 DEF IInv, OneHolder, Holds
<1>4. FrozenOutside'
    <2>1. CASE Break \/ EndSession
        BY <1>1, <2>1 DEF IInv, FrozenOutside, Interruptible, Break, EndSession
    <2>2. CASE StartSession
        BY <1>1, <2>2 DEF IInv, FrozenOutside, Interruptible, StartSession
    <2>3. CASE \E t \in Threads : Freeze(t)
        BY <1>1, <2>3 DEF IInv, FrozenOutside, Interruptible, Freeze
    <2> QED
        BY <2>1, <2>2, <2>3
<1> QED
    BY <1>2, <1>3, <1>4 DEF IInv

\* DriverEntry and DrvUnload do not touch the lock.
LEMMA DriverKeeps ==
    ASSUME IInv, DriverEntry \/ DrvUnload \/ \E p \in Procs : Snapshot(p)
    PROVE  IInv'
<1>1. UNCHANGED <<at, lock, kd, frozen>>
    BY DEF DriverEntry, DrvUnload, Snapshot, Register, Unregister, others
<1> QED
    BY <1>1 DEF IInv, Types, OneHolder, FrozenOutside, Holds, Interruptible

\* The lock's invariant holds at every moment.
LEMMA LockInv == Spec => []IInv
<1>1. Init => IInv
    BY DEF Init, IInv, Types, Places, OneHolder, FrozenOutside, Holds, Interruptible
<1>2. IInv /\ [Next]_vars => IInv'
    <2> SUFFICES ASSUME IInv, [Next]_vars PROVE IInv'
        OBVIOUS
    <2>1. CASE UNCHANGED vars
        BY <2>1 DEF vars, IInv, Types, OneHolder, FrozenOutside, Holds, Interruptible
    <2>2. CASE Next
        BY <2>2, ThreadKeeps, KdKeeps, DriverKeeps DEF Next
    <2> QED
        BY <2>1, <2>2
<1> QED
    BY <1>1, <1>2, PTL DEF Spec

\* NtModulesAccess(FALSE), in a session, needs no lock: KD freezes a processor only
\* where DebuggerLock has not disabled interrupts.
THEOREM NoTornList == Spec => []SessionFindsWholeList
<1>1. IInv => SessionFindsWholeList
    BY DEF IInv, Types, OneHolder, FrozenOutside, Holds, Interruptible, SessionFindsWholeList
<1> QED
    BY <1>1, LockInv, PTL

-----------------------------------------------------------------------------
(* What the lists hold.                                                     *)

\* The thread has mapped an image and the loader has not linked it yet.
InFlight(t) == at[t] \in {"enum", "spin", "erase", "push", "link"}

\* The images of a process: those that its threads are loading are mapped, not
\* linked, and different.
Loading ==
    /\ \A p \in Procs : linked[p] \subseteq mapped[p] /\ mapped[p] \subseteq ever[p]
    /\ \A t \in Threads : InFlight(t) =>
          image[t] \in Mods /\ image[t] \in mapped[ProcOf[t]] \ linked[ProcOf[t]]
    /\ \A t, u \in Threads :
          InFlight(t) /\ InFlight(u) /\ ProcOf[t] = ProcOf[u] /\ image[t] = image[u] => t = u

\* An exiting process has no images and no other thread in the system's loader.
Exiting ==
    \A t \in Threads : at[t] \in {"exit", "exiting"} =>
        /\ mapped[ProcOf[t]] = {}
        /\ \A u \in Threads : ProcOf[u] = ProcOf[t] /\ u # t => at[u] = "out"

\* No routine is called before the snapshot is complete; a process that it has yet
\* to visit has no list.
SnapshotFirst ==
    drv = "snapshot" =>
        /\ notify = {}
        /\ \A t \in Threads : at[t] \in {"out", "link"}
        /\ \A p \in todo \ untold : mods[p] = NoModules

\* Between EnumUserModules and the push, the new image is not among those that were
\* found, and once the unloaded ones are erased, not in the list.
NewIsNotListed ==
    \A t \in Threads :
        /\ at[t] \in {"spin", "erase", "push"} => image[t] \notin seen[t]
        /\ at[t] = "push" => mods[ProcOf[t]][image[t]] = 0

\* What a routine of the only loading thread of a process relies on: nobody else
\* changes the loader's list or BugChecker's.
AloneFindsAll ==
    \A t \in Threads : SingleLoader(ProcOf[t]) =>
        /\ at[t] \in {"spin", "erase", "push"} => seen[t] = linked[ProcOf[t]]
        /\ at[t] = "push" => Listed(ProcOf[t]) \subseteq linked[ProcOf[t]]
        /\ at[t] = "link" => image[t] \in missed[ProcOf[t]] \cup Listed(ProcOf[t])

LInv ==
    /\ TypeOK /\ Loading /\ Exiting /\ SnapshotFirst /\ NewIsNotListed
    /\ OncePerBase /\ FromThisProcess /\ AloneFindsAll /\ NoneMissing

\* What TypeOK says of the functions of threads and of processes.
LEMMA FunctionTypes ==
    ASSUME TypeOK
    PROVE  /\ ProcOf \in [Threads -> Procs] /\ mods \in [Procs -> [Mods -> Nat]]
           /\ at \in [Threads -> Places] /\ image \in [Threads -> Mods \cup {"none"}]
           /\ seen \in [Threads -> SUBSET Mods]
           /\ mapped \in [Procs -> SUBSET Mods] /\ linked \in [Procs -> SUBSET Mods]
           /\ missed \in [Procs -> SUBSET Mods] /\ ever \in [Procs -> SUBSET Mods]
           /\ todo \subseteq Procs /\ untold \subseteq Procs
           /\ lock \in {0, 1} /\ notify \subseteq {"process", "image"}
           /\ kd \in {"off", "freezing", "on"} /\ frozen \subseteq Threads
           /\ drv \in {"snapshot", "registering", "running", "unloading"}
BY NtModulesAssumption DEF TypeOK, Places

\* An image is mapped that no thread of the process has mapped yet.
LEMMA MapImageLists ==
    ASSUME IInv, LInv, NEW t \in Threads, NEW m \in MayLoad[ProcOf[t]], MapImage(t, m)
    PROVE  LInv'
<1> USE DEF LInv
<1> /\ ProcOf \in [Threads -> Procs] /\ at \in [Threads -> Places]
    /\ image \in [Threads -> Mods \cup {"none"}] /\ seen \in [Threads -> SUBSET Mods]
    BY FunctionTypes
<1> /\ mods \in [Procs -> [Mods -> Nat]] /\ mapped \in [Procs -> SUBSET Mods]
    /\ linked \in [Procs -> SUBSET Mods] /\ missed \in [Procs -> SUBSET Mods]
    /\ ever \in [Procs -> SUBSET Mods]
    BY FunctionTypes
<1> todo \subseteq Procs /\ untold \subseteq Procs /\ frozen \subseteq Threads
    BY FunctionTypes
<1> DEFINE p == ProcOf[t]
<1>1. PICK to \in {"enum", "link"} :
         /\ to = "link" => "image" \notin notify
         /\ to = "enum" => "image" \in notify
         /\ at' = [at EXCEPT ![t] = to]
    BY Zenon DEF MapImage, Go
<1>2. m \in Mods /\ p \in Procs /\ at[t] = "out" /\ m \notin mapped[p] /\ m \notin linked[p]
    BY NtModulesAssumption DEF MapImage, Loading
<1> DEFINE new == IF "image" \in notify THEN missed[p] \ {m} ELSE missed[p] \cup {m}
<1>3. /\ missed' = [missed EXCEPT ![p] = new] /\ new \in SUBSET Mods
      /\ missed[p] \ {m} \subseteq new /\ (to = "link" => m \in new)
  <2>1. missed' = [missed EXCEPT ![p] = new]
      BY DEF MapImage
  <2> QED BY <1>1, <1>2, <2>1
<1> HIDE DEF new
<1>4. /\ mapped' = [mapped EXCEPT ![p] = @ \cup {m}] /\ ever' = [ever EXCEPT ![p] = @ \cup {m}]
      /\ image' = [image EXCEPT ![t] = m] /\ Alive(p)
      /\ UNCHANGED <<ProcOf, drv, todo, notify, mods, untold, lock, seen, linked, kd, frozen>>
    BY DEF MapImage
<1>5. TypeOK'
  <2>1. at' \in [Threads -> Places] /\ image' \in [Threads -> Mods \cup {"none"}]
      BY <1>1, <1>2, <1>4 DEF Places
  <2>2. /\ mapped' \in [Procs -> SUBSET Mods] /\ ever' \in [Procs -> SUBSET Mods]
        /\ missed' \in [Procs -> SUBSET Mods]
      BY <1>2, <1>3, <1>4
  <2> QED BY <2>1, <2>2, <1>4 DEF TypeOK, Places
<1>6. Loading'
  <2>1. \A q \in Procs : linked'[q] \subseteq mapped'[q] /\ mapped'[q] \subseteq ever'[q]
      BY <1>2, <1>4 DEF Loading
  <2>2. \A u \in Threads : /\ u # t => (InFlight(u)' <=> InFlight(u)) /\ image'[u] = image[u]
                           /\ image'[t] = m
      BY <1>1, <1>4 DEF InFlight
  <2>3. \A u \in Threads : InFlight(u) /\ ProcOf[u] = p => image[u] # m
      BY <1>2 DEF Loading
  <2>4. \A u \in Threads : InFlight(u)' =>
           image'[u] \in Mods /\ image'[u] \in mapped'[ProcOf'[u]] \ linked'[ProcOf'[u]]
    <3> TAKE u \in Threads
    <3>1. CASE u = t
        BY <1>2, <1>4, <3>1
    <3>2. CASE u # t
        BY <1>2, <1>4, <2>2, <3>2 DEF Loading
    <3> QED BY <3>1, <3>2
  <2>5. \A u, v \in Threads :
           InFlight(u)' /\ InFlight(v)' /\ ProcOf'[u] = ProcOf'[v] /\ image'[u] = image'[v]
              => u = v
      BY <1>4, <2>2, <2>3 DEF Loading
  <2> QED BY <2>1, <2>4, <2>5 DEF Loading
<1>7. Exiting'
    BY <1>1, <1>2, <1>4 DEF Exiting, Alive
<1>8. SnapshotFirst'
    BY <1>1, <1>4 DEF SnapshotFirst
<1>9. NewIsNotListed'
    BY <1>1, <1>4 DEF NewIsNotListed
<1>10. OncePerBase'
    BY <1>4 DEF OncePerBase
<1>11. FromThisProcess'
  <2>1. \A q \in Procs : Alive(q)' => Alive(q)
      BY <1>1, <1>2, <1>4 DEF Alive
  <2>2. \A q \in Procs : ever[q] \subseteq ever'[q] /\ Listed(q)' = Listed(q)
      BY <1>2, <1>4 DEF Listed
  <2> QED BY <1>4, <2>1, <2>2 DEF FromThisProcess
<1>12. AloneFindsAll'
  <2>1. \A q \in Procs : (SingleLoader(q)' <=> SingleLoader(q)) /\ Listed(q)' = Listed(q)
      BY <1>4 DEF SingleLoader, Listed
  <2>2. SingleLoader(p) => \A u \in Threads : ProcOf[u] = p => u = t
      BY DEF SingleLoader
  <2>3. \A u \in Threads : u # t => image'[u] = image[u] /\ at'[u] = at[u]
      BY <1>1, <1>4
  <2>4. \A q \in Procs : q # p => missed'[q] = missed[q]
      BY <1>3
  <2>5. image'[t] = m /\ missed'[p] = new /\ at'[t] = to
      BY <1>1, <1>2, <1>3, <1>4
  <2>8. ASSUME NEW u \in Threads, SingleLoader(ProcOf[u])
        PROVE  /\ at'[u] \in {"spin", "erase", "push"} => seen[u] = linked[ProcOf[u]]
               /\ at'[u] = "push" => Listed(ProcOf[u]) \subseteq linked[ProcOf[u]]
               /\ at'[u] = "link" => image'[u] \in missed'[ProcOf[u]] \cup Listed(ProcOf[u])
    <3>1. CASE u = t
        BY <1>3, <2>5, <3>1
    <3>2. CASE u # t
        BY <2>2, <2>3, <2>4, <2>8, <3>2 DEF AloneFindsAll
    <3> QED BY <3>1, <3>2
  <2> QED BY <1>4, <2>1, <2>8, SMTT(30) DEF AloneFindsAll
<1>13. NoneMissing'
  <2>1. \A q \in Procs : (SingleLoader(q)' <=> SingleLoader(q)) /\ Listed(q)' = Listed(q)
      BY <1>4 DEF SingleLoader, Listed
  <2>2. \A q \in Procs : linked[q] \ missed'[q] \subseteq linked[q] \ missed[q]
      BY <1>2, <1>3
  <2> QED BY <1>4, <2>1, <2>2 DEF NoneMissing
<1> QED
    BY <1>5, <1>6, <1>7, <1>8, <1>9, <1>10, <1>11, <1>12, <1>13

\* The routine enumerates the loader's list, which does not have the new image yet.
LEMMA EnumLists ==
    ASSUME IInv, LInv, NEW t \in Threads, EnumUserModules(t)
    PROVE  LInv'
<1> USE DEF LInv
<1> /\ ProcOf \in [Threads -> Procs] /\ at \in [Threads -> Places]
    /\ image \in [Threads -> Mods \cup {"none"}] /\ seen \in [Threads -> SUBSET Mods]
    BY FunctionTypes, SMTT(30)
<1>1. /\ at' = [at EXCEPT ![t] = "spin"] /\ at[t] = "enum"
      /\ seen' = [seen EXCEPT ![t] = linked[ProcOf[t]]]
      /\ UNCHANGED <<ProcOf, drv, todo, notify, mods, missed, ever, untold, lock, image, mapped,
                     linked, kd, frozen>>
    BY DEF EnumUserModules, Go, lists, system
<1>2. TypeOK'
    BY <1>1 DEF TypeOK
<1>3. Loading' /\ Exiting'
    BY <1>1 DEF Loading, InFlight, Exiting
<1>4. SnapshotFirst'
    BY <1>1 DEF SnapshotFirst
<1>5. NewIsNotListed'
    BY <1>1 DEF NewIsNotListed, Loading, InFlight
<1>6. OncePerBase' /\ FromThisProcess'
    BY <1>1, SMTT(30) DEF OncePerBase, FromThisProcess, Alive, Listed
<1>7. AloneFindsAll' /\ NoneMissing'
    BY <1>1 DEF AloneFindsAll, NoneMissing, SingleLoader, Listed
<1> QED
    BY <1>2, <1>3, <1>4, <1>5, <1>6, <1>7

\* Without a name the image is not listed, and missed says so.
LEMMA NoNameLists ==
    ASSUME IInv, LInv, NEW t \in Threads, NoName(t)
    PROVE  LInv'
<1> USE DEF LInv
<1> /\ ProcOf \in [Threads -> Procs] /\ at \in [Threads -> Places]
    /\ image \in [Threads -> Mods \cup {"none"}] /\ seen \in [Threads -> SUBSET Mods]
    BY FunctionTypes
<1> /\ mods \in [Procs -> [Mods -> Nat]] /\ mapped \in [Procs -> SUBSET Mods]
    /\ linked \in [Procs -> SUBSET Mods] /\ missed \in [Procs -> SUBSET Mods]
    /\ ever \in [Procs -> SUBSET Mods]
    BY FunctionTypes
<1> DEFINE p == ProcOf[t]
<1>1. /\ at' = [at EXCEPT ![t] = "link"] /\ at[t] = "enum"
      /\ missed' = [missed EXCEPT ![p] = @ \cup {image[t]}]
      /\ UNCHANGED <<ProcOf, drv, todo, notify, mods, ever, untold, lock, image, seen, mapped,
                     linked, kd, frozen>>
    BY DEF NoName, Go, system
<1>2. image[t] \in Mods
    BY <1>1 DEF Loading, InFlight
<1>3. TypeOK'
  <2>1. at' \in [Threads -> Places] /\ missed' \in [Procs -> SUBSET Mods]
      BY <1>1, <1>2 DEF Places
  <2> QED BY <1>1, <2>1 DEF TypeOK, Places
<1>4. Loading' /\ Exiting'
    BY <1>1 DEF Loading, InFlight, Exiting
<1>5. SnapshotFirst' /\ NewIsNotListed'
    BY <1>1 DEF SnapshotFirst, NewIsNotListed
<1>6. OncePerBase' /\ FromThisProcess'
    BY <1>1, Zenon DEF OncePerBase, FromThisProcess, Alive, Listed
<1>7. AloneFindsAll'
    BY <1>1, <1>2 DEF AloneFindsAll, SingleLoader, Listed
<1>8. NoneMissing'
    BY <1>1, <1>2, Zenon DEF NoneMissing, SingleLoader, Listed
<1> QED
    BY <1>3, <1>4, <1>5, <1>6, <1>7, <1>8

\* Taking the lock changes no list.
LEMMA LockLists ==
    ASSUME IInv, LInv, NEW t \in Threads, Lock(t)
    PROVE  LInv'
<1> USE DEF LInv
<1> /\ ProcOf \in [Threads -> Procs] /\ at \in [Threads -> Places]
    /\ image \in [Threads -> Mods \cup {"none"}] /\ seen \in [Threads -> SUBSET Mods]
    BY FunctionTypes
<1> /\ mods \in [Procs -> [Mods -> Nat]] /\ mapped \in [Procs -> SUBSET Mods]
    /\ linked \in [Procs -> SUBSET Mods] /\ missed \in [Procs -> SUBSET Mods]
    /\ ever \in [Procs -> SUBSET Mods]
    BY FunctionTypes
<1>1. PICK to \in {"erase", "exiting"} :
         /\ at' = [at EXCEPT ![t] = to]
         /\ to = "erase" => at[t] = "spin"
         /\ to = "exiting" => at[t] = "exit"
    BY Zenon DEF Lock, Go
<1>2. UNCHANGED <<ProcOf, drv, todo, notify, mods, missed, ever, untold, image, seen, mapped,
                  linked, kd, frozen>> /\ lock' = 1
    BY DEF Lock, lists, system
<1>3. TypeOK'
    BY <1>1, <1>2 DEF TypeOK
<1>4. Loading' /\ Exiting'
    BY <1>1, <1>2 DEF Loading, InFlight, Exiting
<1>5. SnapshotFirst' /\ NewIsNotListed'
    BY <1>1, <1>2, Zenon DEF SnapshotFirst, NewIsNotListed
<1>6. OncePerBase' /\ FromThisProcess'
    BY <1>1, <1>2, Zenon DEF OncePerBase, FromThisProcess, Alive, Listed
<1>7. AloneFindsAll' /\ NoneMissing'
    BY <1>1, <1>2, SMTT(30) DEF AloneFindsAll, NoneMissing, SingleLoader, Listed
<1> QED
    BY <1>3, <1>4, <1>5, <1>6, <1>7

\* "remove the unloaded modules.": the new image is among those that are erased.
LEMMA EraseLists ==
    ASSUME IInv, LInv, NEW t \in Threads, EraseUnloaded(t)
    PROVE  LInv'
<1> USE DEF LInv
<1> /\ ProcOf \in [Threads -> Procs] /\ at \in [Threads -> Places]
    /\ image \in [Threads -> Mods \cup {"none"}] /\ seen \in [Threads -> SUBSET Mods]
    BY FunctionTypes
<1> /\ mods \in [Procs -> [Mods -> Nat]] /\ mapped \in [Procs -> SUBSET Mods]
    /\ linked \in [Procs -> SUBSET Mods] /\ missed \in [Procs -> SUBSET Mods]
    /\ ever \in [Procs -> SUBSET Mods]
    BY FunctionTypes
<1> todo \subseteq Procs /\ untold \subseteq Procs /\ frozen \subseteq Threads
    BY FunctionTypes
<1> DEFINE p == ProcOf[t]
<1>1. /\ at' = [at EXCEPT ![t] = "push"] /\ at[t] = "erase"
      /\ UNCHANGED <<ProcOf, drv, todo, notify, missed, ever, untold, lock, image, seen, mapped,
                     linked, kd, frozen>>
    BY DEF EraseUnloaded, Go, past, system
<1>2. mods' = [mods EXCEPT ![p] = [m \in Mods |-> IF m \in seen[t] THEN mods[p][m] ELSE 0]]
    BY DEF EraseUnloaded, StillLoaded
<1>3. mods' \in [Procs -> [Mods -> Nat]]
    BY <1>2
<1>4. \A q \in Procs : q # p => mods'[q] = mods[q]
    BY <1>2
<1>5. \A m \in Mods : mods'[p][m] = IF m \in seen[t] THEN mods[p][m] ELSE 0
    BY <1>2
<1>6. \A q \in Procs : \A m \in Mods : mods'[q][m] = mods[q][m] \/ mods'[q][m] = 0
    BY <1>4, <1>5
<1>7. \A q \in Procs : q # p => Listed(q)' = Listed(q)
    BY <1>4 DEF Listed
<1>8. \A q \in Procs : q = p => Listed(q)' = Listed(p) \cap seen[t]
  <2>1. \A m \in Mods : mods'[p][m] > 0 <=> mods[p][m] > 0 /\ m \in seen[t]
      BY <1>5
  <2> QED BY <2>1 DEF Listed
<1>9. \A q \in Procs : SingleLoader(q)' <=> SingleLoader(q)
    BY <1>1 DEF SingleLoader
<1>10. TypeOK'
    BY <1>1, <1>3 DEF TypeOK
<1>11. Loading' /\ Exiting'
    BY <1>1 DEF Loading, InFlight, Exiting
<1>12. SnapshotFirst'
    BY <1>1, Zenon DEF SnapshotFirst
<1>13. NewIsNotListed'
  <2>1. \A u \in Threads : at'[u] \in {"spin", "erase", "push"} => image'[u] \notin seen'[u]
      BY <1>1 DEF NewIsNotListed
  <2>2. ASSUME NEW u \in Threads, at'[u] = "push" PROVE mods'[ProcOf[u]][image[u]] = 0
    <3>1. image[u] \in Mods
        BY <1>1, <2>2 DEF Loading, InFlight
    <3>2. CASE u = t
        BY <1>1, <1>5, <3>1, <3>2 DEF NewIsNotListed
    <3>3. CASE u # t
        BY <1>1, <1>6, <2>2, <3>1, <3>3 DEF NewIsNotListed
    <3> QED BY <3>2, <3>3
  <2> QED BY <1>1, <2>1, <2>2 DEF NewIsNotListed
<1>14. OncePerBase'
    BY <1>1, <1>6 DEF OncePerBase
<1>15. FromThisProcess'
  <2>1. \A q \in Procs : Alive(q)' <=> Alive(q)
      BY <1>1 DEF Alive
  <2> QED BY <1>1, <1>7, <1>8, <2>1, Zenon DEF FromThisProcess
<1>16. AloneFindsAll'
  <2>1. SingleLoader(p) => seen[t] = linked[p]
      BY <1>1 DEF AloneFindsAll
  <2>2. ASSUME NEW u \in Threads, SingleLoader(ProcOf[u])
        PROVE  /\ at'[u] \in {"spin", "erase", "push"} => seen[u] = linked[ProcOf[u]]
               /\ at'[u] = "push" => Listed(ProcOf[u])' \subseteq linked[ProcOf[u]]
               /\ at'[u] = "link" => image[u] \in missed[ProcOf[u]] \cup Listed(ProcOf[u])'
    <3>1. CASE u = t
        BY <1>1, <1>8, <2>1, <2>2, <3>1, SMTT(30)
    <3>2. CASE u # t
      <4>1. ProcOf[u] # p
          BY <2>2, <3>2 DEF SingleLoader
      <4> QED BY <1>1, <1>7, <2>2, <3>2, <4>1 DEF AloneFindsAll
    <3> QED BY <3>1, <3>2
  <2> QED BY <1>1, <1>9, <2>2 DEF AloneFindsAll
<1>17. NoneMissing'
  <2>1. SingleLoader(p) => seen[t] = linked[p]
      BY <1>1 DEF AloneFindsAll
  <2> QED BY <1>1, <1>7, <1>8, <1>9, <2>1, Zenon DEF NoneMissing
<1> QED
    BY <1>10, <1>11, <1>12, <1>13, <1>14, <1>15, <1>16, <1>17

\* "add the new module.": it was not in the list.
LEMMA PushLists ==
    ASSUME IInv, LInv, NEW t \in Threads, PushModule(t)
    PROVE  LInv'
<1> USE DEF LInv
<1> /\ ProcOf \in [Threads -> Procs] /\ at \in [Threads -> Places]
    /\ image \in [Threads -> Mods \cup {"none"}] /\ seen \in [Threads -> SUBSET Mods]
    BY FunctionTypes
<1> /\ mods \in [Procs -> [Mods -> Nat]] /\ mapped \in [Procs -> SUBSET Mods]
    /\ linked \in [Procs -> SUBSET Mods] /\ missed \in [Procs -> SUBSET Mods]
    /\ ever \in [Procs -> SUBSET Mods]
    BY FunctionTypes
<1> todo \subseteq Procs /\ untold \subseteq Procs /\ frozen \subseteq Threads
    BY FunctionTypes
<1> DEFINE p == ProcOf[t]
<1>1. /\ at' = [at EXCEPT ![t] = "link"] /\ at[t] = "push" /\ lock' = 0
      /\ UNCHANGED <<ProcOf, drv, todo, notify, missed, ever, untold, image, seen, mapped, linked,
                     kd, frozen>>
    BY DEF PushModule, Go, past, system
<1>2. image[t] \in Mods /\ image[t] \in ever[p] /\ mods[p][image[t]] = 0
    BY <1>1 DEF Loading, InFlight, NewIsNotListed
<1>3. mods' = [mods EXCEPT ![p] = [mods[p] EXCEPT ![image[t]] = 1]]
    BY <1>2 DEF PushModule
<1>4. mods' \in [Procs -> [Mods -> Nat]]
    BY <1>2, <1>3
<1>5. \A q \in Procs : q # p => mods'[q] = mods[q]
    BY <1>3
<1>6. \A m \in Mods : mods'[p][m] = IF m = image[t] THEN 1 ELSE mods[p][m]
    BY <1>2, <1>3
<1>7. \A q \in Procs : q # p => Listed(q)' = Listed(q)
    BY <1>5 DEF Listed
<1>8. \A q \in Procs : q = p => Listed(q)' = Listed(p) \cup {image[t]}
  <2>1. \A m \in Mods : mods'[p][m] > 0 <=> mods[p][m] > 0 \/ m = image[t]
      BY <1>6
  <2> QED BY <1>2, <2>1 DEF Listed
<1>9. \A q \in Procs : SingleLoader(q)' <=> SingleLoader(q)
    BY <1>1 DEF SingleLoader
<1>10. \A u \in Threads : u # t => at[u] # "push"
    BY <1>1 DEF IInv, OneHolder, Holds
<1>11. TypeOK'
    BY <1>1, <1>4 DEF TypeOK
<1>12. Loading' /\ Exiting'
    BY <1>1, SMTT(30) DEF Loading, InFlight, Exiting
<1>13. SnapshotFirst'
    BY <1>1 DEF SnapshotFirst
<1>14. NewIsNotListed'
    BY <1>1, <1>10 DEF NewIsNotListed
<1>15. OncePerBase'
  <2>1. ASSUME NEW q \in Procs \ untold, NEW m \in Mods PROVE mods'[q][m] <= 1
    <3>1. CASE q = p
        BY <1>6, <2>1, <3>1 DEF OncePerBase
    <3>2. CASE q # p
        BY <1>5, <2>1, <3>2 DEF OncePerBase
    <3> QED BY <3>1, <3>2
  <2> QED BY <1>1, <2>1 DEF OncePerBase
<1>16. FromThisProcess'
  <2>1. \A q \in Procs : Alive(q)' <=> Alive(q)
      BY <1>1 DEF Alive
  <2> QED BY <1>1, <1>2, <1>7, <1>8, <2>1, ZenonT(30) DEF FromThisProcess
<1>17. AloneFindsAll'
  <2>1. ASSUME NEW u \in Threads, SingleLoader(ProcOf[u])
        PROVE  /\ at'[u] \in {"spin", "erase", "push"} => seen[u] = linked[ProcOf[u]]
               /\ at'[u] = "push" => Listed(ProcOf[u])' \subseteq linked[ProcOf[u]]
               /\ at'[u] = "link" => image[u] \in missed[ProcOf[u]] \cup Listed(ProcOf[u])'
    <3>1. CASE u = t
        BY <1>1, <1>8, <3>1, SMTT(30)
    <3>2. CASE u # t
      <4>1. ProcOf[u] # p
          BY <2>1, <3>2 DEF SingleLoader
      <4>2. Listed(ProcOf[u])' = Listed(ProcOf[u])
          BY <1>1, <1>7, <4>1
      <4> QED BY <1>1, <2>1, <3>2, <4>2 DEF AloneFindsAll
    <3> QED BY <3>1, <3>2
  <2> QED BY <1>1, <1>9, <2>1, Zenon DEF AloneFindsAll
<1>18. NoneMissing'
  <2>1. ASSUME NEW q \in Procs, SingleLoader(q)
        PROVE  linked'[q] \ missed'[q] \subseteq Listed(q)'
    <3>1. CASE q = p
        BY <1>1, <1>8, <2>1, <3>1 DEF NoneMissing
    <3>2. CASE q # p
        BY <1>1, <1>7, <2>1, <3>2 DEF NoneMissing
    <3> QED BY <3>1, <3>2
  <2> QED BY <1>9, <2>1 DEF NoneMissing
<1> QED
    BY <1>11, <1>12, <1>13, <1>14, <1>15, <1>16, <1>17, <1>18

=============================================================================
