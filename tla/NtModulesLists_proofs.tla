---------------------- MODULE NtModulesLists_proofs ----------------------
(***************************************************************************)
(* The second half of the proof about the module lists: the steps of the   *)
(* system and of the driver that NtModules_proofs does not cover, and the  *)
(* theorems that the lists are right at every moment and that unloaded     *)
(* modules are removed, for any number of threads, processes and modules.  *)
(***************************************************************************)
EXTENDS NtModules_proofs

\* The loader links the image, which the list has unless it was missed, or unmaps it.
LEMMA LinkLists ==
    ASSUME IInv, LInv, NEW t \in Threads, LinkImage(t)
    PROVE  LInv'
<1> USE DEF LInv
<1> /\ ProcOf \in [Threads -> Procs] /\ at \in [Threads -> Places]
    /\ image \in [Threads -> Mods \cup {"none"}] /\ seen \in [Threads -> SUBSET Mods]
    BY FunctionTypes
<1> /\ mods \in [Procs -> [Mods -> Nat]] /\ mapped \in [Procs -> SUBSET Mods]
    /\ linked \in [Procs -> SUBSET Mods] /\ missed \in [Procs -> SUBSET Mods]
    /\ ever \in [Procs -> SUBSET Mods]
    BY FunctionTypes
<1> todo \subseteq Procs /\ untold \subseteq Procs /\ frozen \subseteq Threads
    BY FunctionTypes
<1> DEFINE p == ProcOf[t]
<1>1. /\ at' = [at EXCEPT ![t] = "out"] /\ at[t] = "link"
      /\ image' = [image EXCEPT ![t] = "none"] /\ seen' = [seen EXCEPT ![t] = {}]
      /\ UNCHANGED <<ProcOf, drv, todo, notify, mods, missed, ever, untold, lock, kd, frozen>>
    BY DEF LinkImage, Go, lists
<1>2. \/ linked' = [linked EXCEPT ![p] = @ \cup {image[t]}] /\ mapped' = mapped
      \/ mapped' = [mapped EXCEPT ![p] = @ \ {image[t]}] /\ linked' = linked
    BY DEF LinkImage
<1>3. image[t] \in Mods /\ image[t] \in mapped[p] /\ image[t] \notin linked[p]
    BY <1>1 DEF Loading, InFlight
<1>4. /\ \A q \in Procs : q # p => linked'[q] = linked[q] /\ mapped'[q] = mapped[q]
      /\ linked'[p] \in {linked[p], linked[p] \cup {image[t]}}
      /\ mapped'[p] \in {mapped[p], mapped[p] \ {image[t]}}
      /\ linked'[p] \subseteq mapped'[p]
    BY <1>2, <1>3 DEF Loading
<1>5. linked' \in [Procs -> SUBSET Mods] /\ mapped' \in [Procs -> SUBSET Mods]
  <2>1. CASE linked' = [linked EXCEPT ![p] = @ \cup {image[t]}] /\ mapped' = mapped
      BY <1>3, <2>1, Zenon
  <2>2. CASE mapped' = [mapped EXCEPT ![p] = @ \ {image[t]}] /\ linked' = linked
      BY <2>2
  <2> QED BY <1>2, <2>1, <2>2
<1>6. \A u \in Threads : u # t => at'[u] = at[u] /\ image'[u] = image[u] /\ seen'[u] = seen[u]
    BY <1>1
<1>7. \A q \in Procs : (SingleLoader(q)' <=> SingleLoader(q)) /\ Listed(q)' = Listed(q)
    BY <1>1 DEF SingleLoader, Listed
<1>8. TypeOK'
  <2>1. /\ at' \in [Threads -> Places] /\ image' \in [Threads -> Mods \cup {"none"}]
        /\ seen' \in [Threads -> SUBSET Mods]
      BY <1>1, SMTT(30) DEF Places
  <2> QED BY <1>1, <1>5, <2>1 DEF TypeOK, Places
<1>9. Loading'
  <2>1. \A q \in Procs : linked'[q] \subseteq mapped'[q] /\ mapped'[q] \subseteq ever'[q]
      BY <1>1, <1>4, Zenon DEF Loading
  <2>2. \A u \in Threads : InFlight(u)' => u # t /\ InFlight(u)
      BY <1>1 DEF InFlight
  <2>3. \A u \in Threads : InFlight(u) /\ u # t /\ ProcOf[u] = p => image[u] # image[t]
      BY <1>1 DEF Loading, InFlight
  <2>4. ASSUME NEW u \in Threads, InFlight(u)'
        PROVE  image'[u] \in Mods /\ image'[u] \in mapped'[ProcOf[u]] \ linked'[ProcOf[u]]
    <3>1. /\ image'[u] = image[u] /\ image[u] \in Mods
          /\ image[u] \in mapped[ProcOf[u]] \ linked[ProcOf[u]]
        BY <1>6, <2>2, <2>4, SMTT(30) DEF Loading
    <3>2. CASE ProcOf[u] = p
        BY <1>4, <2>2, <2>3, <2>4, <3>1, <3>2
    <3>3. CASE ProcOf[u] # p
        BY <1>4, <3>1, <3>3
    <3> QED BY <3>2, <3>3
  <2>5. \A u, v \in Threads :
           InFlight(u)' /\ InFlight(v)' /\ ProcOf'[u] = ProcOf'[v] /\ image'[u] = image'[v]
              => u = v
      BY <1>1, <1>6, <2>2, SMTT(30) DEF Loading
  <2> QED BY <1>1, <2>1, <2>4, <2>5 DEF Loading
<1>10. Exiting'
  <2>1. \A u \in Threads : at'[u] \in {"exit", "exiting"} => u # t /\ ProcOf[u] # p
      BY <1>1 DEF Exiting
  <2> QED BY <1>1, <1>4, <1>6, <2>1 DEF Exiting
<1>11. SnapshotFirst' /\ NewIsNotListed'
    BY <1>1 DEF SnapshotFirst, NewIsNotListed
<1>12. OncePerBase'
    BY <1>1 DEF OncePerBase
<1>13. FromThisProcess'
  <2>1. \A q \in Procs : Alive(q)' <=> Alive(q)
      BY <1>1, SMTT(30) DEF Alive
  <2> QED BY <1>1, <1>7, <2>1 DEF FromThisProcess
<1>14. AloneFindsAll'
  <2>1. ASSUME NEW u \in Threads, SingleLoader(ProcOf[u])
        PROVE  /\ at'[u] \in {"spin", "erase", "push"} => seen'[u] = linked'[ProcOf[u]]
               /\ at'[u] = "push" => Listed(ProcOf[u]) \subseteq linked'[ProcOf[u]]
               /\ at'[u] = "link" => image'[u] \in missed[ProcOf[u]] \cup Listed(ProcOf[u])
    <3>1. CASE u = t
        BY <1>1, <3>1, SMTT(30)
    <3>2. CASE u # t
      <4>1. ProcOf[u] # p
          BY <2>1, <3>2 DEF SingleLoader
      <4> QED BY <1>4, <1>6, <2>1, <3>2, <4>1, SMTT(30) DEF AloneFindsAll
    <3> QED BY <3>1, <3>2
  <2> QED BY <1>1, <1>7, <2>1, SMTT(30) DEF AloneFindsAll
<1>15. NoneMissing'
  <2>1. SingleLoader(p) => image[t] \in missed[p] \cup Listed(p)
      BY <1>1 DEF AloneFindsAll
  <2> QED BY <1>1, <1>4, <1>7, <2>1, SMTT(30) DEF NoneMissing
<1> QED
    BY <1>8, <1>9, <1>10, <1>11, <1>12, <1>13, <1>14, <1>15

\* An image is unloaded that no thread is loading, and no routine is told.
LEMMA UnloadLists ==
    ASSUME IInv, LInv, NEW t \in Threads, NEW m \in MayLoad[ProcOf[t]], UnloadImage(t, m)
    PROVE  LInv'
<1> USE DEF LInv
<1> /\ ProcOf \in [Threads -> Procs] /\ at \in [Threads -> Places]
    /\ image \in [Threads -> Mods \cup {"none"}] /\ seen \in [Threads -> SUBSET Mods]
    BY FunctionTypes
<1> /\ mods \in [Procs -> [Mods -> Nat]] /\ mapped \in [Procs -> SUBSET Mods]
    /\ linked \in [Procs -> SUBSET Mods] /\ missed \in [Procs -> SUBSET Mods]
    /\ ever \in [Procs -> SUBSET Mods]
    BY FunctionTypes
<1> todo \subseteq Procs /\ untold \subseteq Procs /\ frozen \subseteq Threads
    BY FunctionTypes
<1>1. /\ linked' = [linked EXCEPT ![ProcOf[t]] = @ \ {m}] /\ at[t] = "out"
      /\ mapped' = [mapped EXCEPT ![ProcOf[t]] = @ \ {m}] /\ m \in linked[ProcOf[t]]
      /\ UNCHANGED <<ProcOf, drv, todo, notify, mods, missed, ever, untold, lock, at, image, seen,
                     kd, frozen>>
    BY SMTT(30) DEF UnloadImage, lists
<1>2. TypeOK'
    BY <1>1, SMTT(30) DEF TypeOK
<1>3. Loading' /\ Exiting'
    BY <1>1, SMTT(30) DEF Loading, InFlight, Exiting
<1>4. SnapshotFirst' /\ NewIsNotListed'
    BY <1>1, SMTT(30) DEF SnapshotFirst, NewIsNotListed
<1>5. OncePerBase' /\ FromThisProcess'
    BY <1>1, SMTT(30) DEF OncePerBase, FromThisProcess, Alive, Listed
<1>6. AloneFindsAll' /\ NoneMissing'
    BY <1>1, SMTT(30) DEF AloneFindsAll, NoneMissing, SingleLoader, Listed
<1> QED
    BY <1>2, <1>3, <1>4, <1>5, <1>6, Zenon

\* The last thread of a process ends: no thread of it is in the loader.
LEMMA ExitLists ==
    ASSUME IInv, LInv, NEW t \in Threads, ExitProcess(t)
    PROVE  LInv'
<1> USE DEF LInv
<1> /\ ProcOf \in [Threads -> Procs] /\ at \in [Threads -> Places]
    /\ image \in [Threads -> Mods \cup {"none"}] /\ seen \in [Threads -> SUBSET Mods]
    BY FunctionTypes
<1> /\ mods \in [Procs -> [Mods -> Nat]] /\ mapped \in [Procs -> SUBSET Mods]
    /\ linked \in [Procs -> SUBSET Mods] /\ missed \in [Procs -> SUBSET Mods]
    /\ ever \in [Procs -> SUBSET Mods]
    BY FunctionTypes
<1> todo \subseteq Procs /\ untold \subseteq Procs /\ frozen \subseteq Threads
    BY FunctionTypes
<1> DEFINE p == ProcOf[t]
<1>1. /\ \A u \in Threads : ProcOf[u] = p => at[u] = "out"
      /\ mapped' = [mapped EXCEPT ![p] = {}] /\ linked' = [linked EXCEPT ![p] = {}]
      /\ missed' = [missed EXCEPT ![p] = {}] /\ ever' = [ever EXCEPT ![p] = {}]
      /\ UNCHANGED <<ProcOf, drv, notify, mods, lock, image, seen, kd, frozen>>
    BY DEF ExitProcess
<1>2. \/ /\ at' = [at EXCEPT ![t] = "exit"] /\ "process" \in notify
         /\ UNCHANGED <<todo, untold>>
      \/ /\ untold' = untold \cup {p} /\ at' = at
         /\ todo' \ {p} \subseteq todo /\ todo' \subseteq Procs
  <2>1. CASE /\ "process" \in notify
             /\ Go(t, "exit")
             /\ UNCHANGED <<todo, untold>>
      BY <2>1 DEF Go
  <2>2. CASE /\ untold' = untold \cup {p}
             /\ todo' \in {todo \ {p}, IF Revisited(p) THEN todo \cup {p} ELSE todo \ {p}}
             /\ UNCHANGED at
    <3>1. todo' \in {todo \ {p}, todo \cup {p}}
        BY <2>2
    <3> QED BY <2>2, <3>1
  <2> QED BY <2>1, <2>2 DEF ExitProcess
<1>3. /\ at' \in [Threads -> Places] /\ at'[t] \in {"out", "exit"}
      /\ \A u \in Threads : u # t => at'[u] = at[u]
    BY <1>1, <1>2, Zenon DEF Places
<1>4. \A u \in Threads : ProcOf[u] = p /\ u # t => at'[u] = "out"
    BY <1>1, <1>3
<1>5. \A q \in Procs : q # p => /\ mapped'[q] = mapped[q] /\ linked'[q] = linked[q]
                                /\ missed'[q] = missed[q] /\ ever'[q] = ever[q]
    BY <1>1
<1>6. mapped'[p] = {} /\ linked'[p] = {} /\ missed'[p] = {} /\ ever'[p] = {}
    BY <1>1
<1>7. \A q \in Procs : (SingleLoader(q)' <=> SingleLoader(q)) /\ Listed(q)' = Listed(q)
    BY <1>1 DEF SingleLoader, Listed
<1>8. untold \subseteq untold' /\ untold' \subseteq Procs /\ todo' \subseteq Procs
    BY <1>2
<1>9. TypeOK'
  <2>1. /\ mapped' \in [Procs -> SUBSET Mods] /\ linked' \in [Procs -> SUBSET Mods]
        /\ missed' \in [Procs -> SUBSET Mods] /\ ever' \in [Procs -> SUBSET Mods]
      BY <1>1
  <2> QED BY <1>1, <1>3, <1>8, <2>1 DEF TypeOK, Places
<1>10. Loading'
  <2>1. \A u \in Threads : InFlight(u)' => InFlight(u) /\ ProcOf[u] # p
      BY <1>3, <1>4, SMTT(30) DEF InFlight
  <2>2. \A q \in Procs : linked'[q] \subseteq mapped'[q] /\ mapped'[q] \subseteq ever'[q]
      BY <1>5, <1>6, SMTT(30) DEF Loading
  <2> QED BY <1>1, <1>5, <2>1, <2>2 DEF Loading
<1>11. Exiting'
  <2>1. ASSUME NEW u \in Threads, at'[u] \in {"exit", "exiting"}
        PROVE  /\ mapped'[ProcOf[u]] = {}
               /\ \A v \in Threads : ProcOf[v] = ProcOf[u] /\ v # u => at'[v] = "out"
    <3>1. CASE u = t
        BY <1>4, <1>6, <3>1, SMTT(30)
    <3>2. CASE u # t
      <4>1. ProcOf[u] # p /\ at[u] \in {"exit", "exiting"}
          BY <1>3, <1>4, <2>1, <3>2
      <4> QED BY <1>3, <1>5, <4>1 DEF Exiting
    <3> QED BY <3>1, <3>2
  <2> QED BY <1>1, <2>1 DEF Exiting
<1>12. SnapshotFirst'
  <2>1. ASSUME drv = "snapshot"
        PROVE  /\ \A u \in Threads : at'[u] \in {"out", "link"}
               /\ \A q \in todo' \ untold' : mods[q] = NoModules
    <3>1. untold' = untold \cup {p} /\ at' = at /\ todo' \ {p} \subseteq todo
        BY <1>2, <2>1 DEF SnapshotFirst
    <3> QED BY <2>1, <3>1 DEF SnapshotFirst
  <2> QED BY <1>1, <2>1 DEF SnapshotFirst
<1>13. NewIsNotListed'
    BY <1>1, <1>3 DEF NewIsNotListed
<1>14. OncePerBase'
    BY <1>1, <1>8, SMTT(30) DEF OncePerBase
<1>15. FromThisProcess'
  <2>1. ASSUME NEW q \in Procs \ untold', Alive(q)' PROVE Listed(q) \subseteq ever'[q]
    <3>1. CASE q = p
      <4>1. at'[t] = "exit"
          BY <1>2, <2>1, <3>1, SMTT(30)
      <4> QED BY <1>1, <2>1, <3>1, <4>1 DEF Alive
    <3>2. CASE q # p
      <4>1. Alive(q)
          BY <1>1, <1>3, <2>1, <3>2, SMTT(30) DEF Alive
      <4> QED BY <1>5, <1>8, <2>1, <3>2, <4>1 DEF FromThisProcess
    <3> QED BY <3>1, <3>2
  <2> QED BY <1>7, <2>1 DEF FromThisProcess
<1>16. AloneFindsAll'
  <2>1. ASSUME NEW u \in Threads, SingleLoader(ProcOf[u])
        PROVE  /\ at'[u] \in {"spin", "erase", "push"} => seen[u] = linked'[ProcOf[u]]
               /\ at'[u] = "push" => Listed(ProcOf[u]) \subseteq linked'[ProcOf[u]]
               /\ at'[u] = "link" => image[u] \in missed'[ProcOf[u]] \cup Listed(ProcOf[u])
    <3>1. CASE ProcOf[u] = p
        BY <1>3, <1>4, <3>1, ZenonT(30)
    <3>2. CASE ProcOf[u] # p
        BY <1>3, <1>5, <2>1, <3>2, SMTT(30) DEF AloneFindsAll
    <3> QED BY <3>1, <3>2
  <2> QED BY <1>1, <1>7, <2>1, SMTT(30) DEF AloneFindsAll
<1>17. NoneMissing'
  <2>1. ASSUME NEW q \in Procs, SingleLoader(q)
        PROVE  linked'[q] \ missed'[q] \subseteq Listed(q)'
    <3>1. CASE q = p
        BY <1>6, <2>1, <3>1, SMTT(30) DEF NoneMissing
    <3>2. CASE q # p
        BY <1>5, <1>7, <2>1, <3>2 DEF NoneMissing
    <3> QED BY <3>1, <3>2
  <2> QED BY <1>7, <2>1 DEF NoneMissing
<1> QED
    BY <1>9, <1>10, <1>11, <1>12, <1>13, <1>14, <1>15, <1>16, <1>17

\* The routine for the exit: the list of the process is empty afterwards.
LEMMA EraseProcessLists ==
    ASSUME IInv, LInv, NEW t \in Threads, EraseProcess(t)
    PROVE  LInv'
<1> USE DEF LInv
<1> /\ ProcOf \in [Threads -> Procs] /\ at \in [Threads -> Places]
    /\ image \in [Threads -> Mods \cup {"none"}] /\ seen \in [Threads -> SUBSET Mods]
    BY FunctionTypes
<1> /\ mods \in [Procs -> [Mods -> Nat]] /\ mapped \in [Procs -> SUBSET Mods]
    /\ linked \in [Procs -> SUBSET Mods] /\ missed \in [Procs -> SUBSET Mods]
    /\ ever \in [Procs -> SUBSET Mods]
    BY FunctionTypes
<1> todo \subseteq Procs /\ untold \subseteq Procs /\ frozen \subseteq Threads
    BY FunctionTypes
<1> DEFINE p == ProcOf[t]
<1>1. /\ at' = [at EXCEPT ![t] = "out"] /\ at[t] = "exiting"
      /\ untold' = untold \ {p} /\ lock' = 0
      /\ mods' = [mods EXCEPT ![p] = NoModules]
      /\ UNCHANGED <<ProcOf, drv, todo, notify, missed, ever, image, seen, mapped, linked, kd,
                     frozen>>
    BY DEF EraseProcess, Go, system
<1>2. NoModules \in [Mods -> Nat] /\ \A m \in Mods : NoModules[m] = 0
    BY DEF NoModules
<1>3. \A q \in Procs : q # p => mods'[q] = mods[q] /\ Listed(q)' = Listed(q)
    BY <1>1 DEF Listed
<1>4. \A q \in Procs : q = p => mods'[q] = NoModules /\ Listed(q)' = {}
    BY <1>1, <1>2 DEF Listed
<1>5. \A q \in Procs : SingleLoader(q)' <=> SingleLoader(q)
    BY <1>1 DEF SingleLoader
<1>6. linked[p] = {} /\ mapped[p] = {}
      /\ \A u \in Threads : ProcOf[u] = p /\ u # t => at[u] = "out"
    BY <1>1 DEF Exiting, Loading
<1>7. TypeOK'
  <2>1. mods' \in [Procs -> [Mods -> Nat]]
      BY <1>1, <1>2, Zenon
  <2> QED BY <1>1, <2>1 DEF TypeOK
<1>8. Loading' /\ Exiting'
    BY <1>1 DEF Loading, InFlight, Exiting
<1>9. SnapshotFirst'
    BY <1>1 DEF SnapshotFirst
<1>10. NewIsNotListed'
  <2>1. \A u \in Threads : at'[u] = "push" => at[u] = "push" /\ ProcOf[u] # p
      BY <1>1, <1>6
  <2> QED BY <1>1, <1>3, <2>1 DEF NewIsNotListed
<1>11. OncePerBase'
  <2>1. ASSUME NEW q \in Procs \ untold', NEW m \in Mods PROVE mods'[q][m] <= 1
    <3>1. CASE q = p
        BY <1>2, <1>4, <3>1
    <3>2. CASE q # p
        BY <1>1, <1>3, <2>1, <3>2 DEF OncePerBase
    <3> QED BY <3>1, <3>2
  <2> QED BY <2>1 DEF OncePerBase
<1>12. FromThisProcess'
  <2>1. ASSUME NEW q \in Procs \ untold', Alive(q)' PROVE Listed(q)' \subseteq ever[q]
    <3>1. CASE q = p
        BY <1>4, <3>1
    <3>2. CASE q # p
      <4>1. Alive(q)
          BY <1>1, <2>1, <3>2 DEF Alive
      <4> QED BY <1>1, <1>3, <2>1, <3>2, <4>1 DEF FromThisProcess
    <3> QED BY <3>1, <3>2
  <2> QED BY <1>1, <2>1 DEF FromThisProcess
<1>13. AloneFindsAll'
  <2>1. ASSUME NEW u \in Threads, SingleLoader(ProcOf[u])
        PROVE  /\ at'[u] \in {"spin", "erase", "push"} => seen[u] = linked[ProcOf[u]]
               /\ at'[u] = "push" => Listed(ProcOf[u])' \subseteq linked[ProcOf[u]]
               /\ at'[u] = "link" => image[u] \in missed[ProcOf[u]] \cup Listed(ProcOf[u])'
    <3>1. CASE ProcOf[u] = p
        BY <1>1, <1>6, <3>1, SMTT(30)
    <3>2. CASE ProcOf[u] # p
      <4>1. Listed(ProcOf[u])' = Listed(ProcOf[u])
          BY <1>1, <1>3, <3>2
      <4> QED BY <1>1, <2>1, <3>2, <4>1 DEF AloneFindsAll
    <3> QED BY <3>1, <3>2, Zenon
  <2> QED BY <1>1, <1>5, <2>1, Zenon DEF AloneFindsAll
<1>14. NoneMissing'
  <2>1. ASSUME NEW q \in Procs, SingleLoader(q)
        PROVE  linked'[q] \ missed'[q] \subseteq Listed(q)'
    <3>1. CASE q = p
        BY <1>1, <1>6, <2>1, <3>1, Zenon DEF NoneMissing
    <3>2. CASE q # p
        BY <1>1, <1>3, <2>1, <3>2 DEF NoneMissing
    <3> QED BY <3>1, <3>2
  <2> QED BY <1>5, <2>1 DEF NoneMissing
<1> QED
    BY <1>7, <1>8, <1>9, <1>10, <1>11, <1>12, <1>13, <1>14

\* The snapshot visits a process whose list is empty, before any routine runs.
LEMMA SnapshotLists ==
    ASSUME IInv, LInv, NEW p \in Procs, Snapshot(p)
    PROVE  LInv'
<1> USE DEF LInv
<1> /\ ProcOf \in [Threads -> Procs] /\ at \in [Threads -> Places]
    /\ image \in [Threads -> Mods \cup {"none"}] /\ seen \in [Threads -> SUBSET Mods]
    BY FunctionTypes
<1> /\ mods \in [Procs -> [Mods -> Nat]] /\ mapped \in [Procs -> SUBSET Mods]
    /\ linked \in [Procs -> SUBSET Mods] /\ missed \in [Procs -> SUBSET Mods]
    /\ ever \in [Procs -> SUBSET Mods]
    BY FunctionTypes
<1> todo \subseteq Procs /\ untold \subseteq Procs /\ frozen \subseteq Threads
    BY FunctionTypes
<1>1. /\ drv = "snapshot" /\ p \in todo /\ todo' = todo \ {p}
      /\ missed' = [missed EXCEPT ![p] = @ \ linked[p]]
      /\ UNCHANGED <<ProcOf, drv, notify, ever, untold, lock, at, image, seen, mapped, linked, kd,
                     frozen>>
    BY DEF Snapshot, others, system
<1>2. mods' = [mods EXCEPT ![p] = [m \in Mods |-> IF m \in linked[p] THEN mods[p][m] + 1
                                                                   ELSE mods[p][m]]]
    BY DEF Snapshot
<1>3. \A u \in Threads : at[u] \in {"out", "link"}
    BY <1>1 DEF SnapshotFirst
<1>4. mods' \in [Procs -> [Mods -> Nat]]
    BY <1>2
<1>5. \A q \in Procs : q # p => /\ mods'[q] = mods[q] /\ missed'[q] = missed[q]
                                /\ Listed(q)' = Listed(q)
    BY <1>1, <1>2 DEF Listed
<1>6. \A m \in Mods : mods'[p][m] = IF m \in linked[p] THEN mods[p][m] + 1 ELSE mods[p][m]
    BY <1>2
<1>7. Listed(p)' = Listed(p) \cup linked[p]
  <2>1. \A m \in Mods : mods'[p][m] > 0 <=> mods[p][m] > 0 \/ m \in linked[p]
      BY <1>6
  <2> QED BY <2>1 DEF Listed
<1>8. missed'[p] = missed[p] \ linked[p]
    BY <1>1
<1>9. \A q \in Procs : SingleLoader(q)' <=> SingleLoader(q)
    BY <1>1 DEF SingleLoader
<1>10. TypeOK'
  <2>1. missed' \in [Procs -> SUBSET Mods]
      BY <1>1
  <2> QED BY <1>1, <1>4, <2>1 DEF TypeOK
<1>11. Loading' /\ Exiting'
    BY <1>1 DEF Loading, InFlight, Exiting
<1>12. SnapshotFirst'
    BY <1>1, <1>5, ZenonT(30) DEF SnapshotFirst
<1>13. NewIsNotListed'
    BY <1>1, <1>3, SMTT(30) DEF NewIsNotListed
<1>14. OncePerBase'
  <2>1. ASSUME NEW q \in Procs \ untold, NEW m \in Mods PROVE mods'[q][m] <= 1
    <3>1. CASE q = p
      <4>1. mods[p][m] = 0
          BY <1>1, <2>1, <3>1, SMTT(30) DEF SnapshotFirst, NoModules
      <4>2. CASE m \in linked[p]
          BY <1>6, <2>1, <3>1, <4>1, <4>2
      <4>3. CASE m \notin linked[p]
          BY <1>6, <2>1, <3>1, <4>1, <4>3, SMTT(30)
      <4> QED BY <4>2, <4>3
    <3>2. CASE q # p
        BY <1>5, <2>1, <3>2 DEF OncePerBase
    <3> QED BY <3>1, <3>2, SMTT(30)
  <2> QED BY <1>1, <2>1, SMTT(30) DEF OncePerBase
<1>15. FromThisProcess'
  <2>1. \A q \in Procs : Alive(q)' <=> Alive(q)
      BY <1>1 DEF Alive
  <2>2. ASSUME NEW q \in Procs \ untold, Alive(q) PROVE Listed(q)' \subseteq ever[q]
    <3>1. CASE q = p
        BY <1>7, <2>2, <3>1, SMTT(30) DEF FromThisProcess, Loading
    <3>2. CASE q # p
        BY <1>5, <2>2, <3>2 DEF FromThisProcess
    <3> QED BY <3>1, <3>2
  <2> QED BY <1>1, <2>1, <2>2 DEF FromThisProcess
<1>16. AloneFindsAll'
  <2>1. ASSUME NEW u \in Threads, SingleLoader(ProcOf[u]), at[u] = "link"
        PROVE  image[u] \in missed'[ProcOf[u]] \cup Listed(ProcOf[u])'
    <3>1. /\ image[u] \in missed[ProcOf[u]] \cup Listed(ProcOf[u])
          /\ image[u] \notin linked[ProcOf[u]]
        BY <2>1, Zenon DEF AloneFindsAll, Loading, InFlight
    <3>2. Listed(ProcOf[u]) \subseteq Listed(ProcOf[u])'
        BY <1>1, <1>5, <1>7, ZenonT(30)
    <3>3. missed[ProcOf[u]] \ linked[ProcOf[u]] \subseteq missed'[ProcOf[u]]
        BY <1>5, <1>8, SMTT(30)
    <3> QED BY <3>1, <3>2, <3>3, Zenon
  <2> QED BY <1>1, <1>3, <1>9, <2>1, Zenon DEF AloneFindsAll
<1>17. NoneMissing'
  <2>1. ASSUME NEW q \in Procs, SingleLoader(q)
        PROVE  linked'[q] \ missed'[q] \subseteq Listed(q)'
    <3>1. CASE q = p
        BY <1>1, <1>7, <2>1, <3>1, SMTT(30)
    <3>2. CASE q # p
        BY <1>1, <1>5, <2>1, <3>2 DEF NoneMissing
    <3> QED BY <3>1, <3>2
  <2> QED BY <1>9, <2>1, SMTT(30) DEF NoneMissing
<1> QED
    BY <1>10, <1>11, <1>12, <1>13, <1>14, <1>15, <1>16, <1>17

\* Neither KD nor the rest of DriverEntry and DrvUnload touches lists or images; the
\* routines are registered after the snapshot.
LEMMA OthersLists ==
    ASSUME LInv,
           UNCHANGED <<ProcOf, mods, missed, ever, untold, lock, at, image, seen, mapped, linked>>,
           todo' = todo, kd' \in {"off", "freezing", "on"}, frozen' \subseteq Threads,
           notify' \subseteq {"process", "image"},
           \/ drv' \in {"registering", "running", "unloading"}
           \/ drv' = drv /\ notify' = notify
    PROVE  LInv'
<1> USE DEF LInv
<1> /\ ProcOf \in [Threads -> Procs] /\ at \in [Threads -> Places]
    /\ image \in [Threads -> Mods \cup {"none"}] /\ seen \in [Threads -> SUBSET Mods]
    BY FunctionTypes
<1> /\ mods \in [Procs -> [Mods -> Nat]] /\ mapped \in [Procs -> SUBSET Mods]
    /\ linked \in [Procs -> SUBSET Mods] /\ missed \in [Procs -> SUBSET Mods]
    /\ ever \in [Procs -> SUBSET Mods]
    BY FunctionTypes
<1> todo \subseteq Procs /\ untold \subseteq Procs /\ frozen \subseteq Threads
    BY FunctionTypes
<1>1. TypeOK'
    BY SMTT(30) DEF TypeOK
<1>2. Loading' /\ Exiting'
    BY DEF Loading, InFlight, Exiting
<1>3. SnapshotFirst' /\ NewIsNotListed'
    BY DEF SnapshotFirst, NewIsNotListed
<1>4. OncePerBase' /\ FromThisProcess'
    BY SMTT(30) DEF OncePerBase, FromThisProcess, Alive, Listed
<1>5. AloneFindsAll' /\ NoneMissing'
    BY SMTT(30) DEF AloneFindsAll, NoneMissing, SingleLoader, Listed
<1> QED
    BY <1>1, <1>2, <1>3, <1>4, <1>5

\* Every step keeps what is known of the lists, ...
LEMMA ListsInductive == IInv /\ LInv /\ [Next]_vars => LInv'
<1> SUFFICES ASSUME IInv, LInv, [Next]_vars PROVE LInv'
    OBVIOUS
<1>1. ASSUME NEW t \in Threads, Step(t) PROVE LInv'
    BY <1>1, EnumLists, NoNameLists, LockLists, EraseLists, PushLists, LinkLists,
       EraseProcessLists DEF Step
<1>2. ASSUME NEW t \in Threads,
             \/ \E m \in MayLoad[ProcOf[t]] : MapImage(t, m) \/ UnloadImage(t, m)
             \/ ExitProcess(t)
      PROVE  LInv'
    BY <1>2, MapImageLists, UnloadLists, ExitLists, SMTT(30)
<1>3. CASE DriverEntry \/ DrvUnload
    BY <1>3, OthersLists, FunctionTypes DEF DriverEntry, DrvUnload, Register, Unregister, lists,
       others, system, LInv
<1>4. CASE Break \/ StartSession \/ EndSession \/ \E t \in Threads : Freeze(t)
    BY <1>4, OthersLists, FunctionTypes, ZenonT(30) DEF Break, StartSession, EndSession, Freeze, lists,
       system, LInv
<1>5. CASE UNCHANGED vars
    BY <1>5, OthersLists, FunctionTypes DEF vars, lists, system, LInv
<1> QED
    BY <1>1, <1>2, <1>3, <1>4, <1>5, SnapshotLists DEF Next

\* ... which holds when the driver is loaded, ...
LEMMA ListsStart == Init => LInv
<1> SUFFICES ASSUME Init PROVE LInv
    BY SMTT(30)
<1>1. TypeOK
    BY NtModulesAssumption DEF Init, TypeOK, NoModules, Places
<1>2. /\ \A t \in Threads : at[t] = "out" /\ ProcOf[t] \in Procs
      /\ \A p \in Procs : \A m \in Mods : mods[p][m] = 0
      /\ \A p \in Procs : linked[p] = mapped[p] /\ ever[p] = mapped[p] /\ missed[p] = linked[p]
    BY NtModulesAssumption DEF Init, NoModules
<1>3. Loading /\ Exiting
    BY <1>2 DEF Loading, InFlight, Exiting
<1>4. SnapshotFirst /\ NewIsNotListed
    BY <1>2, SMTT(30) DEF Init, SnapshotFirst, NewIsNotListed
<1>5. \A p \in Procs : Listed(p) = {}
  <2>1. \A p \in Procs : \A m \in Mods : ~(mods[p][m] > 0)
      BY <1>2
  <2> QED BY <2>1, Zenon DEF Listed
<1>6. OncePerBase /\ FromThisProcess /\ AloneFindsAll /\ NoneMissing
    BY <1>2, <1>5 DEF OncePerBase, FromThisProcess, AloneFindsAll, NoneMissing
<1> QED BY <1>1, <1>3, <1>4, <1>6 DEF LInv

\* ... and so at every moment.
LEMMA ListsInv == Spec => [](IInv /\ LInv)
BY LockInv, ListsStart, ListsInductive, PTL DEF Spec

\* The list of a process is what its threads and the driver together have made of it,
\* for any number of threads, processes and modules: no loaded module is missing, none
\* is in it twice, and none is of an earlier process with the same EPROCESS.
THEOREM ListsAreRight == Spec => []ListsRight
<1>1. LInv => ListsRight
    BY DEF LInv, ListsRight
<1> QED BY <1>1, ListsInv, PTL

\* "remove the unloaded modules.": when a routine leaves, the list of a process with
\* one loading thread has its loaded modules and the new one, and no other.
THEOREM UnloadedGoAway == Spec => UnloadedAreRemoved
<1>1. IInv /\ LInv /\ [Next]_vars =>
        [\A t \in Threads : at[t] = "push" /\ at'[t] = "link" /\ SingleLoader(ProcOf[t])
            => Listed(ProcOf[t])' \subseteq linked[ProcOf[t]] \cup {image[t]}]_vars
  <2> SUFFICES ASSUME IInv, LInv, Next, NEW t \in Threads,
                      at[t] = "push", at'[t] = "link", SingleLoader(ProcOf[t])
               PROVE  Listed(ProcOf[t])' \subseteq linked[ProcOf[t]] \cup {image[t]}
      OBVIOUS
  <2> USE DEF LInv
  <2> /\ ProcOf \in [Threads -> Procs] /\ at \in [Threads -> Places]
      /\ image \in [Threads -> Mods \cup {"none"}] /\ seen \in [Threads -> SUBSET Mods]
      BY FunctionTypes
  <2> /\ mods \in [Procs -> [Mods -> Nat]] /\ mapped \in [Procs -> SUBSET Mods]
      /\ linked \in [Procs -> SUBSET Mods] /\ missed \in [Procs -> SUBSET Mods]
      /\ ever \in [Procs -> SUBSET Mods]
      BY FunctionTypes
  <2> todo \subseteq Procs /\ untold \subseteq Procs /\ frozen \subseteq Threads
      BY FunctionTypes
  <2>1. PushModule(t)
    <3>1. ASSUME NEW u \in Threads,
                 \/ \E m \in MayLoad[ProcOf[u]] : MapImage(u, m) \/ UnloadImage(u, m)
                 \/ ExitProcess(u) \/ Freeze(u)
          PROVE  at'[t] # "link"
      <4>1. PICK to : at' = at \/ (at' = [at EXCEPT ![u] = to] /\ at[u] = "out")
          BY <3>1, Zenon DEF MapImage, UnloadImage, ExitProcess, Freeze, Go
      <4> QED BY <4>1, Zenon
    <3>2. ASSUME NEW u \in Threads, Step(u), u # t PROVE at'[t] # "link"
      <4>1. PICK to : at' = [at EXCEPT ![u] = to]
          BY <3>2, SMTT(30) DEF Step, EnumUserModules, NoName, Lock, EraseUnloaded, PushModule,
             LinkImage, EraseProcess, Go
      <4> QED BY <3>2, <4>1, SMTT(30)
    <3>3. Step(t) => PushModule(t)
        BY DEF Step, EnumUserModules, NoName, Lock, EraseUnloaded, LinkImage, EraseProcess
    <3>4. CASE \/ DriverEntry \/ DrvUnload \/ Break \/ StartSession \/ EndSession
               \/ \E p \in Procs : Snapshot(p)
        BY <3>4, ZenonT(30) DEF DriverEntry, DrvUnload, Register, Unregister, Break,
           StartSession, EndSession, Snapshot, others
    <3> QED BY <3>1, <3>2, <3>3, <3>4, Zenon DEF Next
  <2>2. Listed(ProcOf[t]) \subseteq linked[ProcOf[t]]
      BY SMTT(30) DEF AloneFindsAll
  <2>3. ProcOf' = ProcOf /\ image[t] \in Mods
      BY <2>1 DEF PushModule, Loading, InFlight
  <2>4. \A m \in Mods : m # image[t] => mods'[ProcOf[t]][m] = mods[ProcOf[t]][m]
      BY <2>1, <2>3 DEF PushModule
  <2> QED BY <2>2, <2>3, <2>4 DEF Listed
<1> QED BY <1>1, ListsInv, PTL, SMTT(30) DEF Spec, UnloadedAreRemoved

=============================================================================
