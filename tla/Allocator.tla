------------------------------ MODULE Allocator ------------------------------
(***************************************************************************)
(* BugChecker's memory (BugChecker/Allocator.cpp): the arena, and operator *)
(* new and delete, which choose between the arena and the kernel pool.     *)
(* The arena has no lock of its own.  It is used by                        *)
(*  - DriverEntry and DrvUnload ("Driver"), at IRQL PASSIVE_LEVEL;         *)
(*  - the notify routines, on any processor, under Root::DebuggerLock with *)
(*    interrupts disabled and Allocator::ForceUse set (NtModulesAccess);   *)
(*  - the debugger session ("KD"), which runs when KD has frozen the other *)
(*    processors.  KD cannot freeze one whose interrupts are disabled.     *)
(* The search of Alloc and the claim of what it found are two steps, so    *)
(* that two users of the arena can come between each other.                *)
(***************************************************************************)
EXTENDS Bitmap

CONSTANTS Notifiers,  \* threads in which notify routines are called
          kdcomHook,  \* "Callback" or "Patch"
          Sizes,      \* sizes of allocations, in blocks with their header
          NtStart,    \* first block of the search of NtModulesAccess ...
          KdStarts    \* ... and of the log window and QuickJS

Users == Notifiers \cup {"Driver", "KD"}

ASSUME AllocatorAssumption ==
    /\ Notifiers \cap {"Driver", "KD"} = {}
    /\ kdcomHook \in {"Callback", "Patch"}
    /\ Sizes \subseteq Nat \ {0}
    /\ NtStart \in Bits
    /\ KdStarts \subseteq Bits

VARIABLES
    bits, header,          \* Bitmap; the header words of the blocks of Arena
    Perf_AllocationsNum, Perf_TotalAllocatedSize,   \* the latter in blocks
    ForceUse, Start0to99,  \* the latter as a block
    lock,                  \* Root::DebuggerLock.state
    drv,                   \* how far DriverEntry and DrvUnload are
    patches,               \* FunctionPatch objects made by PatchKdCom
    notify,                \* the notify routines that are registered
    kd,                    \* "off", "freezing" or "on"
    frozen,                \* the users KD has frozen
    at, req, block,        \* per user: place in the code, sizeInBits, block
    live,                  \* pointers into the arena that are in use
    fatal                  \* the users that are in FatalError

mem  == <<bits, header, Perf_AllocationsNum, Perf_TotalAllocatedSize, live>>
mode == <<ForceUse, Start0to99>>
sys  == <<drv, patches, notify, kd, frozen>>
vars == <<mem, mode, lock, sys, at, req, block, fatal>>

Init ==
    /\ bits = {} /\ header = [b \in Bits |-> 0] /\ live = {}
    /\ Perf_AllocationsNum = 0 /\ Perf_TotalAllocatedSize = 0
    /\ ForceUse = FALSE /\ Start0to99 = 0
    /\ lock = 0
    /\ drv = "init" /\ patches = 0
    /\ notify = {}
    /\ kd = "off" /\ frozen = {}
    /\ at = [u \in Users |-> IF u = "Driver" THEN "body" ELSE "out"]
    /\ req = [u \in Users |-> 0]
    /\ block = [u \in Users |-> 0]
    /\ fatal = {}

Runs(u) == /\ u \notin frozen /\ u \notin fatal
           /\ u = "KD" => kd = "on"

-----------------------------------------------------------------------------
(* BcSpinLock and NtModulesAccess.                                          *)

AreInterruptsEnabled_Always(u) == TRUE

\* A notify routine disables interrupts before it spins; in a session they are
\* disabled as well.
AreInterruptsEnabled(u) == at[u] = "out" \/ u = "Driver"

\* A notify routine is called and comes to its NtModulesAccess(TRUE).
CallNotify(u) ==
    /\ Runs(u) /\ at[u] = "out" /\ notify # {}
    /\ at' = [at EXCEPT ![u] = "spin"]
    /\ UNCHANGED <<mem, mode, lock, sys, req, block, fatal>>

Enter ==
    /\ ForceUse' = TRUE
    /\ Start0to99' = NtStart

Leave ==
    /\ ForceUse' = FALSE
    /\ Start0to99' = 0

CanLock_Always == TRUE

\* The compare-exchange of Lock succeeds.
CanLock == lock = 0

\* Constructor and destructor with the spin lock.
Lock(u) ==
    /\ Runs(u) /\ at[u] = "spin"
    /\ CanLock
    /\ lock' = 1
    /\ Enter
    /\ at' = [at EXCEPT ![u] = "body"]
    /\ UNCHANGED <<mem, sys, req, block, fatal>>

Released_Not == lock

Released == 0

Unlock(u) ==
    /\ Runs(u) /\ at[u] = "body"
    /\ Leave
    /\ lock' = Released
    /\ at' = [at EXCEPT ![u] = "out"]
    /\ UNCHANGED <<mem, sys, req, block, fatal>>

\* Constructor and destructor without it: in a session, and by
\* GetModulesSnapshot while DriverEntry is still alone.
Access(u) ==
    /\ Runs(u) /\ at[u] = "body"
    /\ u = "KD" \/ (u = "Driver" /\ drv = "init")
    /\ IF ForceUse THEN Leave ELSE Enter
    /\ UNCHANGED <<mem, lock, sys, at, req, block, fatal>>

\* LogWnd::AddString and Eval search from another place for a while.
SetStart(b) ==
    /\ Runs("KD") /\ at["KD"] = "body"
    /\ Start0to99' = b
    /\ UNCHANGED <<mem, ForceUse, lock, sys, at, req, block, fatal>>

-----------------------------------------------------------------------------
(* operator new and delete.                                                 *)

MustUseExXxxPool(u) == ~ForceUse /\ AreInterruptsEnabled(u)

\* PatchKdCom allocates two objects after the notify routines are registered;
\* after DriverEntry the driver allocates nothing.
MayNew(u) ==
    /\ Runs(u) /\ at[u] = "body"
    /\ u = "Driver" => \/ drv = "init"
                       \/ drv = "registered" /\ kdcomHook = "Patch" /\ patches < 2

New(u, n) ==
    /\ MayNew(u)
    /\ IF MustUseExXxxPool(u)
         THEN UNCHANGED <<at, req>>
         ELSE /\ at' = [at EXCEPT ![u] = "search"]
              /\ req' = [req EXCEPT ![u] = n]
    /\ patches' = IF drv = "registered" /\ u = "Driver" THEN patches + 1
                                                        ELSE patches
    /\ UNCHANGED <<mem, mode, lock, drv, notify, kd, frozen, block, fatal>>

\* Alloc up to the call of find_next_range_of_unset_bits.
Search(u) ==
    /\ Runs(u) /\ at[u] = "search"
    /\ \/ \E b \in Bits :
            /\ IsFirstFree(bits, Start0to99, req[u], b)
            /\ block' = [block EXCEPT ![u] = b]
            /\ at' = [at EXCEPT ![u] = "claim"]
            /\ UNCHANGED fatal
       \/ /\ NoneFree(bits, Start0to99, req[u])
          /\ fatal' = fatal \cup {u}
          /\ UNCHANGED <<block, at>>
    /\ UNCHANGED <<mem, mode, lock, sys, req>>

Claimed_OneShort(u) == set_range(bits, block[u], req[u] - 1, TRUE)

Claimed(u) == set_range(bits, block[u], req[u], TRUE)

Stamped_Not(u) == header

Stamped(u) == [header EXCEPT ![block[u]] = req[u]]

\* The rest of Alloc.
Claim(u) ==
    /\ Runs(u) /\ at[u] = "claim"
    /\ bits' = Claimed(u)
    /\ header' = Stamped(u)
    /\ live' = live \cup {[block |-> block[u], len |-> req[u]]}
    /\ Perf_AllocationsNum' = Perf_AllocationsNum + 1
    /\ Perf_TotalAllocatedSize' = Perf_TotalAllocatedSize + req[u]
    /\ at' = [at EXCEPT ![u] = "body"]
    /\ req' = [req EXCEPT ![u] = 0]
    /\ block' = [block EXCEPT ![u] = 0]
    /\ UNCHANGED <<mode, lock, sys, fatal>>

\* What Free takes the size of the allocation at p to be.
FreedLen(p) == header[p.block]

Uncounted_One(p) == Perf_TotalAllocatedSize - 1

Uncounted(p) == Perf_TotalAllocatedSize - FreedLen(p)

\* delete of a pointer into the arena: Free trusts the header.
Delete(u, p) ==
    /\ Runs(u) /\ at[u] = "body"
    /\ u = "Driver" => drv \in {"init", "unhooked"}
    /\ IF FreedLen(p) = 0 \/ p.block + FreedLen(p) > m_size
         THEN /\ fatal' = fatal \cup {u}
              /\ UNCHANGED mem
         ELSE /\ bits' = set_range(bits, p.block, FreedLen(p), FALSE)
              /\ live' = live \ {p}
              /\ Perf_AllocationsNum' = Perf_AllocationsNum - 1
              /\ Perf_TotalAllocatedSize' = Uncounted(p)
              /\ UNCHANGED <<header, fatal>>
    /\ UNCHANGED <<mode, lock, sys, at, req, block>>

-----------------------------------------------------------------------------
(* DriverEntry, DrvUnload and the sessions.                                 *)

DriverStep(from, to) ==
    /\ Runs("Driver") /\ at["Driver"] = "body" /\ drv = from
    /\ drv' = to

\* After the snapshot of the modules; either registration may fail.
Register ==
    /\ DriverStep("init", "registered") /\ ~ForceUse
    /\ \E routines \in SUBSET {"process", "image"} : notify' = routines
    /\ UNCHANGED <<mem, mode, lock, patches, kd, frozen, at, req, block, fatal>>

Hook ==
    /\ DriverStep("registered", "hooked")
    /\ kdcomHook = "Patch" => patches = 2
    /\ UNCHANGED <<mem, mode, lock, patches, notify, kd, frozen, at, req, block,
                   fatal>>

Removed_ProcessOnly == notify \ {"process"}

\* The routines that are left when DrvUnload has removed both.
Removed == notify \ {"process", "image"}

\* DrvUnload: the kernel waits for the calls of a routine that it removes.
Unregister ==
    /\ DriverStep("hooked", "unregistered")
    /\ \A u \in Notifiers : at[u] = "out"
    /\ notify' = Removed
    /\ UNCHANGED <<mem, mode, lock, patches, kd, frozen, at, req, block, fatal>>

Unhook ==
    /\ DriverStep("unregistered", "unhooked")
    /\ UNCHANGED <<mem, mode, lock, patches, notify, kd, frozen, at, req, block,
                   fatal>>

\* Allocator::Uninit: the arena is freed with what is left in it.
Uninit ==
    /\ DriverStep("unhooked", "gone")
    /\ bits' = {} /\ live' = {}
    /\ at' = [at EXCEPT !["Driver"] = "out"]
    /\ UNCHANGED <<header, Perf_AllocationsNum, Perf_TotalAllocatedSize, mode,
                   lock, patches, notify, kd, frozen, req, block, fatal>>

\* An exception on some processor: KD freezes the others.
Exception ==
    /\ kd = "off"
    /\ kd' = "freezing"
    /\ UNCHANGED <<mem, mode, lock, drv, patches, notify, frozen, at, req, block,
                   fatal>>

Freeze(u) ==
    /\ kd = "freezing" /\ u \notin frozen /\ AreInterruptsEnabled(u)
    /\ frozen' = frozen \cup {u}
    /\ UNCHANGED <<mem, mode, lock, drv, patches, notify, kd, at, req, block,
                   fatal>>

\* With all processors frozen KD calls KDCOM, and that BugChecker if hooked.
StartSession ==
    /\ kd = "freezing" /\ frozen = Users \ {"KD"}
    /\ IF drv \in {"hooked", "unregistered"}
         THEN /\ kd' = "on"
              /\ at' = [at EXCEPT !["KD"] = "body"]
              /\ UNCHANGED frozen
         ELSE /\ kd' = "off"
              /\ frozen' = {}
              /\ UNCHANGED at
    /\ UNCHANGED <<mem, mode, lock, drv, patches, notify, req, block, fatal>>

EndSession ==
    /\ Runs("KD") /\ at["KD"] = "body" /\ ~ForceUse /\ Start0to99 = 0
    /\ kd' = "off"
    /\ frozen' = {}
    /\ at' = [at EXCEPT !["KD"] = "out"]
    /\ UNCHANGED <<mem, mode, lock, drv, patches, notify, req, block, fatal>>

-----------------------------------------------------------------------------

Arena(u) == \/ \E n \in Sizes : New(u, n)
            \/ Search(u) \/ Claim(u)
            \/ \E p \in live : Delete(u, p)

Notification(u) == CallNotify(u) \/ Lock(u) \/ Unlock(u)

Driver == Register \/ Hook \/ Unregister \/ Unhook \/ Uninit

Session == \/ Exception \/ StartSession \/ EndSession
           \/ \E u \in Users \ {"KD"} : Freeze(u)
           \/ \E b \in KdStarts \cup {0} : SetStart(b)

Next == \/ \E u \in Users : Arena(u)
        \/ \E u \in Notifiers : Notification(u)
        \/ Access("Driver") \/ Access("KD")
        \/ Driver \/ Session

Spec == Init /\ [][Next]_vars

-----------------------------------------------------------------------------
(* Properties.                                                              *)

Blocks(p) == Span(p.block, p.len)

\* The variables have their types; a claim is about blocks of the arena.
TypeOK ==
    /\ bits \subseteq Bits
    /\ header \in [Bits -> Sizes \cup {0}]
    /\ live \subseteq [block : Bits, len : Sizes]
    /\ Perf_AllocationsNum \in Int /\ Perf_TotalAllocatedSize \in Int
    /\ ForceUse \in BOOLEAN /\ Start0to99 \in Bits
    /\ lock \in {0, 1}
    /\ drv \in {"init", "registered", "hooked", "unregistered", "unhooked", "gone"}
    /\ patches \in 0 .. 2
    /\ notify \subseteq {"process", "image"}
    /\ kd \in {"off", "freezing", "on"}
    /\ frozen \subseteq Users \ {"KD"}
    /\ at \in [Users -> {"out", "spin", "body", "search", "claim"}]
    /\ req \in [Users -> Sizes \cup {0}]
    /\ block \in [Users -> Bits]
    /\ fatal \subseteq Users

\* No block belongs to two allocations, and the bit map is exactly the blocks
\* of the allocations in use: no memory is lost and none is given out twice.
BitmapIsLive ==
    /\ \A p, q \in live : p # q => Blocks(p) \cap Blocks(q) = {}
    /\ bits = UNION {Blocks(p) : p \in live}

\* What Free and UserSizeInBytes find in front of a pointer is the size that was
\* allocated: they never report a wrong pointer.
HeadersIntact == \A p \in live : header[p.block] = p.len

\* The counters are those of the blocks in use: LogWnd::AddString bounds the
\* memory of the log by the difference of two values of one of them.
CountersAgree ==
    drv # "gone" => /\ Perf_AllocationsNum = Cardinality(live)
                    /\ Perf_TotalAllocatedSize = Cardinality(bits)

\* A user that is inside the arena's code or may enter it at any moment.
Using(u) == \/ at[u] \in {"search", "claim"}
            \/ at[u] = "body" /\ (u = "Driver" => drv \in {"init", "unhooked"})

\* The arena needs no lock of its own: it never has two users, frozen ones
\* included.
OneUser == \A u, v \in Users : Using(u) /\ Using(v) => u = v

\* A user that holds DebuggerLock is never frozen.  Otherwise another one would
\* spin with interrupts disabled and the session would never start.
HolderRuns == \A u \in Notifiers :
    at[u] \in {"body", "search", "claim"} => lock = 1 /\ u \notin frozen

\* Allocator.cpp, in set_range, says of the bits that are going to be set:
\* "VERIFY((*first & byte_mask) == 0);".  What Alloc found is still free when it
\* claims it.
ClaimIsFree ==
    \A u \in Users : at[u] = "claim" =>
        \A b \in Span(block[u], req[u]) : b \notin bits

\* The arena is not used any more when DrvUnload has freed it.
NoUseAfterUninit == drv = "gone" => \A u \in Users : at[u] = "out"

\* The body of a notify routine comes to its end, a processor that waits for
\* DebuggerLock gets it some time, and one that enables interrupts while KD asks
\* it to stop does so.
Fairness ==
    /\ \A u \in Notifiers : /\ SF_vars(Lock(u)) /\ SF_vars(Unlock(u))
                            /\ WF_vars(Search(u)) /\ WF_vars(Claim(u))
    /\ \A u \in Users \ {"KD"} : SF_vars(Freeze(u))
    /\ WF_vars(StartSession)

FairSpec == Spec /\ Fairness

\* A session starts some time after an exception, unless the arena is full: the
\* notify routines that hold or wait for DebuggerLock are frozen in the end.
EventuallyFrozen == kd = "freezing" ~> kd # "freezing" \/ fatal # {}

\* The arena is consistent whenever a processor may look at it: the bits that are set are
\* the chunks in use, every block has its header, and the counters of "MEM" are those of
\* the blocks, whichever notify routine or session allocated and freed last.
ArenaConsistent == TypeOK /\ BitmapIsLive /\ HeadersIntact /\ CountersAgree

\* The arena, which has no lock of its own, is never used by two at once, and who uses it
\* runs: a session does not wait for a processor that KD has frozen.
ArenaExclusive == OneUser /\ HolderRuns
=============================================================================
