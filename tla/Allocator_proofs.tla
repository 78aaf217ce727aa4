-------------------------- MODULE Allocator_proofs --------------------------
(***************************************************************************)
(* Proofs about Allocator: with the callback hook of KDCOM the arena has   *)
(* one user at a time and none after DrvUnload has freed it, and its bit   *)
(* map, headers and counters agree at every moment, for any number of      *)
(* threads, size of the arena and sequence of allocations.                 *)
(***************************************************************************)
EXTENDS Allocator, FiniteSetTheorems, TLAPS

Inside == {"body", "search", "claim"}
Places == {"out", "spin"} \cup Inside

Types ==
    /\ at \in [Users -> Places]
    /\ lock \in {0, 1}
    /\ drv \in {"init", "registered", "hooked", "unregistered", "unhooked", "gone"}
    /\ notify \subseteq {"process", "image"}
    /\ kd \in {"off", "freezing", "on"}
    /\ frozen \subseteq Users \ {"KD"}

\* A notify routine that is called keeps DrvUnload waiting; it is in its body with
\* the lock, alone; KD has not frozen it there, nor while it spins.
Notified ==
    /\ notify # {} => drv \in {"registered", "hooked"}
    /\ \A u \in Notifiers :
           /\ at[u] # "out" => drv \in {"registered", "hooked"} /\ u \notin frozen
           /\ at[u] \in Inside => lock = 1
    /\ \A u, v \in Notifiers : at[u] \in Inside /\ at[v] \in Inside => u = v

\* The driver allocates before it registers anything.
Alone ==
    /\ at["Driver"] \in {"search", "claim"} => drv = "init"
    /\ at["Driver"] = "out" <=> drv = "gone"
    /\ at["Driver"] # "spin"

\* In a session everybody else is frozen, and DrvUnload has not unhooked yet.
InSession ==
    /\ at["KD"] # "spin"
    /\ at["KD"] # "out" <=> kd = "on"
    /\ kd = "on" => frozen = Users \ {"KD"} /\ drv \in {"hooked", "unregistered"}

IInv == Types /\ Notified /\ Alone /\ InSession

control == <<at, lock, drv, notify, kd, frozen>>

\* The users are the notify routines, the driver and KD, all different.
LEMMA UsersApart ==
    /\ "Driver" \in Users /\ "KD" \in Users /\ "Driver" # "KD"
    /\ \A u \in Notifiers : u \in Users /\ u # "Driver" /\ u # "KD"
    /\ \A u \in Users : u \in Notifiers \/ u = "Driver" \/ u = "KD"
BY AllocatorAssumption DEF Users

\* Steps that allocate from the pool, free, or change only where the search starts.
LEMMA ControlKeeps ==
    ASSUME IInv, UNCHANGED control
    PROVE  IInv'
BY DEF control, IInv, Types, Notified, Alone, InSession

\* operator new and Alloc, step by step, by whoever is inside; only the driver must
\* not begin after it has registered the notify routines.
LEMMA ArenaStepKeeps ==
    ASSUME IInv, NEW u \in Users, at[u] \in Inside, NEW to \in Inside,
           u = "Driver" => drv = "init",
           at' = [at EXCEPT ![u] = to], UNCHANGED <<lock, drv, notify, kd, frozen>>
    PROVE  IInv'
<1>1. Types'
    BY DEF IInv, Types, Places
<1>2. Notified'
    BY UsersApart DEF IInv, Types, Notified, Inside
<1>3. Alone'
    BY UsersApart DEF IInv, Types, Alone, Inside
<1>4. InSession'
    BY UsersApart DEF IInv, Types, InSession, Inside
<1> QED
    BY <1>1, <1>2, <1>3, <1>4 DEF IInv

\* The use of the arena keeps the invariant if PatchKdCom allocates nothing.
LEMMA ArenaKeeps ==
    ASSUME IInv, kdcomHook = "Callback", NEW u \in Users, Arena(u)
    PROVE  IInv'
<1>1. CASE \E n \in Sizes : New(u, n)
    <2>1. PICK n \in Sizes : New(u, n)
        BY <1>1
    <2>2. UNCHANGED <<lock, drv, notify, kd, frozen>>
        BY <2>1 DEF New
    <2>3. CASE UNCHANGED at
        BY <2>2, <2>3, ControlKeeps DEF control
    <2>4. CASE at' = [at EXCEPT ![u] = "search"]
        <3>1. at[u] = "body" /\ (u = "Driver" => drv = "init")
            BY <2>1 DEF New, MayNew
        <3> QED
            BY <2>2, <2>4, <3>1, ArenaStepKeeps, Zenon DEF Inside
    <2> QED
        BY <2>1, <2>3, <2>4 DEF New
<1>2. CASE Search(u)
    <2>1. UNCHANGED <<lock, drv, notify, kd, frozen>> /\ at[u] = "search"
        BY <1>2 DEF Search, sys
    <2>2. CASE UNCHANGED at
        BY <2>1, <2>2, ControlKeeps DEF control
    <2>3. CASE at' = [at EXCEPT ![u] = "claim"]
        <3>1. u = "Driver" => drv = "init"
            BY <2>1 DEF IInv, Alone
        <3> QED
            BY <2>1, <2>3, <3>1, ArenaStepKeeps, Zenon DEF Inside
    <2> QED
        BY <1>2, <2>2, <2>3 DEF Search
<1>3. CASE Claim(u)
    <2>1. /\ at[u] = "claim" /\ at' = [at EXCEPT ![u] = "body"]
          /\ UNCHANGED <<lock, drv, notify, kd, frozen>>
        BY <1>3 DEF Claim, sys
    <2>2. u = "Driver" => drv = "init"
        BY <2>1 DEF IInv, Alone
    <2> QED
        BY <2>1, <2>2, ArenaStepKeeps, Zenon DEF Inside
<1>4. CASE \E p \in live : Delete(u, p)
    BY <1>4, ControlKeeps DEF Delete, sys, control
<1> QED
    BY <1>1, <1>2, <1>3, <1>4 DEF Arena

\* NtModulesAccess(TRUE) in a notify routine.
LEMMA NotificationKeeps ==
    ASSUME IInv, NEW u \in Notifiers, Notification(u)
    PROVE  IInv'
<1>0. u \in Users /\ u # "Driver" /\ u # "KD"
    BY UsersApart
<1>1. CASE CallNotify(u)
    <2>1. /\ u \notin frozen /\ at[u] = "out" /\ notify # {}
          /\ at' = [at EXCEPT ![u] = "spin"] /\ UNCHANGED <<lock, drv, notify, kd, frozen>>
        BY <1>1 DEF CallNotify, Runs, sys
    <2> QED
        BY <1>0, <2>1, UsersApart DEF IInv, Types, Places, Notified, Alone, InSession, Inside
<1>2. CASE Lock(u)
    <2>1. /\ at[u] = "spin" /\ lock = 0 /\ lock' = 1
          /\ at' = [at EXCEPT ![u] = "body"] /\ UNCHANGED <<drv, notify, kd, frozen>>
        BY <1>2 DEF Lock, CanLock, sys
    <2>2. \A v \in Notifiers : at[v] \notin Inside
        BY <2>1 DEF IInv, Notified
    <2> QED
        BY <1>0, <2>1, <2>2, UsersApart DEF IInv, Types, Places, Notified, Alone, InSession,
           Inside
<1>3. CASE Unlock(u)
    <2>1. /\ at[u] = "body" /\ lock' = 0
          /\ at' = [at EXCEPT ![u] = "out"] /\ UNCHANGED <<drv, notify, kd, frozen>>
        BY <1>3 DEF Unlock, Released, sys
    <2>2. \A v \in Notifiers : v # u => at[v] \notin Inside
        BY <2>1 DEF IInv, Notified, Inside
    <2> QED
        BY <1>0, <2>1, <2>2, UsersApart DEF IInv, Types, Places, Notified, Alone, InSession,
           Inside
<1> QED
    BY <1>1, <1>2, <1>3 DEF Notification

\* DriverEntry and DrvUnload; DrvUnload waits for the notify routines before it
\* unhooks KDCOM, and only then frees the arena.
LEMMA DriverKeeps ==
    ASSUME IInv, Driver
    PROVE  IInv'
<1>0. at["Driver"] = "body" /\ kd # "on" /\ UNCHANGED <<lock, kd, frozen>>
    <2>1. at["Driver"] = "body" /\ "Driver" \notin frozen /\ UNCHANGED <<lock, kd, frozen>>
        BY DEF Driver, Register, Hook, Unregister, Unhook, Uninit, DriverStep, Runs
    <2> QED
        BY <2>1, UsersApart DEF IInv, InSession
<1>1. CASE Register
    <2>1. /\ drv = "init" /\ drv' = "registered" /\ UNCHANGED at
          /\ notify' \subseteq {"process", "image"}
        BY <1>1 DEF Register, DriverStep
    <2> QED
        BY <1>0, <2>1 DEF IInv, Types, Notified, Alone, InSession
<1>2. CASE Hook
    BY <1>0, <1>2 DEF Hook, DriverStep, IInv, Types, Notified, Alone, InSession
<1>3. CASE Unregister
    <2>1. /\ drv = "hooked" /\ drv' = "unregistered" /\ UNCHANGED at
          /\ \A u \in Notifiers : at[u] = "out"
        BY <1>3 DEF Unregister, DriverStep
    <2>2. notify' = {}
        BY <1>3 DEF Unregister, Removed, IInv, Types
    <2> QED
        BY <1>0, <2>1, <2>2 DEF IInv, Types, Notified, Alone, InSession, Inside
<1>4. CASE Unhook
    BY <1>0, <1>4 DEF Unhook, DriverStep, IInv, Types, Notified, Alone, InSession
<1>5. CASE Uninit
    <2>1. drv = "unhooked" /\ drv' = "gone" /\ at' = [at EXCEPT !["Driver"] = "out"]
        BY <1>5 DEF Uninit, DriverStep
    <2>2. UNCHANGED notify
        BY <1>5 DEF Uninit
    <2> QED
        BY <1>0, <2>1, <2>2, UsersApart DEF IInv, Types, Places, Notified, Alone, InSession,
           Inside
<1> QED
    BY <1>1, <1>2, <1>3, <1>4, <1>5 DEF Driver

\* KD freezes processors only where interrupts are enabled, and a session begins
\* when all are frozen.
LEMMA SessionKeeps ==
    ASSUME IInv, Session
    PROVE  IInv'
<1>1. CASE Exception
    BY <1>1 DEF Exception, IInv, Types, Notified, Alone, InSession
<1>2. CASE StartSession
    <2>1. kd = "freezing" /\ frozen = Users \ {"KD"} /\ UNCHANGED <<lock, drv, notify>>
        BY <1>2 DEF StartSession
    <2>2. CASE drv \in {"hooked", "unregistered"}
        <3>1. kd' = "on" /\ at' = [at EXCEPT !["KD"] = "body"] /\ UNCHANGED frozen
            BY <1>2, <2>2 DEF StartSession
        <3> QED
            BY <2>1, <2>2, <3>1, UsersApart DEF IInv, Types, Places, Notified, Alone,
               InSession, Inside
    <2>3. CASE drv \notin {"hooked", "unregistered"}
        <3>1. kd' = "off" /\ frozen' = {} /\ UNCHANGED at
            BY <1>2, <2>3 DEF StartSession
        <3> QED
            BY <2>1, <3>1 DEF IInv, Types, Notified, Alone, InSession
    <2> QED
        BY <2>2, <2>3
<1>3. CASE EndSession
    <2>1. /\ kd' = "off" /\ frozen' = {} /\ at' = [at EXCEPT !["KD"] = "out"]
          /\ UNCHANGED <<lock, drv, notify>>
        BY <1>3 DEF EndSession
    <2> QED
        BY <2>1, UsersApart DEF IInv, Types, Places, Notified, Alone, InSession, Inside
<1>4. CASE \E u \in Users \ {"KD"} : Freeze(u)
    <2>1. PICK u \in Users \ {"KD"} : Freeze(u)
        BY <1>4
    <2>2. /\ kd = "freezing" /\ (at[u] = "out" \/ u = "Driver")
          /\ frozen' = frozen \cup {u} /\ UNCHANGED <<at, lock, drv, notify, kd>>
        BY <2>1 DEF Freeze, AreInterruptsEnabled
    <2> QED
        BY <2>2, UsersApart DEF IInv, Types, Notified, Alone, InSession
<1>5. CASE \E b \in KdStarts \cup {0} : SetStart(b)
    BY <1>5, ControlKeeps DEF SetStart, sys, control
<1> QED
    BY <1>1, <1>2, <1>3, <1>4, <1>5 DEF Session

\* The invariant holds with the callback hook.
LEMMA Inductive ==
    ASSUME kdcomHook = "Callback"
    PROVE  Spec => []IInv
<1>1. Init => IInv
    BY UsersApart DEF Init, IInv, Types, Places, Inside, Notified, Alone, InSession
<1>2. IInv /\ [Next]_vars => IInv'
    <2> SUFFICES ASSUME IInv, [Next]_vars PROVE IInv'
        OBVIOUS
    <2>1. CASE UNCHANGED vars
        BY <2>1, ControlKeeps DEF vars, sys, control
    <2>2. CASE Access("Driver") \/ Access("KD")
        BY <2>2, ControlKeeps DEF Access, sys, control
    <2> QED
        BY <2>1, <2>2, ArenaKeeps, NotificationKeeps, DriverKeeps, SessionKeeps DEF Next
<1> QED
    BY <1>1, <1>2, PTL DEF Spec

\* With the callback hook the arena needs no lock of its own: it never has two
\* users, and a notify routine that holds DebuggerLock is never frozen.
THEOREM ArenaNeedsNoLock ==
    ASSUME kdcomHook = "Callback"
    PROVE  Spec => []ArenaExclusive
<1>1. IInv => OneUser
    <2> SUFFICES ASSUME IInv, NEW u \in Users, NEW v \in Users, Using(u), Using(v)
                 PROVE  u = v
        BY DEF OneUser
    <2>1. \A x \in Users : Using(x) => at[x] \in Inside
        BY DEF Using, Inside
    <2>2. Using("Driver") => drv \in {"init", "unhooked"}
        BY DEF IInv, Alone, Using
    <2>3. at["KD"] \in Inside => /\ drv \in {"hooked", "unregistered"}
                                 /\ \A x \in Notifiers : at[x] \notin Inside
        BY UsersApart DEF IInv, InSession, Notified, Inside
    <2> QED
        BY <2>1, <2>2, <2>3, UsersApart DEF IInv, Notified, Inside
<1>2. IInv => HolderRuns
    BY DEF IInv, Notified, Inside, HolderRuns
<1> QED
    BY <1>1, <1>2, Inductive, PTL DEF ArenaExclusive

\* With the callback hook nobody is inside a notify routine, a session or the driver
\* when DrvUnload has freed the arena.
THEOREM UninitIsLast ==
    ASSUME kdcomHook = "Callback"
    PROVE  Spec => []NoUseAfterUninit
<1>1. IInv => NoUseAfterUninit
    BY UsersApart DEF IInv, Types, Notified, Alone, InSession, NoUseAfterUninit
<1> QED
    BY <1>1, Inductive, PTL

-----------------------------------------------------------------------------
(* The arena.                                                               *)

\* Division by the number of bits of a byte.
LEMMA DivFacts ==
    ASSUME NEW a \in Nat
    PROVE  /\ a \div ByteBits \in Nat /\ a % ByteBits \in Nat
           /\ a % ByteBits < ByteBits
           /\ a = (a \div ByteBits) * ByteBits + (a % ByteBits)
<1>1. a \div ByteBits \in Nat
    BY BitmapAssumption
<1>2. a % ByteBits \in Nat /\ a % ByteBits < ByteBits
    BY BitmapAssumption
<1>3. a = (a \div ByteBits) * ByteBits + (a % ByteBits)
    BY BitmapAssumption
<1> QED BY <1>1, <1>2, <1>3

LEMMA Monotone ==
    ASSUME NEW p \in Nat, NEW q \in Nat, p < q
    PROVE  p * ByteBits + ByteBits <= q * ByteBits
<1>1. PICK d \in Nat : q = p + 1 + d
    <2>1. q - p - 1 \in Nat /\ q = p + 1 + (q - p - 1)
      OBVIOUS
    <2> QED BY <2>1
<1>2. q * ByteBits = p * ByteBits + ByteBits + d * ByteBits
    BY <1>1, BitmapAssumption
<1>3. d * ByteBits \in Nat
    BY BitmapAssumption
<1> QED BY <1>2, <1>3, BitmapAssumption

LEMMA InByte ==
    ASSUME NEW q \in Nat, NEW b \in Nat, q * ByteBits <= b, b < q * ByteBits + ByteBits
    PROVE  b % ByteBits = b - q * ByteBits
<1>1. b \div ByteBits \in Nat /\ b % ByteBits \in Nat /\ b % ByteBits < ByteBits
      /\ b = (b \div ByteBits) * ByteBits + (b % ByteBits)
    BY DivFacts
<1> DEFINE c == b \div ByteBits
<1>2. c = q
  <2>1. CASE c < q
    <3>1. c * ByteBits + ByteBits <= q * ByteBits
      BY <1>1, <2>1, Monotone
    <3>2. c * ByteBits \in Nat /\ q * ByteBits \in Nat
      BY <1>1, BitmapAssumption
    <3> HIDE DEF c
    <3> QED BY <1>1, <3>1, <3>2, BitmapAssumption DEF c
  <2>2. CASE q < c
    <3>1. q * ByteBits + ByteBits <= c * ByteBits
      BY <1>1, <2>2, Monotone
    <3>2. c * ByteBits \in Nat /\ q * ByteBits \in Nat
      BY <1>1, BitmapAssumption
    <3> QED BY <1>1, <3>1, <3>2, BitmapAssumption
  <2> QED BY <1>1, <2>1, <2>2
<1> QED BY <1>1, <1>2, BitmapAssumption

\* The two mask tables are what is in the first byte from `start` on ...
LEMMA FirstByte ==
    ASSUME NEW start \in Nat
    PROVE  bitmask_first_byte(start)
             = start .. (start \div ByteBits) * ByteBits + ByteBits - 1
<1> DEFINE f == start \div ByteBits
<1>1. /\ f \in Nat /\ start % ByteBits \in Nat /\ start % ByteBits < ByteBits
      /\ start = f * ByteBits + (start % ByteBits) /\ f * ByteBits \in Nat
    BY DivFacts, BitmapAssumption
<1>2. (f + 1) * ByteBits = f * ByteBits + ByteBits
    BY <1>1, BitmapAssumption
<1>3. ByteRange(f, f + 1) = f * ByteBits .. (f + 1) * ByteBits - 1
    BY DEF ByteRange
<1>4. ASSUME NEW b \in ByteRange(f, f + 1)
      PROVE  b \in Nat /\ b % ByteBits = b - f * ByteBits
  <2>1. b \in Nat /\ f * ByteBits <= b /\ b < f * ByteBits + ByteBits
    <3> HIDE DEF f
    <3> QED BY <1>1, <1>2, <1>3, BitmapAssumption
  <2> QED BY <1>1, <2>1, InByte
<1>5. bitmask_first_byte(start) = {b \in ByteRange(f, f + 1) : b % ByteBits >= start % ByteBits}
    BY DEF bitmask_first_byte
<1> HIDE DEF f
<1>6. \A b : b \in bitmask_first_byte(start) <=> b \in start .. f * ByteBits + ByteBits - 1
    BY <1>1, <1>2, <1>3, <1>4, <1>5, BitmapAssumption
<1> QED BY <1>6, Zenon DEF f

\* ... and in the last one before `end`.
LEMMA LastByte ==
    ASSUME NEW end \in Nat
    PROVE  bitmask_last_byte(end) = (end \div ByteBits) * ByteBits .. end - 1
<1> DEFINE l == end \div ByteBits
<1>1. /\ l \in Nat /\ end % ByteBits \in Nat /\ end % ByteBits < ByteBits
      /\ end = l * ByteBits + (end % ByteBits) /\ l * ByteBits \in Nat
    BY DivFacts, BitmapAssumption
<1>2. (l + 1) * ByteBits = l * ByteBits + ByteBits
    BY <1>1, BitmapAssumption
<1>3. ByteRange(l, l + 1) = l * ByteBits .. (l + 1) * ByteBits - 1
    BY DEF ByteRange
<1>4. ASSUME NEW b \in ByteRange(l, l + 1)
      PROVE  b \in Nat /\ b % ByteBits = b - l * ByteBits
  <2>1. b \in Nat /\ l * ByteBits <= b /\ b < l * ByteBits + ByteBits
    <3> HIDE DEF l
    <3> QED BY <1>1, <1>2, <1>3, BitmapAssumption
  <2> QED BY <1>1, <2>1, InByte
<1>5. bitmask_last_byte(end) = {b \in ByteRange(l, l + 1) : b % ByteBits < end % ByteBits}
    BY DEF bitmask_last_byte
<1> HIDE DEF l
<1>6. \A b : b \in bitmask_last_byte(end) <=> b \in l * ByteBits .. end - 1
    BY <1>1, <1>2, <1>3, <1>4, <1>5, BitmapAssumption
<1> QED BY <1>6, Zenon DEF l

\* The bits that set_range changes, byte-wise, are the range that its caller means,
\* for every width of a byte.
THEOREM MaskIsRange ==
    ASSUME NEW start \in Nat, NEW len \in Nat
    PROVE  RangeMask(start, len) = Span(start, len)
<1> DEFINE f == start \div ByteBits
           l == (start + len) \div ByteBits
<1>1. /\ f \in Nat /\ f * ByteBits \in Nat
      /\ f * ByteBits <= start /\ start < f * ByteBits + ByteBits
  <2>1. f \in Nat /\ start % ByteBits \in Nat /\ start % ByteBits < ByteBits
        /\ start = f * ByteBits + (start % ByteBits)
      BY DivFacts
  <2>2. f * ByteBits \in Nat
      BY <2>1, BitmapAssumption
  <2> QED BY <2>1, <2>2, BitmapAssumption
<1>2. /\ l \in Nat /\ l * ByteBits \in Nat
      /\ l * ByteBits <= start + len /\ start + len < l * ByteBits + ByteBits
  <2>1. l \in Nat /\ (start + len) % ByteBits \in Nat /\ (start + len) % ByteBits < ByteBits
        /\ start + len = l * ByteBits + ((start + len) % ByteBits)
      BY DivFacts
  <2>2. l * ByteBits \in Nat
      BY <2>1, BitmapAssumption
  <2> QED BY <2>1, <2>2, BitmapAssumption
<1>3. bitmask_first_byte(start) = start .. f * ByteBits + ByteBits - 1
    BY FirstByte
<1>4. bitmask_last_byte(start + len) = l * ByteBits .. start + len - 1
    BY LastByte
<1>5. /\ (f + 1) * ByteBits = f * ByteBits + ByteBits
      /\ ByteRange(f + 1, l) = f * ByteBits + ByteBits .. l * ByteBits - 1
    BY <1>1, BitmapAssumption DEF ByteRange
<1>6. RangeMask(start, len) =
        IF f = l THEN bitmask_first_byte(start) \cap bitmask_last_byte(start + len)
        ELSE bitmask_first_byte(start) \cup bitmask_last_byte(start + len)
                \cup ByteRange(f + 1, l)
    BY DEF RangeMask
<1>7. f # l => f * ByteBits + ByteBits <= l * ByteBits
  <2>1. CASE f < l
      BY <1>1, <1>2, <2>1, Monotone
  <2>2. CASE l < f
    <3>1. l * ByteBits + ByteBits <= f * ByteBits
        BY <1>1, <1>2, <2>2, Monotone
    <3> HIDE DEF f, l
    <3> QED BY <1>1, <1>2, <3>1, BitmapAssumption
  <2> QED BY <1>1, <1>2, <2>1, <2>2
<1> HIDE DEF f, l
<1>8. CASE f = l
    BY <1>1, <1>2, <1>3, <1>4, <1>6, <1>8, BitmapAssumption DEF Span
<1>9. CASE f # l
    BY <1>1, <1>2, <1>3, <1>4, <1>5, <1>6, <1>7, <1>9, BitmapAssumption, SMTT(30) DEF Span
<1> QED BY <1>8, <1>9

\* A range has as many bits as its length says.
LEMMA SpanSize ==
    ASSUME NEW start \in Nat, NEW len \in Nat \ {0}
    PROVE  /\ IsFiniteSet(Span(start, len)) /\ Cardinality(Span(start, len)) = len
           /\ start \in Span(start, len) /\ Span(start, len) \subseteq Nat
<1>1. start \in Int /\ start + len - 1 \in Int /\ ~(start > start + len - 1)
    OBVIOUS
<1>2. /\ IsFiniteSet(start .. start + len - 1)
      /\ Cardinality(start .. start + len - 1) =
            IF start > start + len - 1 THEN 0 ELSE start + len - 1 - start + 1
    BY <1>1, FS_Interval
<1>3. Cardinality(start .. start + len - 1) = len
    BY <1>1, <1>2
<1> QED BY <1>2, <1>3 DEF Span

\* What Alloc has found and not yet claimed is free, and of the size that was asked
\* for; the allocations are finitely many.
ClaimSound ==
    /\ IsFiniteSet(live)
    /\ \A u \in Users :
        /\ at[u] \in {"search", "claim"} => req[u] \in Sizes
        /\ at[u] = "claim" => FreeRange(bits, block[u], req[u])

AInv == ArenaConsistent /\ ClaimSound

\* The constants: there is a block 0, and the sizes are positive.
LEMMA ConstantsFit ==
    /\ 0 \in Bits /\ Bits \subseteq Nat /\ Sizes \subseteq Nat \ {0} /\ 0 \notin Sizes
    /\ IsFiniteSet(Bits)
<1>1. m_size \in Nat /\ NtStart \in 0 .. m_size - 1 /\ Sizes \subseteq Nat \ {0}
    BY BitmapAssumption, AllocatorAssumption DEF Bits
<1>2. IsFiniteSet(0 .. m_size - 1)
    BY <1>1, FS_Interval
<1> QED BY <1>1, <1>2 DEF Bits

\* The rest of Alloc: the blocks it takes are nobody's.
LEMMA ClaimKeepsArena ==
    ASSUME IInv, OneUser, AInv, NEW u \in Users, Claim(u)
    PROVE  BitmapIsLive' /\ HeadersIntact' /\ CountersAgree' /\ IsFiniteSet(live')
             /\ bits' \subseteq Bits /\ header' \in [Bits -> Sizes \cup {0}]
             /\ live' \subseteq [block : Bits, len : Sizes]
<1> DEFINE b == block[u]  n == req[u]  new == [block |-> b, len |-> n]
<1>1. /\ b \in Bits /\ n \in Sizes /\ b \in Nat /\ n \in Nat \ {0}
      /\ FreeRange(bits, b, n) /\ at[u] = "claim"
    BY ConstantsFit, Zenon DEF AInv, ArenaConsistent, TypeOK, ClaimSound, Claim
<1>2. /\ IsFiniteSet(Span(b, n)) /\ Cardinality(Span(b, n)) = n /\ b \in Span(b, n)
    BY <1>1, SpanSize
<1>3. bits' = bits \cup Span(b, n)
  <2>1. bits' = set_range(bits, b, n, TRUE)
      BY Zenon DEF Claim, Claimed
  <2>2. n # 0 /\ RangeMask(b, n) = Span(b, n)
      BY <1>1, MaskIsRange
  <2> QED BY <2>1, <2>2, Zenon DEF set_range
<1>4. /\ header' = [header EXCEPT ![b] = n] /\ live' = live \cup {new}
      /\ Perf_AllocationsNum' = Perf_AllocationsNum + 1
      /\ Perf_TotalAllocatedSize' = Perf_TotalAllocatedSize + n
      /\ drv' = drv
    BY DEF Claim, Stamped, sys
<1>5. Span(b, n) \cap bits = {} /\ Span(b, n) \subseteq Bits
  <2>1. Span(b, n) \cap bits = {}
      BY <1>1 DEF FreeRange
  <2>2. b + n <= m_size
      BY <1>1 DEF FreeRange
  <2>3. \A x \in Span(b, n) : x \in Int /\ 0 <= x /\ x <= m_size - 1
      BY <1>1, <2>2, BitmapAssumption DEF Span
  <2> QED BY <2>1, <2>3 DEF Bits
<1>6. /\ \A p, q \in live : p # q => Blocks(p) \cap Blocks(q) = {}
      /\ bits = UNION {Blocks(p) : p \in live}
      /\ live \subseteq [block : Bits, len : Sizes] /\ IsFiniteSet(live)
      /\ bits \subseteq Bits /\ header \in [Bits -> Sizes \cup {0}]
    BY DEF AInv, ArenaConsistent, BitmapIsLive, TypeOK, ClaimSound
<1>7. Blocks(new) = Span(b, n)
    BY DEF Blocks
<1> HIDE DEF b, n, new
<1>8. \A p \in live : Blocks(p) \subseteq bits
    BY <1>6
<1>9. new \notin live
    BY <1>2, <1>5, <1>7, <1>8
<1>10. BitmapIsLive'
  <2>1. \A p, q \in live' : p # q => Blocks(p) \cap Blocks(q) = {}
      BY <1>4, <1>5, <1>6, <1>7, <1>8
  <2>2. bits' = UNION {Blocks(p) : p \in live'}
      BY <1>3, <1>4, <1>6, <1>7
  <2> QED BY <2>1, <2>2 DEF BitmapIsLive, Blocks
<1>11. HeadersIntact'
  <2>1. ASSUME NEW p \in live PROVE p.block # b /\ header[p.block] = p.len /\ p.block \in Bits
    <3>1. p.block \in Bits /\ p.len \in Sizes /\ p.block \in Nat /\ p.len \in Nat \ {0}
        BY <1>6, ConstantsFit, Zenon
    <3>2. p.block \in Blocks(p)
        BY <3>1, SpanSize DEF Blocks
    <3>3. header[p.block] = p.len
        BY DEF AInv, ArenaConsistent, HeadersIntact
    <3> QED BY <1>2, <1>5, <1>8, <3>1, <3>2, <3>3
  <2>2. new.block = b /\ new.len = n
      BY DEF new
  <2> QED BY <1>1, <1>4, <1>6, <2>1, <2>2 DEF HeadersIntact
<1>12. CountersAgree'
  <2> SUFFICES ASSUME drv # "gone" PROVE CountersAgree'
      BY <1>4 DEF CountersAgree
  <2>1. Perf_AllocationsNum = Cardinality(live) /\ Perf_TotalAllocatedSize = Cardinality(bits)
      BY DEF AInv, ArenaConsistent, CountersAgree
  <2>2. Cardinality(live') = Cardinality(live) + 1
      BY <1>4, <1>6, <1>9, FS_AddElement, Zenon
  <2>3. IsFiniteSet(bits)
      BY <1>6, ConstantsFit, FS_Subset
  <2>4. Cardinality(bits \cup Span(b, n)) =
          Cardinality(bits) + Cardinality(Span(b, n)) - Cardinality(bits \cap Span(b, n))
      BY <1>2, <2>3, FS_Union
  <2>5. Cardinality(bits \cap Span(b, n)) = 0
      BY <1>5, FS_EmptySet
  <2>6. Cardinality(bits) \in Nat /\ Cardinality(live) \in Nat
      BY <1>6, <2>3, FS_CardinalityType
  <2> QED BY <1>1, <1>2, <1>3, <1>4, <2>1, <2>2, <2>4, <2>5, <2>6 DEF CountersAgree
<1>13. IsFiniteSet(live')
    BY <1>4, <1>6, FS_AddElement
<1>14. header' \in [Bits -> Sizes \cup {0}] /\ bits' \subseteq Bits
    BY <1>1, <1>3, <1>4, <1>5, <1>6
<1>15. live' \subseteq [block : Bits, len : Sizes]
    BY <1>1, <1>4, <1>6 DEF new
<1> QED BY <1>10, <1>11, <1>12, <1>13, <1>14, <1>15

\* Free: the header is the allocation's, and its blocks were no one else's.
LEMMA DeleteKeepsArena ==
    ASSUME AInv, NEW u \in Users, NEW p \in live, Delete(u, p)
    PROVE  BitmapIsLive' /\ HeadersIntact' /\ CountersAgree' /\ IsFiniteSet(live')
             /\ bits' \subseteq bits /\ header' = header /\ live' \subseteq live
<1>1. /\ \A x, y \in live : x # y => Blocks(x) \cap Blocks(y) = {}
      /\ bits = UNION {Blocks(x) : x \in live}
      /\ live \subseteq [block : Bits, len : Sizes] /\ IsFiniteSet(live)
      /\ bits \subseteq Bits
    BY DEF AInv, ArenaConsistent, BitmapIsLive, TypeOK, ClaimSound
<1>2. p.block \in Nat /\ p.len \in Nat \ {0}
    BY <1>1, ConstantsFit, Zenon
<1>3. FreedLen(p) = p.len
    BY SMTT(30) DEF AInv, ArenaConsistent, HeadersIntact, FreedLen
<1>4. CASE UNCHANGED mem
    BY <1>4 DEF mem, AInv, ArenaConsistent, ClaimSound, BitmapIsLive, HeadersIntact,
                CountersAgree, Delete, sys
<1>5. CASE ~UNCHANGED mem
  <2>1. /\ bits' = set_range(bits, p.block, FreedLen(p), FALSE)
        /\ live' = live \ {p} /\ header' = header /\ drv' = drv
        /\ Perf_AllocationsNum' = Perf_AllocationsNum - 1
        /\ Perf_TotalAllocatedSize' = Perf_TotalAllocatedSize - FreedLen(p)
      BY <1>5, Zenon DEF Delete, Uncounted, sys
  <2>2. bits' = bits \ Blocks(p)
    <3>1. p.len # 0 /\ RangeMask(p.block, p.len) = Blocks(p)
        BY <1>2, MaskIsRange DEF Blocks
    <3> QED BY <1>3, <2>1, <3>1, Zenon DEF set_range
  <2>3. IsFiniteSet(Blocks(p)) /\ Cardinality(Blocks(p)) = p.len
      BY <1>2, SpanSize DEF Blocks
  <2>4. BitmapIsLive'
    <3>1. \A x, y \in live' : x # y => Blocks(x) \cap Blocks(y) = {}
        BY <1>1, <2>1
    <3>2. bits' = UNION {Blocks(x) : x \in live'}
      <4>1. \A c : c \in bits' <=> c \in bits /\ c \notin Blocks(p)
          BY <2>2
      <4>2. \A c : c \in bits <=> \E x \in live : c \in Blocks(x)
          BY <1>1
      <4>3. \A c : c \in UNION {Blocks(x) : x \in live'} <=> \E x \in live : x # p /\ c \in Blocks(x)
          BY <2>1
      <4>4. \A x \in live : \A c : x # p /\ c \in Blocks(x) => c \notin Blocks(p)
          BY <1>1
      <4>5. \A c : c \in bits' <=> c \in UNION {Blocks(x) : x \in live'}
          BY <4>1, <4>2, <4>3, <4>4
      <4> QED BY <4>5
    <3> QED BY <3>1, <3>2 DEF BitmapIsLive, Blocks
  <2>5. HeadersIntact'
      BY <2>1 DEF AInv, ArenaConsistent, HeadersIntact
  <2>6. CountersAgree'
    <3> SUFFICES ASSUME drv # "gone" PROVE CountersAgree'
        BY <2>1, Zenon DEF CountersAgree
    <3>1. Perf_AllocationsNum = Cardinality(live) /\ Perf_TotalAllocatedSize = Cardinality(bits)
        BY DEF AInv, ArenaConsistent, CountersAgree
    <3>2. Cardinality(live') = Cardinality(live) - 1
        BY <1>1, <2>1, FS_RemoveElement, Zenon
    <3>3. IsFiniteSet(bits)
        BY <1>1, ConstantsFit, FS_Subset
    <3>4. Cardinality(bits \ Blocks(p)) = Cardinality(bits) - Cardinality(bits \cap Blocks(p))
        BY <3>3, FS_Difference, SMTT(30)
    <3>5. bits \cap Blocks(p) = Blocks(p)
        BY <1>1
    <3> QED BY <1>3, <2>1, <2>2, <2>3, <3>1, <3>2, <3>4, <3>5, Zenon DEF CountersAgree
  <2>7. IsFiniteSet(live')
      BY <1>1, <2>1, FS_RemoveElement
  <2> QED BY <2>1, <2>2, <2>4, <2>5, <2>6, <2>7, Zenon
<1> QED BY <1>4, <1>5

\* What the arena holds.
Stored ==
    /\ bits \subseteq Bits /\ header \in [Bits -> Sizes \cup {0}]
    /\ live \subseteq [block : Bits, len : Sizes] /\ IsFiniteSet(live)
    /\ BitmapIsLive /\ HeadersIntact /\ CountersAgree

\* What its users ask for.
Asked ==
    /\ req \in [Users -> Sizes \cup {0}] /\ block \in [Users -> Bits]
    /\ \A u \in Users :
        /\ at[u] \in {"search", "claim"} => req[u] \in Sizes
        /\ at[u] = "claim" => FreeRange(bits, block[u], req[u])

\* The rest of the types.
Numbers ==
    /\ Perf_AllocationsNum \in Int /\ Perf_TotalAllocatedSize \in Int
    /\ ForceUse \in BOOLEAN /\ Start0to99 \in Bits
    /\ patches \in 0 .. 2 /\ fatal \subseteq Users

\* These are all that the invariant says.
LEMMA Parts ==
    IInv => (AInv <=> Stored /\ Asked /\ Numbers)
BY DEF IInv, Types, Places, Inside, AInv, ArenaConsistent, ClaimSound, TypeOK, Stored, Asked,
       Numbers

\* A step that leaves the arena alone.
LEMMA MemKeeps ==
    ASSUME Stored, UNCHANGED mem, drv = "gone" => drv' = "gone"
    PROVE  Stored'
BY DEF Stored, mem, BitmapIsLive, HeadersIntact, CountersAgree

\* A step after which a user that asks for memory has asked for it before.
LEMMA AskedStays ==
    ASSUME Asked, bits' \subseteq bits, UNCHANGED <<req, block>>,
           \A u \in Users : at'[u] \in {"search", "claim"} => at'[u] = at[u]
    PROVE  Asked'
BY DEF Asked, FreeRange

\* The use of the arena.
LEMMA ArenaKeepsArena ==
    ASSUME IInv, OneUser, AInv, Stored, Asked, NEW u \in Users, Arena(u)
    PROVE  Stored' /\ Asked'
<1>1. CASE \E n \in Sizes : New(u, n)
  <2>1. PICK n \in Sizes : New(u, n)
      BY <1>1
  <2>2. UNCHANGED mem /\ UNCHANGED <<drv, block>>
      BY <2>1 DEF New
  <2>3. Stored'
      BY <2>2, MemKeeps
  <2>4. \/ UNCHANGED <<at, req>>
        \/ at' = [at EXCEPT ![u] = "search"] /\ req' = [req EXCEPT ![u] = n]
      BY <2>1, Zenon DEF New
  <2>5. bits' = bits
      BY <2>2 DEF mem
  <2>6. CASE UNCHANGED <<at, req>>
      BY <2>2, <2>3, <2>5, <2>6, AskedStays
  <2>7. CASE at' = [at EXCEPT ![u] = "search"] /\ req' = [req EXCEPT ![u] = n]
    <3>1. at \in [Users -> Places]
        BY DEF IInv, Types
    <3> QED BY <2>2, <2>3, <2>5, <2>7, <3>1 DEF Asked
  <2> QED BY <2>4, <2>6, <2>7
<1>2. CASE Search(u)
  <2>1. UNCHANGED mem /\ UNCHANGED <<drv, req>> /\ at[u] = "search"
      BY <1>2 DEF Search, sys
  <2>2. Stored'
      BY <2>1, MemKeeps
  <2>3. bits' = bits
      BY <2>1 DEF mem
  <2>4. CASE UNCHANGED <<block, at>>
      BY <2>1, <2>2, <2>3, <2>4, AskedStays
  <2>5. ASSUME NEW b \in Bits, IsFirstFree(bits, Start0to99, req[u], b),
               block' = [block EXCEPT ![u] = b], at' = [at EXCEPT ![u] = "claim"]
        PROVE  Asked'
    <3>1. FreeRange(bits, b, req[u])
        BY <2>5 DEF IsFirstFree
    <3>2. at \in [Users -> Places]
        BY DEF IInv, Types
    <3> QED BY <2>1, <2>3, <2>5, <3>1, <3>2 DEF Asked
  <2> QED BY <1>2, <2>2, <2>4, <2>5 DEF Search
<1>3. CASE Claim(u)
  <2>1. /\ at[u] = "claim" /\ at' = [at EXCEPT ![u] = "body"]
        /\ req' = [req EXCEPT ![u] = 0] /\ block' = [block EXCEPT ![u] = 0]
      BY <1>3 DEF Claim
  <2>2. \A v \in Users : at'[v] \notin {"search", "claim"}
      BY <2>1 DEF OneUser, Using, IInv, Types
  <2>3. Stored'
      BY <1>3, ClaimKeepsArena DEF Stored
  <2> QED BY <2>1, <2>2, <2>3, ConstantsFit DEF Asked
<1>4. CASE \E p \in live : Delete(u, p)
  <2>1. PICK p \in live : Delete(u, p)
      BY <1>4
  <2>2. Stored' /\ bits' \subseteq bits
      BY <2>1, DeleteKeepsArena DEF Stored
  <2>3. UNCHANGED <<at, req, block>>
      BY <2>1 DEF Delete
  <2> QED BY <2>2, <2>3, AskedStays
<1> QED
    BY <1>1, <1>2, <1>3, <1>4 DEF Arena

\* Everything else.
LEMMA OthersKeepArena ==
    ASSUME IInv, Stored, Asked,
           \/ \E u \in Notifiers : Notification(u)
           \/ Access("Driver") \/ Access("KD") \/ Driver \/ Session \/ UNCHANGED vars
    PROVE  Stored' /\ Asked'
<1>1. at \in [Users -> Places]
    BY DEF IInv, Types
<1>2. \A u \in Notifiers : u \in Users
    BY UsersApart
<1>3. UNCHANGED <<req, block>>
    BY Zenon DEF Notification, CallNotify, Lock, Unlock, Access, Driver, Register, Hook,
       Unregister, Unhook, Uninit, Session, Exception, StartSession, EndSession, Freeze, SetStart, vars
<1>4. \A u \in Users : at'[u] \in {"search", "claim"} => at'[u] = at[u]
  <2>1. \/ at' = at
        \/ \E u \in Users, to \in {"out", "spin", "body"} : at' = [at EXCEPT ![u] = to]
    <3>1. CASE \E u \in Notifiers : Notification(u)
        BY <1>2, <3>1, SMTT(30) DEF Notification, CallNotify, Lock, Unlock
    <3>2. CASE Access("Driver") \/ Access("KD") \/ Driver
        BY <3>2, UsersApart, SMTT(30) DEF Access, Driver, Register, Hook, Unregister, Unhook,
           Uninit
    <3>3. CASE Session
        BY <3>3, UsersApart DEF Session, Exception, StartSession, EndSession, Freeze, SetStart
    <3>4. CASE UNCHANGED vars
        BY <3>4, SMTT(30) DEF vars
    <3> QED BY <3>1, <3>2, <3>3, <3>4
  <2> QED BY <1>1, <2>1
<1>5. CASE Uninit
  <2>1. bits' = {} /\ live' = {} /\ header' = header /\ drv' = "gone"
      BY <1>5, SMTT(30) DEF Uninit, DriverStep
  <2>2. BitmapIsLive' /\ HeadersIntact' /\ CountersAgree'
      BY <2>1 DEF BitmapIsLive, HeadersIntact, CountersAgree
  <2>3. IsFiniteSet(live')
      BY <2>1, FS_EmptySet
  <2> QED BY <1>3, <1>4, <2>1, <2>2, <2>3, AskedStays DEF Stored
<1>6. CASE ~Uninit
  <2>1. UNCHANGED mem /\ (drv = "gone" => drv' = "gone")
    <3>1. CASE \E u \in Notifiers : Notification(u)
        BY <3>1 DEF Notification, CallNotify, Lock, Unlock, sys
    <3>2. CASE Access("Driver") \/ Access("KD")
        BY <3>2, SMTT(30) DEF Access, sys
    <3>3. CASE Driver
        BY <1>6, <3>3, SMTT(30) DEF Driver, Register, Hook, Unregister, Unhook, DriverStep
    <3>4. CASE Session
        BY <3>4 DEF Session, Exception, StartSession, EndSession, Freeze, SetStart, sys
    <3>5. CASE UNCHANGED vars
        BY <3>5 DEF vars, sys
    <3> QED BY <3>1, <3>2, <3>3, <3>4, <3>5, SMTT(30)
  <2>2. bits' = bits
      BY <2>1 DEF mem
  <2> QED BY <1>3, <1>4, <2>1, <2>2, MemKeeps, AskedStays
<1> QED BY <1>5, <1>6

\* The counters, the two settings of the allocator and the list of those that failed.
LEMMA NumbersKeep ==
    ASSUME kdcomHook = "Callback", AInv, Stored, Asked, Numbers, [Next]_vars
    PROVE  Numbers'
<1>1. Perf_AllocationsNum' \in Int /\ Perf_TotalAllocatedSize' \in Int
  <2>1. CASE UNCHANGED mem
      BY <2>1 DEF Numbers, mem
  <2>2. ASSUME NEW u \in Users, Claim(u)
        PROVE  Perf_AllocationsNum' \in Int /\ Perf_TotalAllocatedSize' \in Int
      BY <2>2, ConstantsFit, SMTT(30) DEF Claim, Numbers, Asked
  <2>3. ASSUME NEW u \in Users, NEW p \in live, Delete(u, p), ~UNCHANGED mem
        PROVE  Perf_AllocationsNum' \in Int /\ Perf_TotalAllocatedSize' \in Int
    <3>1. /\ Perf_AllocationsNum' = Perf_AllocationsNum - 1
          /\ Perf_TotalAllocatedSize' = Perf_TotalAllocatedSize - header[p.block]
        BY <2>3, Zenon DEF Delete, Uncounted, FreedLen
    <3>2. header[p.block] \in Int
      <4>1. p.block \in Bits
          BY DEF Stored
      <4>2. header[p.block] \in Sizes \cup {0}
          BY <4>1 DEF Stored
      <4>3. \A x \in Sizes \cup {0} : x \in Int
          BY AllocatorAssumption
      <4> QED BY <4>2, <4>3, Zenon
    <3> QED BY <3>1, <3>2 DEF Numbers
  <2>4. CASE Uninit
      BY <2>4 DEF Uninit, Numbers
  <2>5. CASE Session \/ UNCHANGED vars \/ Access("Driver") \/ Access("KD") \/ Register \/ Hook
             \/ Unregister \/ Unhook \/ (\E u \in Notifiers : Notification(u))
      BY <2>1, <2>5, Zenon DEF Session, Exception, StartSession, EndSession, Freeze,
         SetStart, vars, Access, Register, Hook, Unregister, Unhook, Notification, CallNotify, Lock, Unlock
  <2>6. ASSUME NEW u \in Users, (\E n \in Sizes : New(u, n)) \/ Search(u)
        PROVE  Perf_AllocationsNum' \in Int /\ Perf_TotalAllocatedSize' \in Int
      BY <2>1, <2>6, Zenon DEF New, Search
  <2> QED BY <2>1, <2>2, <2>3, <2>4, <2>5, <2>6, Zenon DEF Next, Arena, Driver
<1>2. ForceUse' \in BOOLEAN /\ Start0to99' \in Bits
  <2>1. UNCHANGED mode \/ Enter \/ Leave \/ \E b \in KdStarts \cup {0} : SetStart(b)
      BY Zenon DEF Next, Arena, New, Search, Claim, Delete, Notification, CallNotify, Lock,
         Unlock, Access, Driver, Register, Hook, Unregister, Unhook, Uninit, Session, Exception, StartSession,
         EndSession, Freeze, vars
  <2>2. CASE UNCHANGED mode
      BY <2>2, Zenon DEF mode, Numbers
  <2>3. CASE Enter
      BY <2>3, AllocatorAssumption, Zenon DEF Enter
  <2>4. CASE Leave
      BY <2>4, ConstantsFit, Zenon DEF Leave
  <2>5. CASE \E b \in KdStarts \cup {0} : SetStart(b)
      BY <2>5, AllocatorAssumption, ConstantsFit, Zenon DEF SetStart, Numbers
  <2> QED BY <2>1, <2>2, <2>3, <2>4, <2>5
<1>3. patches' \in 0 .. 2
  <2>1. ASSUME NEW u \in Users, NEW n \in Sizes, New(u, n) PROVE patches' = patches
      BY <2>1, Zenon DEF New, MayNew
  <2>2. patches' = patches
      BY <2>1, Zenon DEF Next, Arena, Search, Claim, Delete, Notification, CallNotify, Lock,
         Unlock, Access, Driver, Register, Hook, Unregister, Unhook, Uninit, Session, Exception, StartSession,
         EndSession, Freeze, SetStart, vars, sys
  <2> QED BY <2>2 DEF Numbers
<1>4. fatal' \subseteq Users
  <2>1. fatal' = fatal \/ \E u \in Users : fatal' = fatal \cup {u}
      BY Zenon DEF Next, Arena, New, Search, Claim, Delete, Notification, CallNotify, Lock,
         Unlock, Access, Driver, Register, Hook, Unregister, Unhook, Uninit, Session, Exception, StartSession,
         EndSession, Freeze, SetStart, vars
  <2> QED BY <2>1 DEF Numbers
<1> QED BY <1>1, <1>2, <1>3, <1>4, Zenon DEF Numbers

\* With the callback hook the arena is consistent at every moment, whoever uses it:
\* for any number of processors, any size of the arena, of a byte and of an allocation.
THEOREM ArenaStaysConsistent ==
    ASSUME kdcomHook = "Callback"
    PROVE  Spec => []ArenaConsistent
<1>1. Init /\ IInv => AInv
  <2> SUFFICES ASSUME Init, IInv PROVE AInv
      OBVIOUS
  <2>1. Stored
      BY ConstantsFit, FS_EmptySet DEF Init, Stored, BitmapIsLive, HeadersIntact, CountersAgree
  <2>2. Asked
      BY ConstantsFit DEF Init, Asked
  <2>3. Numbers
    <3>1. ForceUse \in BOOLEAN /\ fatal \subseteq Users /\ Start0to99 \in Bits
        BY ConstantsFit, Zenon DEF Init
    <3>2. /\ Perf_AllocationsNum \in Int /\ Perf_TotalAllocatedSize \in Int
          /\ patches \in 0 .. 2
        BY DEF Init
    <3> QED BY <3>1, <3>2, Zenon DEF Numbers
  <2> QED BY <2>1, <2>2, <2>3, Parts
<1>2. IInv /\ IInv' /\ OneUser /\ AInv /\ [Next]_vars => AInv'
  <2> SUFFICES ASSUME IInv, IInv', OneUser, AInv, [Next]_vars PROVE AInv'
      OBVIOUS
  <2>1. Stored /\ Asked /\ Numbers
      BY Parts
  <2>2. Stored' /\ Asked'
      BY <2>1, ArenaKeepsArena, OthersKeepArena, Zenon DEF Next
  <2>3. Numbers'
      BY <2>1, NumbersKeep
  <2>4. IInv' => (AInv' <=> Stored' /\ Asked' /\ Numbers')
      BY Parts, PTL
  <2> QED BY <2>2, <2>3, <2>4
<1>3. AInv => ArenaConsistent
    BY DEF AInv
<1>4. ArenaExclusive => OneUser
    BY DEF ArenaExclusive
<1> QED
    BY <1>1, <1>2, <1>3, <1>4, Inductive, ArenaNeedsNoLock, PTL DEF Spec
=============================================================================
