-------------------------- MODULE BreakPoints_proofs --------------------------
(***************************************************************************)
(* Proofs about BreakPoints: its type invariant, and that KD never holds a *)
(* breakpoint that Root::BreakPoints does not account for, that DrvUnload's *)
(* request deletes every breakpoint, and that there is one step breakpoint *)
(* at most, for every program, set of threads and size of KD's table.      *)
(***************************************************************************)
EXTENDS BreakPoints, SequenceTheorems, WellFoundedInduction, TLAPS

\* KD has deleted the breakpoints in the bytes it reported.
PcClear ==
    /\ ph = "entry" => \A h \in 1..MaxHandles :
                          ~(kdBp[h] >= Pc /\ kdBp[h] < Pc + Stream)
    /\ ph = "scan" => \A h \in 1..MaxHandles : kdBp[h] # Pc

\* A session that deletes everything does not break in and sets nothing.
Deleting ==
    s.delAll => /\ BreakPoints = << >>
                /\ \A h \in 1..MaxHandles : kdBp[h] = 0
                /\ ph \in {"scan", "recreate", "cont"}
                /\ ~s.breakIn
                /\ Pc = DelAddr + 1
                /\ ph = "recreate" => s.todo = {} /\ s.instr = DelAddr + 1

\* SetStepBp is called with 0 by EntryPoint, which then shows the screen, and
\* with an address by StepOver, which lets the system continue.
StepCalls ==
    ph = "setstep" => \/ s.ret = "ui" /\ s.arg = 0
                      \/ s.ret = "cont"

\* NoOrphan, with the handles of KD's table in place of its domain.
Accounted ==
    \A h \in 1..MaxHandles : kdBp[h] # 0 =>
        \E i \in 1..Len(BreakPoints) : /\ BreakPoints[i].handle = h
                                       /\ BreakPoints[i].address = kdBp[h]

Inv == TypeOK /\ Accounted /\ PcClear /\ Deleting /\ OneStepBp /\ StepCalls

-----------------------------------------------------------------------------
(* Facts about the operators.                                              *)

\* Addresses of instructions are positive numbers.
LEMMA Addresses ==
  /\ \A a \in Code : a \in Nat /\ a > 0
  /\ Stream \in Nat /\ Stream >= 2
  <1>1. Code \subseteq Nat \ {0} /\ Stream \in Nat \ {0, 1} BY BpAssumption
  <1>2. \A n \in Nat \ {0} : n > 0 OBVIOUS
  <1>3. \A n \in Nat \ {0, 1} : n >= 2 OBVIOUS
  <1> QED BY <1>1, <1>2, <1>3

\* What erasing an element of a vector leaves.
LEMMA EraseFacts ==
  ASSUME NEW S, NEW q \in Seq(S), NEW i \in 1..Len(q)
  PROVE  /\ Erase(q, i) \in Seq(S)
         /\ Len(Erase(q, i)) = Len(q) - 1
         /\ \A j \in 1..(Len(q) - 1) :
              Erase(q, i)[j] = IF j < i THEN q[j] ELSE q[j + 1]
  <1>1. PICK n \in Nat : n = Len(q) - 1 OBVIOUS
  <1>2. Erase(q, i) = [j \in 1..n |-> IF j < i THEN q[j] ELSE q[j + 1]]
    BY <1>1 DEF Erase
  <1>3. \A j \in 1..n : (IF j < i THEN q[j] ELSE q[j + 1]) \in S BY <1>1
  <1>4. Erase(q, i) \in [1..n -> S] BY <1>2, <1>3
  <1>5. Erase(q, i) \in Seq(S) /\ Len(Erase(q, i)) = n BY <1>4
  <1> QED BY <1>1, <1>2, <1>5

\* A set of handles that is not empty has a smallest one.
LEMMA Smallest ==
  ASSUME NEW H \in SUBSET Nat, H # {}
  PROVE  \E h \in H : \A g \in H : h <= g
  <1>1. PICK h \in H : \A g \in H : ~(<<g, h>> \in OpToRel(<, Nat))
    BY NatLessThanWellFounded, WFMin, Zenon
  <1>2. ASSUME NEW g \in H PROVE h <= g
    <2>1. SUFFICES ASSUME g < h PROVE FALSE OBVIOUS
    <2>2. <<g, h>> \in Nat \X Nat /\ <<g, h>>[1] < <<g, h>>[2] BY <2>1
    <2>3. <<g, h>> \in OpToRel(<, Nat) BY <2>2 DEF OpToRel
    <2> QED BY <1>1, <2>3, Zenon
  <1> QED BY <1>2

\* KD answers with a free entry, and only if the address is not set yet.
LEMMA KdWriteFacts ==
  ASSUME NEW table \in [1..MaxHandles -> Nat], NEW a
  PROVE  /\ KdWrite(table, a) \in 0..MaxHandles
         /\ KdWrite(table, a) # 0 => /\ table[KdWrite(table, a)] = 0
                                     /\ \A g \in 1..MaxHandles : table[g] # a
  <1>1. CASE IsSet(table, a) \/ FreeHandles(table) = {}
    BY <1>1, BpAssumption DEF KdWrite
  <1>2. CASE ~(IsSet(table, a) \/ FreeHandles(table) = {})
    <2>1. FreeHandles(table) \in SUBSET Nat BY DEF FreeHandles
    <2>2. \E h \in FreeHandles(table) : \A g \in FreeHandles(table) : h <= g
      BY <1>2, <2>1, Smallest
    <2>3. KdWrite(table, a) \in FreeHandles(table) BY <1>2, <2>2 DEF KdWrite
    <2> QED BY <1>2, <2>3, BpAssumption DEF FreeHandles, IsSet
  <1> QED BY <1>1, <1>2

\* The threads of Root::BpTraces after BpTrace::Get.
LEMMA TouchedType ==
  ASSUME recent \in Seq(Threads), NEW t \in Threads
  PROVE  Touched(t) \in Seq(Threads)
  <1>1. CASE Places(t) # {}
    <2>1. (CHOOSE i \in Places(t) : TRUE) \in 1..Len(recent) BY <1>1 DEF Places
    <2> QED BY <1>1, <2>1, EraseFacts DEF Touched
  <1>2. CASE Places(t) = {}
    <2>1. <<t>> \o recent \in Seq(Threads) /\ Len(<<t>> \o recent) = Len(recent) + 1
      OBVIOUS
    <2>2. PICK n \in 0..(Len(recent) + 1) :
            n = IF Len(recent) < Dim THEN Len(recent) + 1 ELSE Dim
      BY BpAssumption
    <2>3. Touched(t) = SubSeq(<<t>> \o recent, 1, n) BY <1>2, <2>2 DEF Touched
    <2>4. \A k \in 1..n : (<<t>> \o recent)[k] \in Threads BY <2>1, <2>2
    <2> QED BY <2>1, <2>2, <2>3, <2>4
  <1> QED BY <1>1, <1>2

TraceSet == [addr : Code \cup {0}, nextAddr : Code \cup {0}]

\* What BpTrace::Get and an update of the entry preserve.
LEMMA GetAndSetType ==
  ASSUME TypeOK, s.thread \in Threads, NEW tr \in TraceSet, GetAndSet(tr)
  PROVE  recent' \in Seq(Threads) /\ traces' \in [Threads -> TraceSet]
  <1>1. recent' \in Seq(Threads) BY TouchedType DEF GetAndSet, TypeOK
  <1>2. NoTrace \in TraceSet BY DEF NoTrace, TraceSet
  <1>3. traces \in [Threads -> TraceSet] BY DEF TypeOK, TraceSet
  <1> QED BY <1>1, <1>2, <1>3 DEF GetAndSet

-----------------------------------------------------------------------------
(* The steps of the debugged system.                                       *)

\* The system starts, without a session, in a state of the invariant.
LEMMA InitInv == ASSUME Init PROVE Inv
  <1>1. NoSession \in SessionSet
    BY DEF NoSession, SessionSet
  <1>2. NoTrace \in TraceSet BY DEF NoTrace, TraceSet
  <1>3. TypeOK
    <2>1. /\ ip \in [Threads -> Code] /\ tf \in [Threads -> BOOLEAN]
          /\ exc \in [Threads -> {"none", "break", "step", "other"}]
          /\ kdBp \in [1..MaxHandles -> Nat] /\ quiet \in [Threads -> BOOLEAN]
      BY BpAssumption DEF Init
    <2>2. traces \in [Threads -> TraceSet] BY <1>2 DEF Init
    <2>3. BreakPoints \in Seq(BreakPointSet) /\ recent \in Seq(Threads)
      BY DEF Init
    <2>4. /\ StepOutThread \in Threads \cup {0} /\ BpHitIndex \in Int
          /\ drv = "loaded" /\ ph = "run" /\ s \in SessionSet
      BY <1>1 DEF Init
    <2>5. Trace \in BOOLEAN BY Zenon DEF Init
    <2> QED BY <2>1, <2>2, <2>3, <2>4, <2>5 DEF TypeOK, TraceSet
  <1>4. Accounted /\ PcClear /\ OneStepBp /\ StepCalls
    BY DEF Init, Accounted, PcClear, OneStepBp, StepCalls, StepBps
  <1>5. Deleting BY DEF Init, Deleting, NoSession
  <1> QED BY <1>3, <1>4, <1>5 DEF Inv

\* Outside of a session there is nothing to be deleted.
LEMMA NotDeleting ==
  ASSUME Inv, ph \notin {"scan", "recreate", "cont"}
  PROVE  s.delAll = FALSE
  BY DEF Inv, Deleting, TypeOK, SessionSet

\* Steps of the system outside of a session that leave KD's table alone.
LEMMA OutsideInv ==
  ASSUME Inv, ph = "run",
         ip' \in [Threads -> Code], tf' \in [Threads -> BOOLEAN],
         exc' \in [Threads -> {"none", "break", "step", "other"}],
         drv' \in {"loaded", "deleting", "unhooked"},
         UNCHANGED <<kdBp, root, ph, s, quiet>>
  PROVE  Inv'
  <1>1. s.delAll = FALSE BY NotDeleting, Zenon
  <1>2. TypeOK' BY DEF Inv, TypeOK, root
  <1>3. Accounted' /\ PcClear' /\ OneStepBp' /\ StepCalls'
    BY DEF Inv, Accounted, PcClear, OneStepBp, StepCalls, StepBps, root
  <1>4. Deleting' BY <1>1 DEF Deleting
  <1> QED BY <1>2, <1>3, <1>4 DEF Inv

\* A thread that executes or traps outside of a session changes its own state only.
LEMMA RunInv == ASSUME Inv, NEW t \in Threads, Run(t) PROVE Inv'
  <1>1. /\ ip \in [Threads -> Code] /\ tf \in [Threads -> BOOLEAN]
        /\ exc \in [Threads -> {"none", "break", "step", "other"}]
        /\ drv \in {"loaded", "deleting", "unhooked"}
    BY DEF Inv, TypeOK
  <1>2. Instr[ip[t]].dest \in Code BY <1>1, BpAssumption, Zenon DEF InstrSet
  <1>3. /\ ip' \in [Threads -> Code] /\ tf' \in [Threads -> BOOLEAN]
        /\ exc' \in [Threads -> {"none", "break", "step", "other"}]
    BY <1>1, <1>2, Zenon DEF Run
  <1>4. ph = "run" /\ drv' = drv /\ UNCHANGED <<kdBp, root, ph, s, quiet>> BY DEF Run
  <1> QED BY <1>1, <1>3, <1>4, OutsideInv

\* Any other exception of a thread.
LEMMA FaultInv == ASSUME Inv, NEW t \in Threads, Fault(t) PROVE Inv'
  BY OutsideInv DEF Fault, Inv, TypeOK

\* DrvUnload sends its thread to the INT3, or is done if there is no breakpoint.
LEMMA DrvUnloadInv == ASSUME Inv, NEW t \in Threads, DrvUnload(t) PROVE Inv'
  <1>1. /\ ip \in [Threads -> Code] /\ tf \in [Threads -> BOOLEAN]
        /\ exc \in [Threads -> {"none", "break", "step", "other"}]
    BY DEF Inv, TypeOK
  <1>2. ph = "run" /\ UNCHANGED <<tf, exc, kdBp, root, ph, s, quiet>> BY DEF DrvUnload
  <1>3. ip' \in [Threads -> Code] BY <1>1, BpAssumption DEF DrvUnload
  <1>4. drv' \in {"loaded", "deleting", "unhooked"} BY DEF DrvUnload
  <1> QED BY <1>1, <1>2, <1>3, <1>4, OutsideInv

\* DrvUnload takes BugChecker out of KDCOM.
LEMMA UnhookInv == ASSUME Inv, NEW t \in Threads, Unhook(t) PROVE Inv'
  BY OutsideInv DEF Unhook, Inv, TypeOK

\* KD deletes the breakpoints in the reported bytes: what is left was in the
\* list before, and none of it is close behind PC.
LEMMA StateChangeInv ==
  ASSUME Inv, NEW t \in Threads, StateChange(t) PROVE Inv'
  <1>1. /\ ph' = "entry" /\ kdBp' = KdReport(kdBp, ip[t])
        /\ UNCHANGED <<ip, tf, drv, root, quiet>>
        /\ exc' = [exc EXCEPT ![t] = "none"] /\ ph = "run"
    BY DEF StateChange
  <1>2. /\ s'.thread = t /\ s'.delAll = FALSE /\ s' \in SessionSet
    <2>1. exc[t] \in {"none", "break", "step", "other"} BY DEF Inv, TypeOK
    <2>2. s' = [NoSession EXCEPT !.thread = t, !.code = exc[t]] BY DEF StateChange
    <2>3. s' = [thread |-> t, code |-> exc[t], breakIn |-> FALSE,
                delAll |-> FALSE, instr |-> 0, todo |-> {}, nums |-> << >>,
                arg |-> 0, ret |-> "run", user |-> FALSE]
      BY <2>2, Zenon DEF NoSession
    <2>4. << >> \in Seq(Nat \ {0}) OBVIOUS
    <2> QED BY <2>1, <2>3, <2>4 DEF SessionSet
  <1>3. ip[t] \in Nat /\ ip[t] > 0 /\ Stream \in Nat
    <2>1. ip[t] \in Code BY DEF Inv, TypeOK
    <2> QED BY <2>1, Addresses
  <1>4. kdBp \in [1..MaxHandles -> Nat] BY DEF Inv, TypeOK
  <1>5. /\ kdBp' \in [1..MaxHandles -> Nat]
        /\ \A h \in 1..MaxHandles :
             /\ kdBp'[h] # 0 => kdBp'[h] = kdBp[h]
             /\ ~(kdBp'[h] >= ip[t] /\ kdBp'[h] < ip[t] + Stream)
    BY <1>1, <1>3, <1>4 DEF KdReport
  <1>6. TypeOK' BY <1>1, <1>2, <1>5 DEF Inv, TypeOK, root
  <1>7. Accounted' BY <1>1, <1>5 DEF Inv, Accounted, root
  <1>8. PcClear' BY <1>1, <1>2, <1>5 DEF PcClear, Pc
  <1>9. Deleting' /\ StepCalls' BY <1>1, <1>2 DEF Deleting, StepCalls
  <1>10. OneStepBp' BY <1>1 DEF Inv, OneStepBp, StepBps, root
  <1> QED BY <1>6, <1>7, <1>8, <1>9, <1>10 DEF Inv

-----------------------------------------------------------------------------
(* EntryPoint, up to the decision to break in.                             *)

\* A list of breakpoints without handles, or with one more, is one.
LEMMA BpField ==
  ASSUME NEW bp \in BreakPointSet, NEW h \in 0..MaxHandles, NEW b \in BOOLEAN
  PROVE  /\ [bp EXCEPT !.handle = h] \in BreakPointSet
         /\ [bp EXCEPT !.handle = h].address = bp.address
         /\ [bp EXCEPT !.handle = h].handle = h
         /\ [bp EXCEPT !.handle = h].isStepBp = bp.isStepBp
         /\ [bp EXCEPT !.skip = b] \in BreakPointSet
         /\ [bp EXCEPT !.skip = b].address = bp.address
         /\ [bp EXCEPT !.skip = b].handle = bp.handle
         /\ [bp EXCEPT !.skip = b].isStepBp = bp.isStepBp
  BY DEF BreakPointSet

\* DrvUnload's INT3 empties the list and KD's table, as every breakpoint of KD
\* has its handle in the list.
LEMMA DeleteAllFacts ==
  ASSUME Inv, DeleteAll
  PROVE  /\ kdBp' \in [1..MaxHandles -> Nat]
         /\ \A h \in 1..MaxHandles : kdBp'[h] = 0
         /\ BreakPoints' = << >> /\ BreakPoints' \in Seq(BreakPointSet)
  <1>1. kdBp \in [1..MaxHandles -> Nat] BY DEF Inv, TypeOK
  <1>2. /\ BreakPoints' = << >>
        /\ kdBp' = [h \in 1..MaxHandles |->
                      IF \E i \in 1..Len(BreakPoints) : BreakPoints[i].handle = h
                        THEN 0 ELSE kdBp[h]]
    BY DEF DeleteAll
  <1>3. \A h \in 1..MaxHandles : kdBp'[h] = 0 BY <1>1, <1>2 DEF Inv, Accounted
  <1>4. kdBp' \in [1..MaxHandles -> Nat] BY <1>1, <1>2
  <1> QED BY <1>2, <1>3, <1>4

\* Lines 105-177.  KD has deleted the breakpoints behind PC, so there is none
\* at PC even if PC moves over a hard-coded INT3.
LEMMA DecideInv == ASSUME Inv, Decide PROVE Inv'
  <1> DEFINE delAll == s.code = "break" /\ Pc = DelAddr
  <1>1. /\ s.thread \in Threads /\ ph = "entry" /\ ph' = "scan"
        /\ ip \in [Threads -> Code] /\ Pc = ip[s.thread] /\ Pc \in Code
    BY DEF Inv, TypeOK, Decide, Pc
  <1>2. /\ s' = [s EXCEPT !.delAll = delAll,
                    !.breakIn = \/ HardCodedInt3 /\ ~delAll
                                \/ /\ s.code = "step" /\ ~OwnStep
                                   /\ StepOutThread = 0]
        /\ UNCHANGED <<tf, exc, drv, Trace, StepOutThread>>
        /\ BpHitIndex' = -1
        /\ IF delAll THEN DeleteAll ELSE UNCHANGED <<kdBp, BreakPoints>>
        /\ ip' = IF HardCodedInt3 THEN [ip EXCEPT ![s.thread] = @ + 1] ELSE ip
        /\ quiet' = [quiet EXCEPT ![s.thread] = @ /\ ~HardCodedInt3]
    BY DEF Decide
  <1>3. /\ s' \in SessionSet /\ s'.thread = s.thread
        /\ s'.delAll = delAll
        /\ delAll => s'.breakIn = FALSE
    <2>1. s \in SessionSet BY DEF Inv, TypeOK
    <2>2. PICK b \in BOOLEAN : b = (\/ HardCodedInt3 /\ ~delAll
                                    \/ /\ s.code = "step" /\ ~OwnStep
                                       /\ StepOutThread = 0)
      BY Zenon
    <2>3. PICK d \in BOOLEAN : d = delAll BY Zenon
    <2>4. s' = [s EXCEPT !.delAll = d, !.breakIn = b] BY <1>2, <2>2, <2>3
    <2>5. s' \in SessionSet /\ s'.thread = s.thread /\ s'.delAll = d /\ s'.breakIn = b
      BY <2>1, <2>4, Zenon DEF SessionSet
    <2>6. delAll => ~b BY <2>2
    <2> QED BY <2>3, <2>5, <2>6
  <1>4. /\ ip' \in [Threads -> Code]
        /\ Pc' = IF HardCodedInt3 THEN Pc + 1 ELSE Pc
    <2>1. HardCodedInt3 => Pc + 1 \in Code BY <1>1, BpAssumption DEF HardCodedInt3
    <2> QED BY <1>1, <1>2, <1>3, <2>1 DEF Pc
  <1>5. traces' \in [Threads -> TraceSet] /\ recent' \in Seq(Threads)
    <2>1. CASE s.code # "step"
      <3>1. UNCHANGED <<traces, recent>> BY <2>1 DEF Decide
      <3> QED BY <3>1 DEF Inv, TypeOK, TraceSet
    <2>2. CASE s.code = "step"
      <3>1. traces[s.thread] \in TraceSet BY <1>1 DEF Inv, TypeOK, TraceSet
      <3>2. PICK tr \in TraceSet :
              tr = [traces[s.thread] EXCEPT !.nextAddr = IF OwnStep THEN 0 ELSE @]
        BY <3>1, Zenon DEF TraceSet
      <3>3. GetAndSet(tr) BY <2>2, <3>2 DEF Decide
      <3> QED BY <1>1, <3>3, GetAndSetType DEF Inv
    <2> QED BY <2>1, <2>2
  <1>6. quiet' \in [Threads -> BOOLEAN]
    <2>1. quiet \in [Threads -> BOOLEAN] BY DEF Inv, TypeOK
    <2> QED BY <1>2, <2>1, Zenon
  <1>7. \A h \in 1..MaxHandles : kdBp[h] # Pc /\ kdBp[h] # Pc + 1
    <2>1. /\ Pc \in Nat /\ Stream \in Nat /\ Stream >= 2
          /\ \A h \in 1..MaxHandles : kdBp[h] \in Nat
      BY <1>1, Addresses DEF Inv, TypeOK
    <2>2. \A h \in 1..MaxHandles : ~(kdBp[h] >= Pc /\ kdBp[h] < Pc + Stream)
      BY <1>1 DEF Inv, PcClear
    <2> QED BY <2>1, <2>2
  <1>8. Pc > 0 /\ Pc' > 0 BY <1>1, <1>4, Addresses
  <1> HIDE DEF delAll
  <1>9. CASE delAll
    <2>1. DeleteAll BY <1>2, <1>9
    <2>2. /\ kdBp' \in [1..MaxHandles -> Nat]
          /\ \A h \in 1..MaxHandles : kdBp'[h] = 0
          /\ BreakPoints' = << >> /\ BreakPoints' \in Seq(BreakPointSet)
      BY <2>1, DeleteAllFacts
    <2>3. Pc' = DelAddr + 1 BY <1>4, <1>9, BpAssumption DEF delAll, HardCodedInt3
    <2>4. TypeOK' BY <1>1, <1>2, <1>3, <1>4, <1>5, <1>6, <2>2 DEF Inv, TypeOK, TraceSet
    <2>5. Accounted' /\ PcClear' /\ OneStepBp' /\ StepCalls'
      BY <1>1, <1>8, <2>2 DEF Accounted, PcClear, OneStepBp, StepBps, StepCalls
    <2>6. Deleting' BY <1>1, <1>3, <1>9, <2>2, <2>3 DEF Deleting
    <2> QED BY <2>4, <2>5, <2>6 DEF Inv
  <1>10. CASE ~delAll
    <2>1. UNCHANGED <<kdBp, BreakPoints>> BY <1>2, <1>10
    <2>2. TypeOK' BY <1>1, <1>2, <1>3, <1>4, <1>5, <1>6, <2>1 DEF Inv, TypeOK, TraceSet
    <2>3. Accounted' /\ OneStepBp' /\ StepCalls'
      BY <1>1, <2>1 DEF Inv, Accounted, OneStepBp, StepBps, StepCalls
    <2>4. PcClear' BY <1>1, <1>4, <1>7, <2>1 DEF PcClear
    <2>5. Deleting' BY <1>3, <1>10 DEF Deleting
    <2> QED BY <2>2, <2>3, <2>4, <2>5 DEF Inv
  <1> QED BY <1>9, <1>10

\* The list after the handles at PC are forgotten: addresses and step
\* breakpoints are the same, and so are the other handles.
LEMMA ForgetFacts ==
  ASSUME TypeOK
  PROVE  /\ ForgetAtPc \in Seq(BreakPointSet)
         /\ Len(ForgetAtPc) = Len(BreakPoints)
         /\ \A i \in 1..Len(BreakPoints) :
              /\ ForgetAtPc[i].address = BreakPoints[i].address
              /\ ForgetAtPc[i].isStepBp = BreakPoints[i].isStepBp
              /\ BreakPoints[i].address # Pc => ForgetAtPc[i] = BreakPoints[i]
  <1>1. BreakPoints \in Seq(BreakPointSet) /\ 0 \in 0..MaxHandles
    BY BpAssumption DEF TypeOK
  <1>2. PICK n \in Nat : n = Len(BreakPoints) BY <1>1
  <1>3. \A i \in 1..n : BreakPoints[i] \in BreakPointSet BY <1>1, <1>2
  <1>4. ForgetAtPc = [i \in 1..n |-> IF i \in AtPc THEN [BreakPoints[i] EXCEPT !.handle = 0]
                                                   ELSE BreakPoints[i]]
    BY <1>2 DEF ForgetAtPc
  <1>5. \A i \in 1..n : /\ ForgetAtPc[i] \in BreakPointSet
                        /\ ForgetAtPc[i].address = BreakPoints[i].address
                        /\ ForgetAtPc[i].isStepBp = BreakPoints[i].isStepBp
    <2>1. ASSUME NEW i \in 1..n PROVE /\ ForgetAtPc[i] \in BreakPointSet
                        /\ ForgetAtPc[i].address = BreakPoints[i].address
                        /\ ForgetAtPc[i].isStepBp = BreakPoints[i].isStepBp
      <3>1. /\ [BreakPoints[i] EXCEPT !.handle = 0] \in BreakPointSet
            /\ [BreakPoints[i] EXCEPT !.handle = 0].address = BreakPoints[i].address
            /\ [BreakPoints[i] EXCEPT !.handle = 0].isStepBp = BreakPoints[i].isStepBp
        BY <1>1, <1>3, BpField, Zenon
      <3>2. ForgetAtPc[i] = IF i \in AtPc THEN [BreakPoints[i] EXCEPT !.handle = 0]
                                          ELSE BreakPoints[i]
        BY <1>4
      <3> QED BY <1>3, <3>1, <3>2, Zenon
    <2> QED BY <2>1
  <1>6. ForgetAtPc \in [1..n -> BreakPointSet] BY <1>4, <1>5
  <1>7. ForgetAtPc \in Seq(BreakPointSet) /\ Len(ForgetAtPc) = n BY <1>6
  <1>8. \A i \in 1..n : BreakPoints[i].address # Pc => ForgetAtPc[i] = BreakPoints[i]
    BY <1>4 DEF AtPc
  <1> QED BY <1>2, <1>5, <1>7, <1>8

\* The types of what Scan writes, w being the outcome of the script if any.
LEMMA ScanTypes ==
  ASSUME Inv, Scan
  PROVE  /\ s' \in SessionSet /\ s'.thread = s.thread /\ s'.delAll = s.delAll
         /\ s'.instr \in Code
         /\ s'.todo \subseteq 1..Len(BreakPoints)
         /\ BpHitIndex' \in Int
         /\ ip' \in [Threads -> Code]
         /\ traces' \in [Threads -> TraceSet] /\ recent' \in Seq(Threads)
         /\ Trace' \in BOOLEAN
         /\ BreakPoints = << >> =>
              /\ s'.todo = {} /\ s'.instr = Pc /\ Pc' = Pc
              /\ s'.breakIn = s.breakIn
  <1> DEFINE hit == AtPc # {}
             k   == First(AtPc)
             bp  == BreakPoints[k]
             prev == traces[s.thread].addr
  <1>1. /\ s.thread \in Threads /\ s \in SessionSet /\ ip \in [Threads -> Code]
        /\ Pc = ip[s.thread] /\ Pc \in Code /\ traces[s.thread] \in TraceSet
        /\ Trace \in BOOLEAN /\ BpHitIndex \in Int
        /\ BreakPoints \in Seq(BreakPointSet)
    BY DEF Inv, TypeOK, Scan, Pc, TraceSet
  <1>2. PICK w \in IF hit /\ ~s.breakIn /\ bp.when /\ PassesFilter(bp)
                     THEN WhenResults ELSE {NoWhen} :
            /\ s' = [s EXCEPT !.instr = w.rip, !.todo = ToRecreate(prev),
                       !.breakIn = @ \/ (hit /\ BreaksIn(bp, w))]
            /\ BpHitIndex' = IF /\ hit /\ ~s.breakIn /\ BreaksIn(bp, w)
                                /\ ~bp.isStepBp
                               THEN k - 1 ELSE BpHitIndex
            /\ GetAndSet(IF hit THEN StepTrace(w.rip)
                                ELSE [traces[s.thread] EXCEPT !.addr = 0])
            /\ ip' = [ip EXCEPT ![s.thread] = w.rip]
    BY Zenon DEF Scan
  <1>3. Trace' = (Trace \/ hit) BY DEF Scan
  <1>4. hit => k \in Int
    <2>1. AtPc \in SUBSET Nat BY DEF AtPc
    <2>2. hit => \E i \in AtPc : \A j \in AtPc : i <= j BY <2>1, Smallest
    <2>3. SUFFICES ASSUME hit PROVE k \in Int OBVIOUS
    <2>4. k \in AtPc BY <2>2, <2>3 DEF First
    <2>5. \A i \in AtPc : i \in Int BY DEF AtPc
    <2> HIDE DEF k
    <2> QED BY <2>4, <2>5
  <1>5. BreakPoints = << >> => ~hit BY DEF AtPc
  <1>6. w.rip \in Code /\ (~hit => w.rip = Pc)
    BY <1>1, <1>2, BpAssumption, SMTT(30) DEF WhenResults, NoWhen
  <1>7. PICK todo \in SUBSET Nat : todo = ToRecreate(prev)
    <2>1. ToRecreate(prev) \subseteq 1..Len(BreakPoints) BY DEF ToRecreate
    <2>2. ToRecreate(prev) \in SUBSET Nat BY <2>1
    <2> QED BY <2>2
  <1>8. todo \subseteq 1..Len(BreakPoints) /\ (BreakPoints = << >> => todo = {})
    BY <1>7 DEF ToRecreate
  <1>9. StepTrace(w.rip) \in TraceSet
    BY <1>1, <1>6, BpAssumption, Zenon DEF StepTrace, TraceSet, InstrSet
  <1>10. [traces[s.thread] EXCEPT !.addr = 0] \in TraceSet BY <1>1, SMTT(30) DEF TraceSet
  <1>11. PICK b \in BOOLEAN : b = (s.breakIn \/ (hit /\ BreaksIn(bp, w))) BY Zenon
  <1> HIDE DEF hit, k, bp, prev
  <1>12. s' = [s EXCEPT !.instr = w.rip, !.todo = todo, !.breakIn = b]
    BY <1>2, <1>7, <1>11
  <1>13. /\ s' \in SessionSet /\ s'.thread = s.thread /\ s'.delAll = s.delAll
         /\ s'.instr = w.rip /\ s'.todo = todo /\ s'.breakIn = b
    BY <1>1, <1>6, <1>12, Zenon DEF SessionSet
  <1>14. PICK tr \in TraceSet : GetAndSet(tr) BY <1>2, <1>9, <1>10
  <1>15. traces' \in [Threads -> TraceSet] /\ recent' \in Seq(Threads)
    BY <1>1, <1>14, GetAndSetType DEF Inv
  <1>16. ip' \in [Threads -> Code] /\ Pc' = w.rip BY <1>1, <1>2, <1>6, <1>13 DEF Pc
  <1>17. Trace' \in BOOLEAN BY <1>3
  <1>18. BpHitIndex' \in Int BY <1>1, <1>2, <1>4
  <1>19. ~hit => b = s.breakIn BY <1>1, <1>11 DEF SessionSet
  <1> QED BY <1>5, <1>6, <1>8, <1>13, <1>15, <1>16, <1>17, <1>18, <1>19

\* Lines 191-288.  KD has no breakpoint at PC, so that forgetting the handles of
\* the breakpoints at PC orphans nothing.
LEMMA ScanInv == ASSUME Inv, Scan PROVE Inv'
  <1>1. /\ ph = "scan" /\ ph' = "recreate" /\ BreakPoints' = ForgetAtPc
        /\ UNCHANGED <<tf, exc, drv, quiet, kdBp, StepOutThread>>
    BY DEF Scan
  <1>2. TypeOK BY DEF Inv
  <1>3. s.thread \in Threads BY <1>1, <1>2 DEF TypeOK
  <1>4. TypeOK'
    BY <1>1, <1>2, <1>3, ScanTypes, ForgetFacts DEF TypeOK, TraceSet
  <1>5. Accounted'
    <2>1. ASSUME NEW h \in 1..MaxHandles, kdBp[h] # 0
          PROVE  \E i \in 1..Len(BreakPoints') : /\ BreakPoints'[i].handle = h
                                                 /\ BreakPoints'[i].address = kdBp[h]
      <3>1. PICK i \in 1..Len(BreakPoints) : /\ BreakPoints[i].handle = h
                                             /\ BreakPoints[i].address = kdBp[h]
        BY <2>1 DEF Inv, Accounted
      <3>2. BreakPoints[i].address # Pc BY <1>1, <3>1 DEF Inv, PcClear
      <3>3. ForgetAtPc[i] = BreakPoints[i] /\ Len(ForgetAtPc) = Len(BreakPoints)
        BY <1>2, <3>2, ForgetFacts
      <3> QED BY <1>1, <3>1, <3>3
    <2> QED BY <1>1, <2>1 DEF Accounted
  <1>6. PcClear' /\ StepCalls' BY <1>1 DEF PcClear, StepCalls
  <1>7. OneStepBp' BY <1>1, <1>2, ForgetFacts DEF Inv, OneStepBp, StepBps
  <1>8. Deleting'
    <2>1. SUFFICES ASSUME s.delAll PROVE Deleting' BY ScanTypes, Zenon DEF Deleting
    <2>2. /\ BreakPoints = << >> /\ ~s.breakIn /\ Pc = DelAddr + 1
          /\ \A h \in 1..MaxHandles : kdBp[h] = 0
      BY <2>1 DEF Inv, Deleting
    <2>3. BreakPoints' = << >> BY <1>1, <1>2, <2>2, ForgetFacts
    <2> QED BY <1>1, <2>2, <2>3, ScanTypes DEF Deleting
  <1> QED BY <1>4, <1>5, <1>6, <1>7, <1>8 DEF Inv

\* One breakpoint is re-created: KD had no other breakpoint at its address and
\* the entry it gives out was free, so the change of one handle orphans nothing.
LEMMA RecreateInv == ASSUME Inv, Recreate PROVE Inv'
  <1>1. /\ ph = "recreate" /\ s \in SessionSet /\ s.thread \in Threads
        /\ s.todo \subseteq 1..Len(BreakPoints)
        /\ BreakPoints \in Seq(BreakPointSet)
        /\ kdBp \in [1..MaxHandles -> Nat]
    BY DEF Inv, TypeOK, Recreate
  <1>2. PICK i \in s.todo :
          LET a == BreakPoints[i].address
              h == KdWrite(kdBp, a)
          IN /\ kdBp' = KdSet(kdBp, h, a)
             /\ BreakPoints' = IF h = 0 THEN BreakPoints
                               ELSE [BreakPoints EXCEPT ![i].handle = h]
             /\ s' = [s EXCEPT !.todo = @ \ {i}]
    BY Zenon DEF Recreate
  <1>3. /\ UNCHANGED <<ip, tf, exc, drv, quiet, Trace, traces, recent,
                       StepOutThread, BpHitIndex, ph>>
    BY DEF Recreate, sys
  <1> DEFINE a == BreakPoints[i].address
             h == KdWrite(kdBp, a)
  <1>4. /\ i \in 1..Len(BreakPoints) /\ BreakPoints[i] \in BreakPointSet /\ a \in Nat
    <2>1. i \in 1..Len(BreakPoints) BY <1>1
    <2>2. BreakPoints[i] \in BreakPointSet BY <1>1, <2>1
    <2> QED BY <2>1, <2>2 DEF BreakPointSet
  <1>5. /\ h \in 0..MaxHandles
        /\ h # 0 => kdBp[h] = 0 /\ \A g \in 1..MaxHandles : kdBp[g] # a
    BY <1>1, KdWriteFacts, Zenon
  <1>6. /\ s' \in SessionSet /\ s'.thread = s.thread /\ s'.instr = s.instr
        /\ s'.todo \subseteq s.todo /\ s'.delAll = s.delAll
        /\ s'.breakIn = s.breakIn
    <2>1. PICK todo \in SUBSET Nat : todo = s.todo \ {i} BY <1>1, Zenon DEF SessionSet
    <2>2. s' = [s EXCEPT !.todo = todo] BY <1>2, <2>1
    <2> QED BY <1>1, <2>1, <2>2, Zenon DEF SessionSet
  <1>7. s.delAll = FALSE
    <2>1. s.todo # {} BY <1>2
    <2> QED BY <1>1, <2>1 DEF Inv, Deleting, SessionSet
  <1>8. kdBp' = KdSet(kdBp, h, a)
        /\ BreakPoints' = IF h = 0 THEN BreakPoints
                          ELSE [BreakPoints EXCEPT ![i].handle = h]
    BY <1>2
  <1> HIDE DEF h
  <1>9. CASE h = 0
    <2>1. UNCHANGED <<kdBp, BreakPoints>> BY <1>8, <1>9 DEF KdSet
    <2>2. TypeOK' BY <1>3, <1>6, <2>1 DEF Inv, TypeOK
    <2>3. Accounted' /\ PcClear' /\ OneStepBp' /\ StepCalls'
      BY <1>1, <1>3, <2>1 DEF Inv, Accounted, PcClear, OneStepBp, StepBps, StepCalls
    <2>4. Deleting' BY <1>6, <1>7 DEF Deleting
    <2> QED BY <2>2, <2>3, <2>4 DEF Inv
  <1>10. CASE h # 0
    <2>1. /\ kdBp' = [kdBp EXCEPT ![h] = a] /\ h \in 1..MaxHandles
          /\ BreakPoints' = [BreakPoints EXCEPT ![i].handle = h]
      BY <1>5, <1>8, <1>10 DEF KdSet
    <2>2. PICK bp \in BreakPointSet :
            /\ bp = [BreakPoints[i] EXCEPT !.handle = h]
            /\ bp.address = a /\ bp.handle = h /\ bp.isStepBp = BreakPoints[i].isStepBp
      BY <1>4, <1>5, BpField, ZenonT(30)
    <2>3. BreakPoints' = [BreakPoints EXCEPT ![i] = bp] BY <2>1, <2>2
    <2>4. /\ BreakPoints' \in Seq(BreakPointSet) /\ Len(BreakPoints') = Len(BreakPoints)
          /\ BreakPoints'[i] = bp
          /\ \A j \in 1..Len(BreakPoints) : j # i => BreakPoints'[j] = BreakPoints[j]
      BY <1>1, <1>4, <2>3
    <2>5. kdBp' \in [1..MaxHandles -> Nat] BY <1>1, <1>4, <2>1
    <2>6. TypeOK' BY <1>1, <1>3, <1>6, <2>4, <2>5 DEF Inv, TypeOK
    <2>7. Accounted'
      <3>1. ASSUME NEW g \in 1..MaxHandles, kdBp'[g] # 0
            PROVE  \E j \in 1..Len(BreakPoints') : /\ BreakPoints'[j].handle = g
                                                   /\ BreakPoints'[j].address = kdBp'[g]
        <4>1. CASE g = h BY <1>1, <1>4, <2>1, <2>2, <2>4, <4>1
        <4>2. CASE g # h
          <5>1. kdBp'[g] = kdBp[g] BY <1>1, <2>1, <4>2
          <5>2. PICK j \in 1..Len(BreakPoints) : /\ BreakPoints[j].handle = g
                                                 /\ BreakPoints[j].address = kdBp[g]
            BY <3>1, <5>1 DEF Inv, Accounted
          <5>3. j # i BY <1>5, <1>10, <5>2
          <5> QED BY <2>4, <5>1, <5>2, <5>3
        <4> QED BY <4>1, <4>2
      <3> QED BY <3>1 DEF Accounted
    <2>8. PcClear' /\ StepCalls' BY <1>1, <1>3 DEF PcClear, StepCalls
    <2>9. OneStepBp' BY <1>1, <1>3, <1>4, <2>2, <2>4, Zenon DEF Inv, OneStepBp, StepBps
    <2>10. Deleting' BY <1>6, <1>7 DEF Deleting
    <2> QED BY <2>6, <2>7, <2>8, <2>9, <2>10 DEF Inv
  <1> QED BY <1>9, <1>10

-----------------------------------------------------------------------------
(* Breaking in, stepping and the commands.                                 *)

\* What StepOver changes; only a call needs a step breakpoint.
LEMMA StepOverFacts ==
  ASSUME Inv, ph \in {"recreate", "ui"}, StepOver("cont")
  PROVE  /\ s' \in SessionSet /\ s'.thread = s.thread /\ s'.instr = s.instr
         /\ s'.delAll = s.delAll /\ s'.breakIn = s.breakIn
         /\ \/ ph' = "setstep" /\ s'.ret = "cont" /\ thisInstr.kind = "call"
            \/ ph' = "cont"
         /\ Trace' \in BOOLEAN
         /\ traces' \in [Threads -> TraceSet] /\ recent' \in Seq(Threads)
  <1>1. /\ s \in SessionSet /\ s.thread \in Threads /\ s.instr \in Code
        /\ ip \in [Threads -> Code] /\ Trace \in BOOLEAN
        /\ traces \in [Threads -> TraceSet] /\ recent \in Seq(Threads)
    BY DEF Inv, TypeOK, TraceSet
  <1>2. CASE thisInstr.kind = "call"
    <2>1. Pc \in Nat /\ thisInstr.len \in Nat
      <3>1. thisInstr \in InstrSet BY <1>1, BpAssumption, Zenon DEF thisInstr
      <3>2. thisInstr.len \in 1..15 BY <3>1 DEF InstrSet
      <3>3. Pc \in Code BY <1>1 DEF Pc
      <3>4. Pc \in Nat BY <3>3, Addresses
      <3> QED BY <3>2, <3>4
    <2>2. PICK n \in Nat : n = Pc + thisInstr.len BY <2>1
    <2>3. /\ s' = [s EXCEPT !.arg = n, !.ret = "cont"] /\ ph' = "setstep"
          /\ UNCHANGED <<Trace, traces, recent>>
      BY <1>2, <2>2 DEF StepOver
    <2>4. /\ s' \in SessionSet /\ s'.thread = s.thread /\ s'.instr = s.instr
          /\ s'.delAll = s.delAll /\ s'.breakIn = s.breakIn /\ s'.ret = "cont"
      BY <1>1, <2>3, Zenon DEF SessionSet
    <2> QED BY <1>1, <1>2, <2>3, <2>4
  <1>3. CASE thisInstr.kind # "call"
    <2>1. PICK tr \in TraceSet : tr = [traces[s.thread] EXCEPT !.nextAddr = 0]
      <3>1. traces[s.thread] \in TraceSet BY <1>1
      <3> QED BY <3>1, Zenon DEF TraceSet
    <2>2. /\ s' = [s EXCEPT !.user = TRUE] /\ ph' = "cont" /\ Trace' = TRUE
          /\ GetAndSet(tr)
      BY <1>3, <2>1 DEF StepOver
    <2>3. /\ s' \in SessionSet /\ s'.thread = s.thread /\ s'.instr = s.instr
          /\ s'.delAll = s.delAll /\ s'.breakIn = s.breakIn
      BY <1>1, <2>2, Zenon DEF SessionSet
    <2>4. traces' \in [Threads -> TraceSet] /\ recent' \in Seq(Threads)
      BY <1>1, <2>2, GetAndSetType DEF Inv
    <2>5. Trace' \in BOOLEAN BY <2>2
    <2> QED BY <2>2, <2>3, <2>4, <2>5
  <1> QED BY <1>2, <1>3

\* A step of a session that leaves the breakpoints alone and does not go back to
\* the phases in which KD's table is restricted.
LEMMA KeepBpsInv ==
  ASSUME Inv, UNCHANGED <<kdBp, BreakPoints, exc, drv>>,
         ip' \in [Threads -> Code], tf' \in [Threads -> BOOLEAN],
         quiet' \in [Threads -> BOOLEAN],
         Trace' \in BOOLEAN, BpHitIndex' \in Int,
         traces' \in [Threads -> TraceSet], recent' \in Seq(Threads),
         StepOutThread' \in Threads \cup {0},
         s' \in SessionSet,
         ph' \in {"run", "setstep", "ui", "clear", "cont"},
         ph' # "run" => s'.thread \in Threads /\ s'.instr \in Code,
         StepCalls',
         ph' \in {"ui", "clear"} => ph \in {"ui", "clear"},
         s'.delAll => /\ s.delAll /\ ph' = "cont" /\ Pc' = Pc
                      /\ s'.breakIn = s.breakIn
  PROVE  Inv'
  <1>1. TypeOK' BY DEF Inv, TypeOK, TraceSet
  <1>2. Accounted' /\ PcClear' BY DEF Inv, Accounted, PcClear
  <1>3. OneStepBp' BY DEF Inv, OneStepBp, StepBps
  <1>4. Deleting' BY DEF Inv, Deleting
  <1> QED BY <1>1, <1>2, <1>3, <1>4 DEF Inv

\* Lines 344-362.  A session that deletes everything goes on after the INT3 at a
\* RET, so that step-out mode sets no breakpoint in it.
LEMMA NoBreakInInv == ASSUME Inv, NoBreakIn PROVE Inv'
  <1>1. /\ UNCHANGED <<kdBp, BreakPoints, exc, drv, ip, tf, quiet, BpHitIndex>>
        /\ ph = "recreate"
    BY DEF NoBreakIn, sys
  <1>2. /\ ip' \in [Threads -> Code] /\ tf' \in [Threads -> BOOLEAN]
        /\ quiet' \in [Threads -> BOOLEAN] /\ BpHitIndex' \in Int
        /\ s \in SessionSet /\ s.thread \in Threads /\ s.instr \in Code
    BY <1>1 DEF Inv, TypeOK
  <1>3. StepOutThread' \in Threads \cup {0} BY DEF NoBreakIn, Inv, TypeOK
  <1>4. CASE StepOutThread = s.thread
    <2>1. StepOver("cont") BY <1>4 DEF NoBreakIn
    <2>2. s.delAll => thisInstr.kind = "ret"
      BY <1>1, BpAssumption DEF Inv, Deleting, thisInstr
    <2>3. Pc' = Pc BY <1>1, <2>1, StepOverFacts DEF Pc
    <2>4. StepCalls' BY <1>1, <2>1, StepOverFacts DEF StepCalls
    <2>5. s'.delAll => /\ s.delAll /\ ph' = "cont" /\ Pc' = Pc
                       /\ s'.breakIn = s.breakIn
      BY <1>1, <2>1, <2>2, <2>3, StepOverFacts, Zenon
    <2> QED BY <1>1, <1>2, <1>3, <2>1, <2>4, <2>5, StepOverFacts, KeepBpsInv
  <1>5. CASE StepOutThread # s.thread
    <2>1. ph' = "cont" /\ UNCHANGED <<s, Trace, traces, recent>>
      BY <1>5 DEF NoBreakIn
    <2>2. /\ Trace' \in BOOLEAN /\ traces' \in [Threads -> TraceSet]
          /\ recent' \in Seq(Threads)
      BY <2>1 DEF Inv, TypeOK, TraceSet
    <2>3. StepCalls' /\ Pc' = Pc BY <1>1, <2>1 DEF StepCalls, Pc
    <2> QED BY <1>1, <1>2, <1>3, <2>1, <2>2, <2>3, KeepBpsInv
  <1> QED BY <1>4, <1>5

\* Lines 364-389.  A session that deletes everything does not get here.
LEMMA BreakInInv == ASSUME Inv, BreakIn PROVE Inv'
  <1>1. /\ UNCHANGED <<kdBp, BreakPoints, exc, drv, ip, tf, quiet, BpHitIndex,
                       Trace, traces, recent>>
        /\ ph = "recreate" /\ ph' = "setstep" /\ s.breakIn /\ StepOutThread' = 0
        /\ s' = [s EXCEPT !.arg = 0, !.ret = "ui"]
    BY DEF BreakIn, sys
  <1>2. /\ ip' \in [Threads -> Code] /\ tf' \in [Threads -> BOOLEAN]
        /\ quiet' \in [Threads -> BOOLEAN] /\ BpHitIndex' \in Int
        /\ Trace' \in BOOLEAN /\ traces' \in [Threads -> TraceSet]
        /\ recent' \in Seq(Threads)
        /\ s \in SessionSet /\ s.thread \in Threads /\ s.instr \in Code
    BY <1>1 DEF Inv, TypeOK, TraceSet
  <1>3. /\ s' \in SessionSet /\ s'.thread = s.thread /\ s'.instr = s.instr
        /\ s'.delAll = s.delAll /\ s'.arg = 0 /\ s'.ret = "ui"
    BY <1>1, <1>2, Zenon DEF SessionSet
  <1>4. ~s'.delAll BY <1>1, <1>3 DEF Inv, Deleting
  <1>5. StepCalls' BY <1>3 DEF StepCalls
  <1> QED BY <1>1, <1>2, <1>3, <1>4, <1>5, KeepBpsInv

\* An element is erased after its handle is given back: the entries of KD that
\* are left have their element still.
LEMMA EraseBpFacts ==
  ASSUME Inv, NEW i \in 1..Len(BreakPoints), EraseBp(i)
  PROVE  /\ kdBp' \in [1..MaxHandles -> Nat]
         /\ BreakPoints' \in Seq(BreakPointSet)
         /\ Len(BreakPoints') = Len(BreakPoints) - 1
         /\ \A j \in 1..Len(BreakPoints') :
              BreakPoints'[j] = IF j < i THEN BreakPoints[j] ELSE BreakPoints[j + 1]
         /\ Accounted'
  <1>1. BreakPoints \in Seq(BreakPointSet) /\ kdBp \in [1..MaxHandles -> Nat]
    BY DEF Inv, TypeOK
  <1>2. PICK h \in 0..MaxHandles : h = BreakPoints[i].handle
    <2>1. BreakPoints[i] \in BreakPointSet BY <1>1
    <2> QED BY <2>1 DEF BreakPointSet
  <1>3. /\ kdBp' = IF h = 0 THEN kdBp ELSE [kdBp EXCEPT ![h] = 0]
        /\ BreakPoints' = Erase(BreakPoints, i)
    BY <1>2 DEF EraseBp, KdRestore
  <1>4. /\ BreakPoints' \in Seq(BreakPointSet)
        /\ Len(BreakPoints') = Len(BreakPoints) - 1
        /\ \A j \in 1..(Len(BreakPoints) - 1) :
             BreakPoints'[j] = IF j < i THEN BreakPoints[j] ELSE BreakPoints[j + 1]
    BY <1>1, <1>3, EraseFacts, Zenon
  <1>5. /\ kdBp' \in [1..MaxHandles -> Nat]
        /\ \A g \in 1..MaxHandles : kdBp'[g] # 0 => kdBp'[g] = kdBp[g] /\ g # h
    BY <1>1, <1>2, <1>3
  <1>6. ASSUME NEW g \in 1..MaxHandles, kdBp'[g] # 0
        PROVE  \E j \in 1..Len(BreakPoints') : /\ BreakPoints'[j].handle = g
                                               /\ BreakPoints'[j].address = kdBp'[g]
    <2>1. kdBp'[g] = kdBp[g] /\ g # h BY <1>5, <1>6
    <2>2. PICK k \in 1..Len(BreakPoints) : /\ BreakPoints[k].handle = g
                                           /\ BreakPoints[k].address = kdBp[g]
      BY <1>6, <2>1 DEF Inv, Accounted
    <2>3. k # i BY <1>2, <2>1, <2>2
    <2>4. PICK n \in Nat : n = Len(BreakPoints) BY <1>1
    <2>5. CASE k < i
      <3>1. k \in 1..(n - 1) BY <2>2, <2>4, <2>5
      <3>2. BreakPoints'[k] = BreakPoints[k] BY <1>4, <2>4, <2>5, <3>1
      <3> QED BY <1>4, <2>1, <2>2, <2>4, <3>1, <3>2
    <2>6. CASE k > i
      <3>1. PICK j \in 1..(n - 1) : j = k - 1 BY <2>2, <2>4, <2>6
      <3>2. BreakPoints'[j] = BreakPoints[j + 1] /\ j + 1 = k
        BY <1>4, <2>2, <2>4, <2>6, <3>1
      <3> QED BY <1>4, <2>1, <2>2, <2>4, <3>1, <3>2
    <2> QED BY <2>3, <2>5, <2>6
  <1> QED BY <1>4, <1>5, <1>6, SMTT(30) DEF Accounted

\* The loop of SetStepBp: the only step breakpoint is erased.
LEMMA RemoveStepBpInv == ASSUME Inv, RemoveStepBp PROVE Inv'
  <1>1. /\ ph = "setstep"
        /\ UNCHANGED <<ip, tf, exc, drv, quiet, Trace, traces, recent,
                       StepOutThread, BpHitIndex, ph, s>>
    BY DEF RemoveStepBp, sys
  <1>2. PICK i \in StepBps : EraseBp(i) BY DEF RemoveStepBp
  <1>3. i = 1 /\ i \in 1..Len(BreakPoints) BY <1>2 DEF Inv, OneStepBp, StepBps
  <1>4. TypeOK' BY <1>1, <1>2, <1>3, EraseBpFacts DEF Inv, TypeOK
  <1>5. Accounted' BY <1>2, <1>3, EraseBpFacts
  <1>6. PcClear' /\ StepCalls' BY <1>1 DEF Inv, PcClear, StepCalls
  <1>7. OneStepBp'
    <2>1. ASSUME NEW j \in 1..Len(BreakPoints'), BreakPoints'[j].isStepBp PROVE FALSE
      <3>1. PICK n \in Nat : n = Len(BreakPoints) /\ Len(BreakPoints') = n - 1
        BY <1>2, <1>3, EraseBpFacts DEF Inv, TypeOK
      <3>2. j + 1 \in 1..n /\ j + 1 # 1 BY <3>1
      <3>3. BreakPoints'[j] = BreakPoints[j + 1] BY <1>2, <1>3, <3>1, EraseBpFacts
      <3>4. j + 1 \in StepBps BY <2>1, <3>1, <3>2, <3>3 DEF StepBps
      <3> QED BY <3>2, <3>4 DEF Inv, OneStepBp
    <2> QED BY <2>1 DEF OneStepBp, StepBps
  <1>8. Deleting' BY <1>1, NotDeleting DEF Deleting
  <1> QED BY <1>4, <1>5, <1>6, <1>7, <1>8 DEF Inv

\* A new breakpoint gets the entry that KD gave out for its address, in a list
\* that has it in addition to the old elements.
LEMMA NewBpAccounted ==
  ASSUME Inv, NEW a \in Nat, NEW h \in 0..MaxHandles, h # 0 => kdBp[h] = 0,
         kdBp' = KdSet(kdBp, h, a),
         \A i \in 1..Len(BreakPoints) : \E j \in 1..Len(BreakPoints') :
            BreakPoints'[j] = BreakPoints[i],
         \E j \in 1..Len(BreakPoints') :
            BreakPoints'[j].handle = h /\ BreakPoints'[j].address = a
  PROVE  kdBp' \in [1..MaxHandles -> Nat] /\ Accounted'
  <1>1. kdBp \in [1..MaxHandles -> Nat] BY DEF Inv, TypeOK
  <1>2. kdBp' \in [1..MaxHandles -> Nat] BY <1>1 DEF KdSet
  <1>3. ASSUME NEW g \in 1..MaxHandles, kdBp'[g] # 0
        PROVE  \E j \in 1..Len(BreakPoints') : /\ BreakPoints'[j].handle = g
                                               /\ BreakPoints'[j].address = kdBp'[g]
    <2>1. CASE g = h BY <1>1, <2>1 DEF KdSet
    <2>2. CASE g # h
      <3>1. kdBp'[g] = kdBp[g] BY <1>1, <2>2 DEF KdSet
      <3> QED BY <1>3, <3>1, SMTT(30) DEF Inv, Accounted
    <2> QED BY <2>1, <2>2
  <1> QED BY <1>2, <1>3 DEF Accounted

\* The rest of SetStepBp: the list has no step breakpoint, and gets one at its
\* front if there is an address.
LEMMA SetStepBpInv == ASSUME Inv, SetStepBp PROVE Inv'
  <1>1. /\ ph = "setstep" /\ StepBps = {} /\ ph' = s.ret /\ s.ret \in {"ui", "cont"}
        /\ UNCHANGED <<ip, tf, exc, drv, quiet, traces, recent,
                       StepOutThread, BpHitIndex, s>>
    BY DEF SetStepBp, sys, Inv, StepCalls
  <1>2. /\ s \in SessionSet /\ s.thread \in Threads /\ s.instr \in Code
        /\ BreakPoints \in Seq(BreakPointSet)
    BY <1>1 DEF Inv, TypeOK
  <1>3. PcClear' /\ StepCalls' BY <1>1 DEF PcClear, StepCalls
  <1>4. Deleting' BY <1>1, NotDeleting DEF Deleting
  <1>5. CASE s.arg = 0
    <2>1. UNCHANGED <<kdBp, BreakPoints, Trace>> BY <1>5 DEF SetStepBp
    <2>2. TypeOK' BY <1>1, <1>2, <2>1 DEF Inv, TypeOK
    <2>3. Accounted' BY <2>1 DEF Inv, Accounted
    <2>4. OneStepBp' BY <1>1, <2>1 DEF OneStepBp, StepBps
    <2> QED BY <1>3, <1>4, <2>2, <2>3, <2>4 DEF Inv
  <1>6. CASE s.arg # 0
    <2>1. s.ret = "cont" BY <1>1, <1>6 DEF Inv, StepCalls
    <2>2. PICK h \in 0..MaxHandles : h = KdWrite(kdBp, s.arg) /\ (h # 0 => kdBp[h] = 0)
      BY KdWriteFacts, Zenon DEF Inv, TypeOK
    <2>3. /\ Trace' = FALSE /\ kdBp' = KdSet(kdBp, h, s.arg)
          /\ BreakPoints' = <<NewStepBp(h)>> \o BreakPoints
      BY <1>6, <2>2 DEF SetStepBp, WithStepBp
    <2>4. s.arg \in Nat BY <1>2 DEF SessionSet
    <2>5. PICK bp \in BreakPointSet :
            bp = NewStepBp(h) /\ bp.handle = h /\ bp.address = s.arg
      <3>1. NewStepBp(h) \in BreakPointSet
        BY <1>2, <2>4, Zenon DEF NewStepBp, BreakPointSet
      <3>2. NewStepBp(h).handle = h /\ NewStepBp(h).address = s.arg BY DEF NewStepBp
      <3> QED BY <3>1, <3>2
    <2>6. PICK n \in Nat : n = Len(BreakPoints) BY <1>2
    <2>7. /\ BreakPoints' \in Seq(BreakPointSet) /\ Len(BreakPoints') = n + 1
          /\ BreakPoints'[1] = bp
          /\ \A i \in 1..n : BreakPoints'[i + 1] = BreakPoints[i]
      BY <1>2, <2>3, <2>5, <2>6
    <2>8. \A i \in 1..n : i + 1 \in 1..(n + 1) BY SMTT(30)
    <2>9. kdBp' \in [1..MaxHandles -> Nat] /\ Accounted'
      <3>1. \A i \in 1..Len(BreakPoints) : \E j \in 1..Len(BreakPoints') :
              BreakPoints'[j] = BreakPoints[i]
        BY <2>6, <2>7, <2>8
      <3>2. 1 \in 1..Len(BreakPoints') BY <2>7
      <3>3. \E j \in 1..Len(BreakPoints') :
              BreakPoints'[j].handle = h /\ BreakPoints'[j].address = s.arg
        BY <2>5, <2>7, <3>2
      <3> QED BY <2>2, <2>3, <2>4, <3>1, <3>3, NewBpAccounted
    <2>10. TypeOK' BY <1>1, <1>2, <2>1, <2>3, <2>7, <2>9, Zenon DEF Inv, TypeOK
    <2>11. OneStepBp'
      <3>1. ASSUME NEW j \in 1..(n + 1), BreakPoints'[j].isStepBp PROVE j = 1
        <4>1. SUFFICES ASSUME j # 1 PROVE FALSE OBVIOUS
        <4>2. PICK i \in 1..n : i = j - 1 BY <4>1
        <4>3. BreakPoints'[j] = BreakPoints[i] BY <2>7, <4>2
        <4> QED BY <1>1, <2>6, <3>1, <4>3 DEF StepBps
      <3>2. ph' = "cont" BY <1>1, <2>1
      <3> QED BY <2>7, <3>1, <3>2, SMTT(30) DEF OneStepBp, StepBps
    <2> QED BY <1>3, <1>4, <2>9, <2>10, <2>11 DEF Inv
  <1> QED BY <1>5, <1>6

\* While the screen is shown there is no step breakpoint; the commands that
\* change the list keep it so.
LEMMA UiInv ==
  ASSUME Inv, ph \in {"ui", "clear"}, ph' \in {"ui", "clear"},
         UNCHANGED <<ip, tf, exc, drv, quiet, Trace, traces, recent,
                     StepOutThread, BpHitIndex>>,
         s' \in SessionSet, s'.thread = s.thread, s'.instr = s.instr,
         s'.delAll = s.delAll,
         kdBp' \in [1..MaxHandles -> Nat], BreakPoints' \in Seq(BreakPointSet),
         Accounted', StepBps' = {}
  PROVE  Inv'
  <1>1. TypeOK' BY DEF Inv, TypeOK
  <1>2. PcClear' /\ StepCalls' BY DEF PcClear, StepCalls
  <1>3. OneStepBp' BY DEF OneStepBp
  <1>4. Deleting' BY NotDeleting DEF Deleting
  <1> QED BY <1>1, <1>2, <1>3, <1>4, SMTT(30) DEF Inv

\* BPX appends a breakpoint with the handle KD gave it.
LEMMA BPXInv ==
  ASSUME Inv, NEW a \in BpAddrs, NEW f \in Filters, BPX(a, f) PROVE Inv'
  <1> DEFINE new(h) == [address |-> a, handle |-> h, ethread |-> f.ethread,
                        eprocess |-> f.eprocess, when |-> f.when,
                        skip |-> FALSE, isStepBp |-> FALSE]
  <1>1. /\ ph = "ui"
        /\ UNCHANGED <<ip, tf, exc, drv, quiet, Trace, traces, recent,
                       StepOutThread, BpHitIndex, ph, s>>
    BY DEF BPX, sys
  <1>2. /\ BreakPoints \in Seq(BreakPointSet) /\ s \in SessionSet /\ a \in Nat
        /\ StepBps = {}
    BY <1>1, BpAssumption DEF Inv, TypeOK, OneStepBp
  <1>3. PICK h \in 0..MaxHandles : h = KdWrite(kdBp, a) /\ (h # 0 => kdBp[h] = 0)
    BY KdWriteFacts, Zenon DEF Inv, TypeOK
  <1>4. kdBp' = KdSet(kdBp, h, a) /\ BreakPoints' = Append(BreakPoints, new(h))
    BY <1>3 DEF BPX
  <1>5. PICK bp \in BreakPointSet :
          bp = new(h) /\ bp.handle = h /\ bp.address = a /\ bp.isStepBp = FALSE
    <2>1. f.ethread \in Threads \cup {0} /\ f.when \in BOOLEAN BY BpAssumption
    <2>2. new(h) \in BreakPointSet BY <1>2, <2>1, Zenon DEF BreakPointSet
    <2> QED BY <2>2
  <1>6. PICK n \in Nat : n = Len(BreakPoints) BY <1>2
  <1>7. /\ BreakPoints' \in Seq(BreakPointSet) /\ Len(BreakPoints') = n + 1
        /\ BreakPoints'[n + 1] = bp
        /\ \A i \in 1..n : BreakPoints'[i] = BreakPoints[i]
    BY <1>2, <1>4, <1>5, <1>6, SMTT(30)
  <1>8. kdBp' \in [1..MaxHandles -> Nat] /\ Accounted'
    <2>1. \A i \in 1..Len(BreakPoints) : \E j \in 1..Len(BreakPoints') :
            BreakPoints'[j] = BreakPoints[i]
      BY <1>6, <1>7
    <2>2. n + 1 \in 1..Len(BreakPoints') BY <1>7, SMTT(30)
    <2>3. \E j \in 1..Len(BreakPoints') :
            BreakPoints'[j].handle = h /\ BreakPoints'[j].address = a
      BY <1>5, <1>7, <2>2
    <2> QED BY <1>2, <1>3, <1>4, <2>1, <2>3, NewBpAccounted
  <1>9. StepBps' = {}
    <2>1. ASSUME NEW j \in 1..(n + 1) PROVE ~BreakPoints'[j].isStepBp
      <3>1. CASE j = n + 1 BY <1>5, <1>7, <3>1
      <3>2. CASE j # n + 1
        <4>1. j \in 1..n BY <3>2
        <4> QED BY <1>2, <1>6, <1>7, <4>1 DEF StepBps
      <3> QED BY <3>1, <3>2, SMTT(30)
    <2> QED BY <1>7, <2>1 DEF StepBps
  <1> QED BY <1>1, <1>2, <1>7, <1>8, <1>9, UiInv

\* BC notes the indexes that it is going to erase.
LEMMA BCInv == ASSUME Inv, NEW nums \in ClearLists, BC(nums) PROVE Inv'
  <1>1. /\ ph = "ui" /\ ph' = "clear" /\ s' = [s EXCEPT !.nums = nums]
        /\ UNCHANGED <<ip, tf, exc, drv, quiet, Trace, traces, recent,
                       StepOutThread, BpHitIndex, kdBp, BreakPoints>>
    BY DEF BC, sys, root
  <1>2. nums \in Seq(Nat \ {0})
    <2>1. PICK n \in 1..2 : nums \in [1..n -> 1..MaxBps] BY DEF ClearLists
    <2>2. nums \in [1..n -> Nat \ {0}] BY <2>1, BpAssumption
    <2> QED BY <2>2
  <1>3. s \in SessionSet BY DEF Inv, TypeOK
  <1>4. /\ s' \in SessionSet /\ s'.thread = s.thread /\ s'.instr = s.instr
        /\ s'.delAll = s.delAll
    BY <1>1, <1>2, <1>3, Zenon DEF SessionSet
  <1>5. Accounted' BY <1>1 DEF Inv, Accounted
  <1>6. StepBps' = {} BY <1>1 DEF Inv, OneStepBp, StepBps
  <1>7. kdBp' \in [1..MaxHandles -> Nat] /\ BreakPoints' \in Seq(BreakPointSet)
    BY <1>1 DEF Inv, TypeOK
  <1> QED BY <1>1, <1>4, <1>5, <1>6, <1>7, UiInv

\* A round of the loop of BC.
LEMMA ClearOneInv == ASSUME Inv, ClearOne PROVE Inv'
  <1>1. /\ ph = "clear"
        /\ UNCHANGED <<ip, tf, exc, drv, quiet, Trace, traces, recent,
                       StepOutThread, BpHitIndex>>
    BY SMTT(30) DEF ClearOne, sys
  <1>2. /\ s \in SessionSet /\ s.nums \in Seq(Nat \ {0}) /\ StepBps = {}
        /\ BreakPoints \in Seq(BreakPointSet)
    BY <1>1 DEF Inv, TypeOK, OneStepBp, SessionSet
  <1>3. CASE s.nums # << >> /\ s.nums[1] <= Len(BreakPoints)
    <2>1. PICK i \in 1..Len(BreakPoints) : i = s.nums[1]
      <3>1. s.nums[1] \in Nat \ {0} BY <1>2, <1>3
      <3> QED BY <1>2, <1>3, <3>1
    <2>2. PICK rest \in Seq(Nat \ {0}) : rest = SubSeq(s.nums, 2, Len(s.nums))
      <3>1. Tail(s.nums) \in Seq(Nat \ {0}) BY <1>2, <1>3
      <3>2. Tail(s.nums) = SubSeq(s.nums, 2, Len(s.nums)) BY <1>2, <1>3
      <3> QED BY <3>1, <3>2, Zenon
    <2>3. EraseBp(i) /\ s' = [s EXCEPT !.nums = rest] /\ ph' = ph
      BY <1>3, <2>1, <2>2 DEF ClearOne
    <2>4. /\ s' \in SessionSet /\ s'.thread = s.thread /\ s'.instr = s.instr
          /\ s'.delAll = s.delAll
      BY <1>2, <2>3, Zenon DEF SessionSet
    <2>5. PICK n \in Nat : n = Len(BreakPoints) BY <1>2
    <2>6. StepBps' = {}
      <3>1. Len(BreakPoints') = n - 1 BY <2>3, <2>5, EraseBpFacts
      <3>2. ASSUME NEW j \in 1..(n - 1) PROVE ~BreakPoints'[j].isStepBp
        <4>1. BreakPoints'[j] = IF j < i THEN BreakPoints[j] ELSE BreakPoints[j + 1]
          BY <2>3, <3>1, EraseBpFacts
        <4>2. j \in 1..n /\ j + 1 \in 1..n OBVIOUS
        <4> QED BY <1>2, <2>5, <4>1, <4>2, Zenon DEF StepBps
      <3> QED BY <3>1, <3>2 DEF StepBps
    <2> QED BY <1>1, <2>3, <2>4, <2>6, EraseBpFacts, UiInv
  <1>4. CASE ~(s.nums # << >> /\ s.nums[1] <= Len(BreakPoints))
    <2>1. /\ ph' = "ui" /\ s' = [s EXCEPT !.nums = << >>]
          /\ UNCHANGED <<kdBp, BreakPoints>>
      BY <1>4 DEF ClearOne
    <2>2. << >> \in Seq(Nat \ {0}) OBVIOUS
    <2>3. /\ s' \in SessionSet /\ s'.thread = s.thread /\ s'.instr = s.instr
          /\ s'.delAll = s.delAll
      BY <1>2, <2>1, <2>2, Zenon DEF SessionSet
    <2>4. Accounted' BY <2>1 DEF Inv, Accounted
    <2>5. StepBps' = {} BY <1>2, <2>1 DEF StepBps
    <2>6. kdBp' \in [1..MaxHandles -> Nat] /\ BreakPoints' \in Seq(BreakPointSet)
      BY <2>1 DEF Inv, TypeOK
    <2> QED BY <1>1, <2>1, <2>3, <2>4, <2>5, <2>6, UiInv
  <1> QED BY <1>3, <1>4

\* BD and BE change a flag that nothing here depends on.
LEMMA DisableInv ==
  ASSUME Inv, NEW i \in 1..MaxBps, NEW skip \in BOOLEAN, Disable(i, skip) PROVE Inv'
  <1>1. /\ ph = "ui" /\ i \in 1..Len(BreakPoints)
        /\ BreakPoints' = [BreakPoints EXCEPT ![i].skip = skip]
        /\ UNCHANGED <<ip, tf, exc, drv, quiet, Trace, traces, recent,
                       StepOutThread, BpHitIndex, ph, s, kdBp>>
    BY DEF Disable, sys
  <1>2. /\ s \in SessionSet /\ StepBps = {} /\ BreakPoints \in Seq(BreakPointSet)
    BY <1>1 DEF Inv, TypeOK, OneStepBp
  <1>3. BreakPoints[i] \in BreakPointSet /\ 0 \in 0..MaxHandles BY <1>1, <1>2, BpAssumption
  <1>4. PICK bp \in BreakPointSet :
          /\ bp = [BreakPoints[i] EXCEPT !.skip = skip]
          /\ bp.address = BreakPoints[i].address /\ bp.handle = BreakPoints[i].handle
          /\ bp.isStepBp = BreakPoints[i].isStepBp
    BY <1>3, BpField, Zenon
  <1>5. /\ BreakPoints' \in Seq(BreakPointSet) /\ Len(BreakPoints') = Len(BreakPoints)
        /\ BreakPoints'[i] = bp
        /\ \A j \in 1..Len(BreakPoints) : j # i => BreakPoints'[j] = BreakPoints[j]
    BY <1>1, <1>2, <1>4
  <1>6. \A j \in 1..Len(BreakPoints) :
          /\ BreakPoints'[j].address = BreakPoints[j].address
          /\ BreakPoints'[j].handle = BreakPoints[j].handle
          /\ BreakPoints'[j].isStepBp = BreakPoints[j].isStepBp
    BY <1>4, <1>5, Zenon
  <1>7. Accounted' BY <1>1, <1>5, <1>6, SMTT(30) DEF Inv, Accounted
  <1>8. StepBps' = {} BY <1>2, <1>5, <1>6 DEF StepBps
  <1>9. kdBp' \in [1..MaxHandles -> Nat] BY <1>1 DEF Inv, TypeOK
  <1> QED BY <1>1, <1>2, <1>5, <1>7, <1>8, <1>9, UiInv

\* What the rest of the actions need of the type invariant.
LEMMA UiTypes ==
  ASSUME Inv, ph \in {"ui", "cont"}
  PROVE  /\ ip \in [Threads -> Code] /\ tf \in [Threads -> BOOLEAN]
         /\ quiet \in [Threads -> BOOLEAN] /\ BpHitIndex \in Int
         /\ Trace \in BOOLEAN /\ traces \in [Threads -> TraceSet]
         /\ recent \in Seq(Threads) /\ StepOutThread \in Threads \cup {0}
         /\ s \in SessionSet /\ s.thread \in Threads /\ s.instr \in Code
  BY DEF Inv, TypeOK, TraceSet

\* R changes RIP outside of the phases that look at it.
LEMMA RInv == ASSUME Inv, NEW a \in RTargets, R(a) PROVE Inv'
  <1>1. /\ ph = "ui" /\ ph' = "ui" /\ s' = [s EXCEPT !.user = TRUE]
        /\ ip' = [ip EXCEPT ![s.thread] = a]
        /\ quiet' = [quiet EXCEPT ![s.thread] = FALSE]
        /\ UNCHANGED <<tf, exc, drv, kdBp, BreakPoints, Trace, traces, recent,
                       StepOutThread, BpHitIndex>>
    BY DEF R, root
  <1>2. /\ s' \in SessionSet /\ s'.thread = s.thread /\ s'.instr = s.instr
        /\ s'.delAll = s.delAll
    BY <1>1, UiTypes, Zenon DEF SessionSet
  <1>3. ip' \in [Threads -> Code] BY <1>1, UiTypes, BpAssumption
  <1>4. quiet' \in [Threads -> BOOLEAN] BY <1>1, UiTypes
  <1>5. ~s'.delAll /\ StepCalls' BY <1>1, <1>2, NotDeleting, ZenonT(30) DEF StepCalls
  <1> QED BY <1>1, <1>2, <1>3, <1>4, <1>5, UiTypes, KeepBpsInv

\* P steps over an instruction.
LEMMA PInv == ASSUME Inv, NEW toRet \in BOOLEAN, P(toRet) PROVE Inv'
  <1>1. /\ ph = "ui" /\ StepOver("cont")
        /\ UNCHANGED <<ip, tf, exc, drv, quiet, kdBp, BreakPoints, BpHitIndex>>
    BY DEF P, sys
  <1>2. StepOutThread' \in Threads \cup {0} BY <1>1, UiTypes DEF P
  <1>3. ~s'.delAll BY <1>1, StepOverFacts, NotDeleting, Zenon
  <1>4. StepCalls' BY <1>1, StepOverFacts DEF StepCalls
  <1> QED BY <1>1, <1>2, <1>3, <1>4, UiTypes, StepOverFacts, KeepBpsInv

\* T single-steps.
LEMMA TInv == ASSUME Inv, T PROVE Inv'
  <1>1. PICK tr \in TraceSet : tr = [traces[s.thread] EXCEPT !.nextAddr = 0]
    <2>1. traces[s.thread] \in TraceSet BY UiTypes DEF T
    <2> QED BY <2>1, Zenon DEF TraceSet
  <1>2. /\ ph = "ui" /\ ph' = "cont" /\ s' = [s EXCEPT !.user = TRUE]
        /\ Trace' = TRUE /\ GetAndSet(tr)
        /\ UNCHANGED <<ip, tf, exc, drv, quiet, kdBp, BreakPoints,
                       StepOutThread, BpHitIndex>>
    BY <1>1 DEF T, sys
  <1>3. /\ s' \in SessionSet /\ s'.thread = s.thread /\ s'.instr = s.instr
        /\ s'.delAll = s.delAll
    BY <1>2, UiTypes, Zenon DEF SessionSet
  <1>4. traces' \in [Threads -> TraceSet] /\ recent' \in Seq(Threads)
    BY <1>2, UiTypes, GetAndSetType DEF Inv
  <1>5. ~s'.delAll /\ StepCalls' BY <1>2, <1>3, NotDeleting, Zenon DEF StepCalls
  <1>6. Trace' \in BOOLEAN BY <1>2
  <1> QED BY <1>2, <1>3, <1>4, <1>5, <1>6, UiTypes, KeepBpsInv

\* X leaves the screen.
LEMMA XInv == ASSUME Inv, X PROVE Inv'
  <1>1. UNCHANGED <<ip, tf, exc, drv, quiet, kdBp, BreakPoints, Trace, traces,
                    recent, StepOutThread, BpHitIndex, s>>
    BY DEF X, sys, root
  <1>2. ph = "ui" /\ ph' = "cont" BY DEF X
  <1>3. ~s'.delAll /\ StepCalls' BY <1>1, <1>2, NotDeleting, ZenonT(30) DEF StepCalls
  <1> QED BY <1>1, <1>2, <1>3, UiTypes, KeepBpsInv

\* The session ends.
LEMMA ContinueInv == ASSUME Inv, Continue PROVE Inv'
  <1>1. /\ ph = "cont" /\ ph' = "run" /\ s' = NoSession
        /\ tf' = [tf EXCEPT ![s.thread] = @ \/ Trace]
        /\ quiet' = [quiet EXCEPT ![s.thread] = IF Trace THEN ~s.user ELSE @]
        /\ Trace' = FALSE
        /\ UNCHANGED <<ip, exc, drv, kdBp, BreakPoints, traces, recent,
                       StepOutThread, BpHitIndex>>
    BY DEF Continue
  <1>2. tf' \in [Threads -> BOOLEAN] BY <1>1, UiTypes
  <1>3. quiet' \in [Threads -> BOOLEAN]
    <2>1. PICK b \in BOOLEAN : b = IF Trace THEN ~s.user ELSE quiet[s.thread]
      BY <1>1, UiTypes, Zenon DEF SessionSet
    <2>2. quiet' = [quiet EXCEPT ![s.thread] = b] BY <1>1, <2>1
    <2> QED BY <1>1, <2>2, UiTypes
  <1>4. s' \in SessionSet /\ s'.delAll = FALSE
    <2>1. NoSession.delAll = FALSE BY DEF NoSession
    <2>2. << >> \in Seq(Nat \ {0}) OBVIOUS
    <2>3. NoSession \in SessionSet BY <2>2, Zenon DEF NoSession, SessionSet
    <2> QED BY <1>1, <2>1, <2>3
  <1>5. StepCalls' BY <1>1 DEF StepCalls
  <1>6. Trace' \in BOOLEAN BY <1>1, Zenon
  <1> QED BY <1>1, <1>2, <1>3, <1>4, <1>5, <1>6, UiTypes, KeepBpsInv, SMTT(30)

\* Nothing changes.
LEMMA StutterInv == ASSUME Inv, UNCHANGED vars PROVE Inv'
  <1>1. TypeOK' BY DEF Inv, TypeOK, vars
  <1>2. Accounted' BY DEF Inv, Accounted, vars
  <1>3. PcClear' BY DEF Inv, PcClear, Pc, vars
  <1>4. Deleting' BY DEF Inv, Deleting, Pc, vars
  <1>5. OneStepBp' /\ StepCalls' BY DEF Inv, OneStepBp, StepCalls, StepBps, vars
  <1> QED BY <1>1, <1>2, <1>3, <1>4, <1>5, SMTT(30) DEF Inv

-----------------------------------------------------------------------------
(* The theorems.                                                           *)

\* The inductive invariant holds in every state of every instance.
THEOREM Invariance == Spec => []Inv
  <1>1. Init => Inv BY InitInv
  <1>2. Inv /\ [Next]_vars => Inv'
    <2>1. SUFFICES ASSUME Inv, [Next]_vars PROVE Inv' OBVIOUS
    <2>2. CASE UNCHANGED vars BY <2>1, <2>2, StutterInv
    <2>3. CASE System
      BY <2>1, <2>3, RunInv, FaultInv, DrvUnloadInv, UnhookInv, StateChangeInv
      DEF System
    <2>4. CASE EntryPoint
      BY <2>1, <2>4, DecideInv, ScanInv, RecreateInv, NoBreakInInv, BreakInInv,
         RemoveStepBpInv, SetStepBpInv, ContinueInv
      DEF EntryPoint
    <2>5. CASE Commands
      BY <2>1, <2>5, BPXInv, BCInv, ClearOneInv, DisableInv, RInv, TInv, XInv, PInv
      DEF Commands, Leave
    <2> QED BY <2>1, <2>2, <2>3, <2>4, <2>5 DEF Next
  <1> QED BY <1>1, <1>2, PTL DEF Spec

\* The variables of EntryPoint, Root and the debugged system keep their types.
THEOREM TypeCorrect == Spec => []TypeOK
  <1>1. Inv => TypeOK BY DEF Inv
  <1> QED BY <1>1, Invariance, PTL

\* No sequence of traps, steps and commands leaves a breakpoint in KD that
\* Root::BreakPoints does not account for, whatever the debugged program, the
\* number of threads and breakpoints, and the size of KD's table.
THEOREM NeverOrphaned == Spec => []NoOrphan
  <1>1. Inv => NoOrphan BY DEF Inv, TypeOK, Accounted, NoOrphan
  <1> QED BY <1>1, Invariance, PTL

\* When the thread of DrvUnload goes on after its INT3, neither KD nor
\* Root::BreakPoints holds a breakpoint.
THEOREM DeletesEverything == Spec => []DeleteAllIsComplete
  <1>1. Inv => DeleteAllIsComplete
    BY DEF Inv, TypeOK, Deleting, DeleteAllIsComplete, FreeHandles
  <1> QED BY <1>1, Invariance, PTL

\* SetStepBp keeps one step breakpoint at most, at the front of the list, and
\* none while commands are executed.
THEOREM SingleStepBp == Spec => []OneStepBp
  <1>1. Inv => OneStepBp BY DEF Inv
  <1> QED BY <1>1, Invariance, PTL
=============================================================================
