--------------------------- MODULE KdEngine_proofs ---------------------------
(***************************************************************************)
(* Proofs about KdEngine: its type invariant, the safety of the engine     *)
(* (NoFatal, StackIsCallChain, BufferInBounds), that reads are answered    *)
(* truthfully (ReadsAnswered) and that it implements CallChain, for every  *)
(* depth of nesting, chunk and buffer size.                                *)
(***************************************************************************)
EXTENDS KdEngine, SequenceTheorems, TLAPS

\* What AwaiterPtr can be at each place of the loop.
Control ==
    /\ AwaiterPtr.function = "NULL" => AwaiterPtr = NULL
    /\ DebuggerState = "UNKNOWN" => pc = "os"
    /\ pc \in {"os", "body", "child"} => AwaiterPtr = NULL
    /\ pc = "child" => DebuggerState = "PROCESS_AWAITER"
    /\ pc = "loop" /\ DebuggerState \in {"STATE_CHANGED", "CONTINUE"} =>
          AwaiterPtr = NULL /\ live = 0 /\ AwaiterStack = << >>
    /\ pc = "loop" /\ DebuggerState = "COROUTINE" => AwaiterPtr # NULL
    /\ pc \in {"loop", "kernel"} /\ DebuggerState = "MEMREADCOR" =>
          AwaiterPtr.function = IF m.pCoroutine THEN "DiscoverPosInModules"
                                                ELSE "ReadMemory"
    /\ pc = "kernel" =>
          \/ /\ DebuggerState = "COROUTINE" /\ req.api = "manipulate"
             /\ AwaiterPtr.function = "StateManipulate"
          \/ DebuggerState = "MEMREADCOR" /\ req.api = "read"
    /\ \/ pc = "process"
       \/ pc = "loop" /\ DebuggerState = "PROCESS_AWAITER"
       => (AwaiterPtr = NULL => live = Len(AwaiterStack))

\* Only a coroutine that may have a child waits for one.
Nesting ==
    /\ AwaiterPtr.function = "Join" => AwaiterPtr.owner < MaxDepth
    /\ \A i \in 1..Len(AwaiterStack) : AwaiterStack[i].owner < MaxDepth

\* The chunk that is read lies inside a read that fits in the buffer.
Reading ==
    pc \in {"loop", "kernel"} /\ DebuggerState = "MEMREADCOR" =>
        /\ m.BytesToRead <= BufferSize
        /\ m.BufferPos <= m.BytesToRead
        /\ ~m.pCoroutine => m.ResumePoint \in {1, 2}
        /\ pc = "kernel" =>
              req.len = Least(ChunkSize, m.BytesToRead - m.BufferPos)

\* A request is answered exactly when its coroutine is about to be resumed.
Answers ==
    AwaiterPtr.function \in IoKinds =>
        /\ pc = "loop" /\ DebuggerState = "COROUTINE" => answered
        /\ \/ pc \in {"process", "kernel"}
           \/ pc = "loop" /\ DebuggerState \in {"MEMREADCOR", "PROCESS_AWAITER"}
           => ~answered

\* The inductive invariant of the engine.
Inv == /\ TypeOK /\ StackIsCallChain /\ NoFatal
       /\ Control /\ Nesting /\ Reading /\ Answers

\* What a co_await puts into AwaiterPtr is an awaiter.
LEMMA AwaiterType ==
  ASSUME NEW k \in IoKinds \cup {"Join", "NULL"}, NEW d \in 0..MaxDepth,
         NEW p \in Nat, NEW n \in Nat
  PROVE  Awaiter(k, d, p, n) \in AwaiterSet
  BY DEF Awaiter, AwaiterSet

\* The null AwaiterPtr is an awaiter of no class.
LEMMA NullType == NULL \in AwaiterSet /\ NULL.function = "NULL"
  BY EngineAssumption DEF NULL, Awaiter, AwaiterSet

\* DriverEntry leaves Root in a state that satisfies the invariant.
LEMMA InitInv == ASSUME Init PROVE Inv
  <1> USE EngineAssumption DEF Init
  <1>1. TypeOK
    <2>1. AwaiterPtr \in AwaiterSet BY NullType
    <2>2. m \in MemReadSet BY DEF MemReadSet, MemReadStart
    <2>3. req \in [api : {"none", "manipulate", "read"}, addr : Nat, len : Nat]
      BY DEF NoRequest
    <2>4. running \in 0..MaxDepth /\ live \in 0..MaxDepth OBVIOUS
    <2>5. AwaiterStack \in Seq(AwaiterSet) OBVIOUS
    <2>6. answered \in BOOLEAN /\ fresh \subseteq 0..(BufferSize - 1) BY Zenon
    <2>7. pc = "os" /\ DebuggerState \in DEBUGGER_STATE BY DEF DEBUGGER_STATE
    <2> HIDE DEF Init
    <2> QED BY <2>1, <2>2, <2>3, <2>4, <2>5, <2>6, <2>7 DEF TypeOK
  <1>2. StackIsCallChain BY DEF StackIsCallChain, InBody
  <1>3. NoFatal /\ Control /\ Reading
    BY NullType DEF NoFatal, Control, Reading
  <1>4. Nesting /\ Answers BY NullType DEF Nesting, Answers, IoKinds
  <1> QED BY <1>1, <1>2, <1>3, <1>4 DEF Inv

\* The first n elements of a sequence.
LEMMA Prefix ==
  ASSUME NEW S, NEW q \in Seq(S), NEW n \in 0..Len(q)
  PROVE  /\ SubSeq(q, 1, n) \in Seq(S)
         /\ Len(SubSeq(q, 1, n)) = n
         /\ \A i \in 1..n : SubSeq(q, 1, n)[i] = q[i]
  <1>1. n \in Int /\ \A i \in 1..n : q[i] \in S OBVIOUS
  <1>2. Len(SubSeq(q, 1, n)) = IF 1 <= n THEN n - 1 + 1 ELSE 0
    BY <1>1, SubSeqProperties
  <1>3. Len(SubSeq(q, 1, n)) = n BY <1>2
  <1> QED BY <1>1, <1>3

\* AwaiterStack without its last element.
LEMMA PopStack ==
  ASSUME TypeOK, AwaiterStack # << >>,
         NEW rest, rest = SubSeq(AwaiterStack, 1, Len(AwaiterStack) - 1)
  PROVE  /\ ParentAwaiter \in AwaiterSet
         /\ rest \in Seq(AwaiterSet)
         /\ Len(rest) = Len(AwaiterStack) - 1
         /\ \A i \in 1..Len(rest) : rest[i] = AwaiterStack[i]
  <1>1. AwaiterStack \in Seq(AwaiterSet) /\ Len(AwaiterStack) \in Nat \ {0}
    BY DEF TypeOK
  <1>2. ParentAwaiter \in AwaiterSet BY <1>1 DEF ParentAwaiter
  <1>3. PICK n \in 0..Len(AwaiterStack) : n = Len(AwaiterStack) - 1 BY <1>1
  <1> QED BY <1>1, <1>2, <1>3, Prefix

\* ProcessAwaiter when a coroutine has finished.
LEMMA ProcessFinishedInv == ASSUME Inv, ProcessFinished PROVE Inv'
  <1> USE EngineAssumption DEF ProcessFinished
  <1>0. TypeOK /\ live = Len(AwaiterStack) /\ AwaiterPtr = NULL
    BY DEF Inv, Control
  <1>1. CASE AwaiterStack # << >>
    <2> DEFINE rest == SubSeq(AwaiterStack, 1, Len(AwaiterStack) - 1)
    <2>1. /\ ParentAwaiter \in AwaiterSet
          /\ rest \in Seq(AwaiterSet)
          /\ Len(rest) = Len(AwaiterStack) - 1
          /\ \A i \in 1..Len(rest) : rest[i] = AwaiterStack[i]
          /\ Len(AwaiterStack) \in Nat \ {0}
      BY <1>0, <1>1, PopStack DEF TypeOK
    <2>2. /\ ParentAwaiter.function = "Join"
          /\ ParentAwaiter.owner = Len(AwaiterStack)
          /\ ParentAwaiter.owner < MaxDepth
      BY <1>1, <2>1 DEF Inv, StackIsCallChain, Nesting, ParentAwaiter
    <2>3. /\ AwaiterPtr' = ParentAwaiter /\ AwaiterStack' = rest
          /\ pc' = "loop" /\ DebuggerState' = "COROUTINE"
          /\ UNCHANGED <<m, req, running, live, answered, fresh>>
      BY <1>1
    <2> HIDE DEF rest
    <2>4. TypeOK' BY <1>0, <2>1, <2>3 DEF TypeOK, DEBUGGER_STATE
    <2>5. StackIsCallChain'
      BY <1>0, <2>1, <2>2, <2>3 DEF Inv, StackIsCallChain, InBody
    <2>6. Control' /\ NoFatal' /\ Reading'
      BY <2>2, <2>3, NullType DEF Control, NoFatal, Reading
    <2>7. Nesting' BY <2>1, <2>2, <2>3 DEF Inv, Nesting
    <2>8. Answers' BY <2>2, <2>3 DEF Answers, IoKinds
    <2> QED BY <2>4, <2>5, <2>6, <2>7, <2>8 DEF Inv
  <1>2. CASE AwaiterStack = << >>
    <2>1. /\ pc' = "loop" /\ DebuggerState' = "CONTINUE"
          /\ UNCHANGED <<AwaiterPtr, AwaiterStack, m, req, running, live,
                         answered, fresh>>
      BY <1>2
    <2>2. TypeOK' BY <1>0, <2>1 DEF TypeOK, DEBUGGER_STATE
    <2>3. StackIsCallChain' BY <1>0, <1>2, <2>1 DEF Inv, StackIsCallChain, InBody
    <2>4. Control' /\ NoFatal' /\ Reading' /\ Answers'
      BY <1>0, <1>2, <2>1, NullType DEF Control, NoFatal, Reading, Answers, IoKinds
    <2>5. Nesting' BY <2>1 DEF Inv, Nesting
    <2> QED BY <2>2, <2>3, <2>4, <2>5 DEF Inv
  <1> QED BY <1>1, <1>2

\* KdSendPacket with a state change.
LEMMA SendStateChangeInv == ASSUME Inv, SendStateChange PROVE Inv'
  <1> USE DEF Inv, SendStateChange
  <1>1. TypeOK' BY DEF TypeOK, DEBUGGER_STATE
  <1>2. StackIsCallChain' BY DEF StackIsCallChain, InBody, Control
  <1>3. Control' /\ NoFatal' /\ Reading'
    BY DEF Control, NoFatal, Reading, StackIsCallChain
  <1>4. Nesting' /\ Answers' BY NullType DEF Nesting, Answers, Control, IoKinds
  <1> QED BY <1>1, <1>2, <1>3, <1>4

\* KdReceivePacket starts Main::EntryPoint.
LEMMA StartSessionInv == ASSUME Inv, StartSession PROVE Inv'
  <1> USE DEF Inv
  <1>1. /\ AwaiterPtr = NULL /\ AwaiterStack = << >>
        /\ pc' = "body" /\ running' = 1 /\ live' = 1
        /\ UNCHANGED <<DebuggerState, AwaiterPtr, AwaiterStack, m, req,
                       answered, fresh>>
    BY DEF StartSession, Control
  <1>2. TypeOK' BY <1>1, EngineAssumption DEF TypeOK
  <1>3. StackIsCallChain' BY <1>1 DEF StackIsCallChain, InBody
  <1>4. Control' /\ NoFatal' /\ Reading'
    BY <1>1, NullType DEF Control, NoFatal, Reading, StartSession
  <1>5. Nesting' /\ Answers' BY <1>1, NullType DEF Nesting, Answers, IoKinds
  <1> QED BY <1>2, <1>3, <1>4, <1>5

\* KdReceivePacket resumes the coroutine of AwaiterPtr.
LEMMA ResumeInv == ASSUME Inv, Resume PROVE Inv'
  <1> USE DEF Inv
  <1>1. /\ AwaiterPtr # NULL
        /\ pc' = "body" /\ running' = AwaiterPtr.owner /\ AwaiterPtr' = NULL
        /\ UNCHANGED <<DebuggerState, AwaiterStack, m, req, live, answered,
                       fresh>>
    BY DEF Resume, Control
  <1>2. TypeOK'
    <2>1. running' \in 0..MaxDepth BY <1>1 DEF TypeOK, AwaiterSet
    <2> QED BY <1>1, <2>1, NullType DEF TypeOK
  <1>3. StackIsCallChain' BY <1>1 DEF StackIsCallChain, InBody
  <1>4. Control' /\ NoFatal' /\ Reading'
    BY <1>1, NullType DEF Control, NoFatal, Reading, Resume
  <1>5. Nesting' /\ Answers' BY <1>1, NullType DEF Nesting, Answers, IoKinds
  <1> QED BY <1>2, <1>3, <1>4, <1>5

\* KdReceivePacket goes straight to ProcessAwaiter.
LEMMA SkipToProcessInv == ASSUME Inv, SkipToProcess PROVE Inv'
  <1> USE DEF Inv, SkipToProcess
  <1>1. TypeOK' BY DEF TypeOK
  <1>2. StackIsCallChain' BY DEF StackIsCallChain, InBody
  <1>3. Control' /\ NoFatal' /\ Reading' BY DEF Control, NoFatal, Reading
  <1>4. Nesting' /\ Answers' BY DEF Nesting, Answers
  <1> QED BY <1>1, <1>2, <1>3, <1>4

\* KdReceivePacket lets the system continue.
LEMMA ContinueInv == ASSUME Inv, Continue PROVE Inv'
  <1> USE DEF Inv, Continue
  <1>1. TypeOK' BY DEF TypeOK
  <1>2. StackIsCallChain' BY DEF StackIsCallChain, InBody, Control
  <1>3. Control' /\ NoFatal' /\ Reading' BY DEF Control, NoFatal, Reading
  <1>4. Nesting' /\ Answers' BY DEF Nesting, Answers
  <1> QED BY <1>1, <1>2, <1>3, <1>4

\* A coroutine body suspends at a co_await.
LEMMA AwaitInv == ASSUME Inv, Await PROVE Inv'
  <1> USE DEF Inv
  <1>1. PICK kind \in IoKinds \cup {"Join"}, p \in Nat, n \in Nat :
          /\ AwaiterPtr' = Awaiter(kind, running, p, n)
          /\ kind = "Join" => running < MaxDepth
    BY EngineAssumption DEF Await
  <1>2. /\ AwaiterPtr'.function = kind /\ AwaiterPtr'.owner = running
        /\ AwaiterPtr' # NULL /\ AwaiterPtr' \in AwaiterSet
        /\ kind # "NULL"
    BY <1>1, AwaiterType DEF TypeOK, IoKinds, Awaiter, NULL
  <1>3. /\ ~answered' /\ answered' \in BOOLEAN
        /\ \/ pc = "body" /\ pc' = "process"
           \/ pc = "child" /\ pc' = "loop"
        /\ UNCHANGED <<DebuggerState, AwaiterStack, m, req, running, live, fresh>>
    BY Zenon DEF Await, InBody, AfterBody
  <1>4. pc = "child" => DebuggerState = "PROCESS_AWAITER"
    BY DEF Control
  <1>5. TypeOK' BY <1>2, <1>3 DEF TypeOK
  <1>6. StackIsCallChain' BY <1>2, <1>3 DEF StackIsCallChain, InBody
  <1>7. Control' BY <1>2, <1>3, <1>4 DEF Control
  <1>8. NoFatal' /\ Reading' BY <1>3, <1>4 DEF NoFatal, Reading
  <1>9. Nesting' /\ Answers'
    BY <1>1, <1>2, <1>3, <1>4 DEF Nesting, Answers, IoKinds
  <1> QED BY <1>5, <1>6, <1>7, <1>8, <1>9

\* A coroutine body ends.
LEMMA FinishInv == ASSUME Inv, Finish PROVE Inv'
  <1> USE DEF Inv
  <1>1. /\ live' = running - 1 /\ AwaiterPtr = NULL
        /\ \/ pc = "body" /\ pc' = "process"
           \/ pc = "child" /\ pc' = "loop"
        /\ UNCHANGED <<DebuggerState, AwaiterPtr, AwaiterStack, m, req, running,
                       answered, fresh>>
    BY DEF Finish, InBody, AfterBody, Control
  <1>2. pc = "child" => DebuggerState = "PROCESS_AWAITER"
    BY DEF Control
  <1>3. Len(AwaiterStack) \in Nat /\ live' = Len(AwaiterStack)
    BY <1>1 DEF StackIsCallChain, InBody, TypeOK
  <1>4. TypeOK'
    <2>1. live' \in 0..MaxDepth BY <1>1, <1>3, EngineAssumption DEF TypeOK
    <2> QED BY <1>1, <2>1 DEF TypeOK
  <1>5. StackIsCallChain' BY <1>1, <1>3 DEF StackIsCallChain, InBody
  <1>6. Control' BY <1>1, <1>2, <1>3, NullType DEF Control
  <1>7. NoFatal' /\ Reading' BY <1>1, <1>2 DEF NoFatal, Reading
  <1>8. Nesting' /\ Answers' BY <1>1, NullType DEF Nesting, Answers, IoKinds
  <1> QED BY <1>4, <1>5, <1>6, <1>7, <1>8

\* ProcessAwaiter with a BcAwaiter_StateManipulate.
LEMMA ProcessStateManipulateInv ==
  ASSUME Inv, ProcessStateManipulate PROVE Inv'
  <1> USE DEF Inv
  <1>1. /\ pc = "process" /\ AwaiterPtr.function = "StateManipulate"
        /\ pc' = "kernel" /\ DebuggerState' = "COROUTINE"
        /\ UNCHANGED <<AwaiterPtr, AwaiterStack, m, running, live, answered,
                       fresh>>
    BY DEF ProcessStateManipulate
  <1>2. /\ req'.api = "manipulate"
        /\ req' \in [api : {"none", "manipulate", "read"}, addr : Nat, len : Nat]
    BY DEF ProcessStateManipulate, NoRequest
  <1>3. TypeOK' BY <1>1, <1>2 DEF TypeOK, DEBUGGER_STATE
  <1>4. StackIsCallChain' BY <1>1 DEF StackIsCallChain, InBody
  <1>5. Control' /\ NoFatal' /\ Reading'
    BY <1>1, <1>2, NullType DEF Control, NoFatal, Reading
  <1>6. Nesting' /\ Answers' BY <1>1 DEF Nesting, Answers
  <1> QED BY <1>3, <1>4, <1>5, <1>6

\* ProcessAwaiter with a BcAwaiter_RecvTimeout.
LEMMA ProcessRecvTimeoutInv == ASSUME Inv, ProcessRecvTimeout PROVE Inv'
  <1> USE DEF Inv, ProcessRecvTimeout
  <1>1. TypeOK' BY DEF TypeOK, DEBUGGER_STATE
  <1>2. StackIsCallChain' BY DEF StackIsCallChain, InBody
  <1>3. Control' /\ NoFatal' /\ Reading'
    BY NullType DEF Control, NoFatal, Reading
  <1>4. Nesting' /\ Answers' BY DEF Nesting, Answers
  <1> QED BY <1>1, <1>2, <1>3, <1>4

\* ProcessAwaiter with one of the two awaiters that read memory.
LEMMA ProcessReadInv == ASSUME Inv, ProcessRead PROVE Inv'
  <1> USE DEF Inv
  <1>1. /\ m' \in MemReadSet
        /\ m'.BytesToRead = 0 /\ m'.BufferPos = 0
        /\ m'.pCoroutine => AwaiterPtr.function = "DiscoverPosInModules"
        /\ ~m'.pCoroutine => /\ m'.ResumePoint = 2
                             /\ AwaiterPtr.function = "ReadMemory"
    <2> DEFINE legacy == AwaiterPtr.function = "DiscoverPosInModules"
    <2>1. CASE legacy
      <3>1. m' = MemReadStart(TRUE) BY <2>1, Zenon DEF ProcessRead
      <3>2. m'.pCoroutine BY <3>1 DEF MemReadStart
      <3> QED BY <2>1, <3>1, <3>2 DEF MemReadStart, MemReadSet
    <2>2. CASE ~legacy
      <3>1. /\ m' = MemReadStart(FALSE)
            /\ AwaiterPtr.function = "ReadMemory"
        BY <2>2, Zenon DEF ProcessRead
      <3> QED BY <3>1 DEF MemReadStart, MemReadSet
    <2> QED BY <2>1, <2>2
  <1>2. /\ pc = "process"
        /\ AwaiterPtr.function \in {"ReadMemory", "DiscoverPosInModules"}
        /\ pc' = "loop" /\ DebuggerState' = "MEMREADCOR"
        /\ UNCHANGED <<AwaiterPtr, AwaiterStack, req, running, live, answered,
                       fresh>>
    BY DEF ProcessRead
  <1>3. TypeOK' BY <1>1, <1>2 DEF TypeOK, DEBUGGER_STATE
  <1>4. StackIsCallChain' BY <1>2 DEF StackIsCallChain, InBody
  <1>5. Control' /\ NoFatal' BY <1>1, <1>2, NullType DEF Control, NoFatal
  <1>6. Reading' BY <1>1, <1>2, EngineAssumption DEF Reading
  <1>7. Nesting' /\ Answers' BY <1>2 DEF Nesting, Answers
  <1> QED BY <1>3, <1>4, <1>5, <1>6, <1>7

\* ProcessAwaiter with a BcAwaiter_Join.
LEMMA ProcessJoinInv == ASSUME Inv, ProcessJoin PROVE Inv'
  <1> USE DEF Inv
  <1>1. /\ AwaiterPtr.function = "Join" /\ AwaiterPtr # NULL
        /\ AwaiterStack' = Append(AwaiterStack, AwaiterPtr)
        /\ AwaiterPtr' = NULL /\ running' = live + 1 /\ live' = live + 1
        /\ DebuggerState' = "PROCESS_AWAITER" /\ pc' = "child"
        /\ UNCHANGED <<m, req, answered, fresh>>
    BY NullType DEF ProcessJoin, JoinState
  <1>2. /\ AwaiterPtr.owner = Len(AwaiterStack) + 1 /\ AwaiterPtr.owner = live
        /\ AwaiterPtr.owner < MaxDepth
        /\ AwaiterPtr \in AwaiterSet /\ AwaiterStack \in Seq(AwaiterSet)
        /\ live \in Nat
    BY <1>1 DEF StackIsCallChain, Nesting, TypeOK
  <1>3. /\ AwaiterStack' \in Seq(AwaiterSet)
        /\ Len(AwaiterStack') = Len(AwaiterStack) + 1
        /\ Len(AwaiterStack) \in Nat
        /\ \A i \in 1..Len(AwaiterStack') :
              AwaiterStack'[i] = IF i <= Len(AwaiterStack) THEN AwaiterStack[i]
                                                           ELSE AwaiterPtr
    BY <1>1, <1>2
  <1>4. TypeOK'
    <2>1. live' \in 0..MaxDepth /\ running' \in 0..MaxDepth
      BY <1>1, <1>2, EngineAssumption
    <2> QED BY <1>1, <1>3, <2>1, NullType DEF TypeOK, DEBUGGER_STATE
  <1>5. StackIsCallChain' BY <1>1, <1>2, <1>3 DEF StackIsCallChain, InBody
  <1>6. Control' /\ NoFatal' /\ Reading'
    BY <1>1, NullType DEF Control, NoFatal, Reading
  <1>7. Nesting' /\ Answers'
    BY <1>1, <1>2, <1>3, NullType DEF Nesting, Answers, IoKinds
  <1> QED BY <1>4, <1>5, <1>6, <1>7

\* KdSendPacket with the answer to a BcAwaiter_StateManipulate.
LEMMA SendManipulateResponseInv ==
  ASSUME Inv, SendManipulateResponse PROVE Inv'
  <1> USE DEF Inv
  <1>1. /\ DebuggerState = "COROUTINE"
        /\ AwaiterPtr.function = "StateManipulate" /\ AwaiterPtr # NULL
        /\ AwaiterPtr \in AwaiterSet
    BY NullType DEF SendManipulateResponse, Control, TypeOK
  <1>2. /\ \E ok \in BOOLEAN : AwaiterPtr' = [AwaiterPtr EXCEPT !.retVal = ok]
        /\ answered' /\ answered' \in BOOLEAN
        /\ req' = NoRequest /\ pc' = "loop"
        /\ UNCHANGED <<DebuggerState, AwaiterStack, m, running, live, fresh>>
    BY <1>1 DEF SendManipulateResponse
  <1>3. /\ AwaiterPtr' \in AwaiterSet
        /\ AwaiterPtr'.function = "StateManipulate"
        /\ AwaiterPtr'.owner = AwaiterPtr.owner
    BY <1>1, <1>2 DEF AwaiterSet
  <1>4. TypeOK' BY <1>2, <1>3 DEF TypeOK, NoRequest
  <1>5. StackIsCallChain' BY <1>1, <1>2, <1>3 DEF StackIsCallChain, InBody
  <1>6. Control' /\ NoFatal' /\ Reading'
    BY <1>1, <1>2, <1>3, NullType, Zenon DEF Control, NoFatal, Reading
  <1>7. Nesting' /\ Answers' BY <1>1, <1>2, <1>3 DEF Nesting, Answers, IoKinds
  <1> QED BY <1>4, <1>5, <1>6, <1>7

\* KdSendPacket with the bytes of a chunk, or without them.
LEMMA SendReadResponseInv == ASSUME Inv, SendReadResponse PROVE Inv'
  <1> USE DEF Inv
  <1>1. /\ pc = "kernel" /\ DebuggerState = "MEMREADCOR"
        /\ req' = NoRequest /\ pc' = "loop"
        /\ UNCHANGED <<DebuggerState, AwaiterPtr, AwaiterStack, running, live,
                       answered>>
        /\ req.len \in Nat /\ m \in MemReadSet
    BY DEF SendReadResponse, TypeOK
  <1>2. /\ m' \in MemReadSet
        /\ m'.BytesToRead = m.BytesToRead /\ m'.BufferPos = m.BufferPos
        /\ m'.pCoroutine = m.pCoroutine /\ m'.ResumePoint = m.ResumePoint
    BY <1>1 DEF SendReadResponse, MemReadSet
  <1>3. m.BufferPos \in Nat /\ m.BufferPos + req.len <= BufferSize
    BY <1>1, EngineAssumption DEF Reading, Least, MemReadSet
  <1>4. fresh' \subseteq 0..(BufferSize - 1)
    BY <1>1, <1>3, EngineAssumption, SMTT(30) DEF SendReadResponse, TypeOK
  <1>5. TypeOK' BY <1>1, <1>2, <1>4 DEF TypeOK, NoRequest
  <1>6. StackIsCallChain' BY <1>1 DEF StackIsCallChain, InBody
  <1>7. Control' /\ NoFatal' BY <1>1, <1>2, NullType DEF Control, NoFatal
  <1>8. Reading' BY <1>1, <1>2 DEF Reading
  <1>9. Nesting' /\ Answers' BY <1>1 DEF Nesting, Answers
  <1> QED BY <1>5, <1>6, <1>7, <1>8, <1>9

\* The handler of DEBST_MEMREADCOR.
LEMMA NextChunkInv == ASSUME Inv, NextChunk PROVE Inv'
  <1> USE DEF Inv
  <1>1. /\ pc = "loop" /\ DebuggerState = "MEMREADCOR"
        /\ m \in MemReadSet /\ m.BytesToRead - m.BufferPos > ChunkSize
        /\ m.BytesToRead <= BufferSize
        /\ ~m.pCoroutine => m.ResumePoint \in {1, 2}
    BY DEF NextChunk, InMemRead, BytesLeft, TypeOK, Reading
  <1>2. m' = Advance(m) /\ pc' = "kernel"
        /\ UNCHANGED <<DebuggerState, AwaiterPtr, AwaiterStack, running, live,
                       answered, fresh>>
    BY DEF NextChunk, IssueRead
  <1>3. /\ m' \in MemReadSet
        /\ m'.BytesToRead = m.BytesToRead /\ m'.pCoroutine = m.pCoroutine
        /\ m'.ResumePoint = m.ResumePoint
        /\ m'.BufferPos = m.BufferPos + ChunkSize
        /\ m'.BufferPos < m.BytesToRead
    BY <1>1, <1>2, EngineAssumption DEF Advance, MemReadSet
  <1>4. /\ req'.api = "read"
        /\ req'.len = Least(ChunkSize, m'.BytesToRead - m'.BufferPos)
        /\ req' \in [api : {"none", "manipulate", "read"}, addr : Nat, len : Nat]
    BY <1>2, <1>3, EngineAssumption
       DEF NextChunk, IssueRead, Least, MemReadSet
  <1>5. TypeOK' BY <1>2, <1>3, <1>4 DEF TypeOK
  <1>6. StackIsCallChain' BY <1>1, <1>2 DEF StackIsCallChain, InBody
  <1>7. Control' /\ NoFatal'
    BY <1>1, <1>2, <1>3, <1>4, NullType DEF Control, NoFatal
  <1>8. Reading' BY <1>1, <1>2, <1>3, <1>4, EngineAssumption DEF Reading, MemReadSet
  <1>9. Nesting' /\ Answers' BY <1>1, <1>2 DEF Nesting, Answers
  <1> QED BY <1>5, <1>6, <1>7, <1>8, <1>9

\* The end of an iteration in which the reader has run: mr is what it left.
LEMMA AfterReaderInv ==
  ASSUME Inv, InMemRead,
         NEW mr \in MemReadSet, mr.pCoroutine = m.pCoroutine,
         mr.ResumePoint > 0 /\ ~mr.pCoroutine => mr.ResumePoint = 1,
         AfterReader(mr),
         AwaiterPtr' \in AwaiterSet,
         AwaiterPtr'.function = AwaiterPtr.function,
         AwaiterPtr'.owner = AwaiterPtr.owner,
         UNCHANGED <<AwaiterStack, running, live>>
  PROVE  Inv'
  <1> USE DEF Inv
  <1>1. /\ pc = "loop" /\ DebuggerState = "MEMREADCOR"
        /\ AwaiterPtr'.function \in {"ReadMemory", "DiscoverPosInModules"}
        /\ AwaiterPtr # NULL /\ AwaiterPtr' # NULL
        /\ AwaiterPtr'.owner = live /\ live = Len(AwaiterStack) + 1
    BY NullType DEF InMemRead, Control, StackIsCallChain
  <1>2. Nesting' BY DEF Nesting
  <1>3. CASE ReaderDone(mr)
    <2>1. /\ m' = mr /\ DebuggerState' = "COROUTINE"
          /\ answered' /\ answered' \in BOOLEAN
          /\ UNCHANGED <<pc, req, fresh>>
      BY <1>3 DEF AfterReader
    <2>2. TypeOK' BY <2>1 DEF TypeOK, DEBUGGER_STATE
    <2>3. StackIsCallChain' BY <1>1, <2>1 DEF StackIsCallChain, InBody
    <2>4. Control' /\ NoFatal' /\ Reading' /\ Answers'
      BY <1>1, <2>1 DEF Control, NoFatal, Reading, Answers
    <2> QED BY <1>2, <2>2, <2>3, <2>4
  <1>4. CASE ~ReaderDone(mr)
    <2>1. /\ m' = [mr EXCEPT !.BufferPos = 0] /\ pc' = "kernel" /\ fresh' = {}
          /\ UNCHANGED <<DebuggerState, answered>>
      BY <1>4 DEF AfterReader, IssueRead
    <2>2. /\ m' \in MemReadSet /\ m'.BufferPos = 0
          /\ m'.pCoroutine = m.pCoroutine
          /\ m'.BytesToRead = mr.BytesToRead /\ mr.BytesToRead <= BufferSize
          /\ mr.BytesToRead \in Nat
          /\ ~m'.pCoroutine => m'.ResumePoint = 1
      BY <1>4, <2>1, EngineAssumption DEF MemReadSet, ReaderDone
    <2>3. /\ req'.api = "read"
          /\ req'.len = Least(ChunkSize, m'.BytesToRead - m'.BufferPos)
          /\ req' \in [api : {"none", "manipulate", "read"}, addr : Nat,
                       len : Nat]
      BY <1>4, <2>2, EngineAssumption
         DEF AfterReader, IssueRead, Least, MemReadSet
    <2>4. TypeOK' BY <2>1, <2>2, <2>3 DEF TypeOK
    <2>5. StackIsCallChain' BY <1>1, <2>1 DEF StackIsCallChain, InBody
    <2>6. Control' /\ NoFatal'
      BY <1>1, <2>1, <2>2, <2>3 DEF Control, NoFatal
    <2>7. Reading' BY <1>1, <2>1, <2>2, <2>3 DEF Reading
    <2>8. Answers' BY <1>1, <2>1 DEF Answers
    <2> QED BY <1>2, <2>4, <2>5, <2>6, <2>7, <2>8
  <1> QED BY <1>3, <1>4

\* What the handler makes of the count of the last chunk.
LEMMA LastChunkType ==
  ASSUME TypeOK
  PROVE  /\ LastChunk \in MemReadSet
         /\ LastChunk.ResumePoint = m.ResumePoint
         /\ LastChunk.pCoroutine = m.pCoroutine
  BY DEF TypeOK, LastChunk, MemReadSet

\* The handler serves a BcAwaiter_ReadMemory.
LEMMA ReadMemoryStepInv == ASSUME Inv, ReadMemoryStep PROVE Inv'
  <1> DEFINE r == LastChunk.ResumePoint - 1
             mr == IF r = 1 THEN [LastChunk EXCEPT !.ResumePoint = r,
                                                   !.Pointer = AwaiterPtr.pointer,
                                                   !.BytesToRead = AwaiterPtr.size]
                            ELSE [LastChunk EXCEPT !.ResumePoint = r]
  <1>1. TypeOK /\ AwaiterPtr \in AwaiterSet BY DEF Inv, TypeOK
  <1>2. InMemRead /\ ~m.pCoroutine /\ m.ResumePoint \in {1, 2}
    BY DEF Inv, ReadMemoryStep, InMemRead, Reading
  <1>3. AfterReader(mr) /\ UNCHANGED <<AwaiterStack, running, live>>
    BY DEF ReadMemoryStep
  <1>4. r \in {0, 1} BY <1>1, <1>2, LastChunkType
  <1>5. mr \in MemReadSet /\ mr.pCoroutine = m.pCoroutine /\ mr.ResumePoint = r
    <2>1. PICK c \in MemReadSet : c = LastChunk /\ c.pCoroutine = m.pCoroutine
      BY <1>1, LastChunkType
    <2>2. PICK p \in Nat, n \in Nat : p = AwaiterPtr.pointer /\ n = AwaiterPtr.size
      BY <1>1 DEF AwaiterSet
    <2>3. CASE r = 1
      <3>1. mr = [c EXCEPT !.ResumePoint = 1, !.Pointer = p, !.BytesToRead = n]
        BY <2>1, <2>2, <2>3, Zenon
      <3> HIDE DEF mr, r
      <3>2. mr.ResumePoint = 1 /\ mr.pCoroutine = c.pCoroutine
        BY <3>1 DEF MemReadSet
      <3>3. 1 \in -1..2 OBVIOUS
      <3>4. mr \in MemReadSet BY <3>1, <3>3, Zenon DEF MemReadSet
      <3> QED BY <2>1, <2>3, <3>2, <3>4
    <2>4. CASE r = 0 BY <1>4, <2>1, <2>4 DEF MemReadSet
    <2> QED BY <1>4, <2>3, <2>4
  <1>6. /\ AwaiterPtr' \in AwaiterSet
        /\ AwaiterPtr'.function = AwaiterPtr.function
        /\ AwaiterPtr'.owner = AwaiterPtr.owner
    BY <1>1, Zenon DEF ReadMemoryStep, AwaiterSet
  <1> HIDE DEF r, mr
  <1> QED BY <1>2, <1>3, <1>4, <1>5, <1>6, AfterReaderInv

\* The handler calls the coroutine of MemReadCor.
LEMMA DiscoverStepInv == ASSUME Inv, DiscoverStep PROVE Inv'
  <1>1. TypeOK /\ AwaiterPtr \in AwaiterSet BY DEF Inv, TypeOK
  <1>2. InMemRead /\ m.pCoroutine /\ UNCHANGED <<AwaiterPtr, AwaiterStack, running, live>>
    BY Zenon DEF DiscoverStep
  <1>3. PICK rp \in {1, -1}, p \in Nat, n \in Nat :
          AfterReader([LastChunk EXCEPT !.ResumePoint = rp, !.Pointer = p,
                                        !.BytesToRead = n, !.ActualBytesRead = 0])
    BY EngineAssumption, Zenon DEF DiscoverStep
  <1> DEFINE mr == [LastChunk EXCEPT !.ResumePoint = rp, !.Pointer = p,
                                     !.BytesToRead = n, !.ActualBytesRead = 0]
  <1>4. mr \in MemReadSet /\ mr.pCoroutine = m.pCoroutine
    <2>1. PICK c \in MemReadSet : c = LastChunk /\ c.pCoroutine = m.pCoroutine
      BY <1>1, LastChunkType
    <2>2. rp \in -1..2 OBVIOUS
    <2> QED BY <2>1, <2>2, Zenon DEF MemReadSet
  <1>5. AfterReader(mr) BY <1>3
  <1> HIDE DEF mr
  <1>6. mr.pCoroutine BY <1>2, <1>4
  <1> QED BY <1>1, <1>2, <1>4, <1>5, <1>6, AfterReaderInv, ZenonT(30)

\* A step that changes nothing.
LEMMA StutterInv == ASSUME Inv, UNCHANGED vars PROVE Inv'
  BY DEF Inv, vars, TypeOK, StackIsCallChain, NoFatal, Control, Nesting,
         Reading, Answers, InBody

\* The conjunction of the parts is an invariant of the engine: it holds when the
\* driver starts and every step of KdReceivePacket, KdSendPacket and the coroutine
\* bodies keeps it.
THEOREM Invariance == Spec => []Inv
  <1>1. Init => Inv BY InitInv
  <1>2. Inv /\ [Next]_vars => Inv'
    <2> SUFFICES ASSUME Inv, [Next]_vars PROVE Inv'
      OBVIOUS
    <2>1. CASE KdReceivePacket
      BY <2>1, StartSessionInv, ResumeInv, SkipToProcessInv, ProcessFinishedInv,
         ProcessStateManipulateInv, ProcessRecvTimeoutInv, ProcessReadInv,
         ProcessJoinInv, NextChunkInv, ReadMemoryStepInv, DiscoverStepInv,
         ContinueInv DEF KdReceivePacket
    <2>2. CASE KdSendPacket
      BY <2>2, SendStateChangeInv, SendManipulateResponseInv,
         SendReadResponseInv DEF KdSendPacket
    <2>3. CASE Body
      BY <2>3, AwaitInv, FinishInv DEF Body
    <2>4. CASE UNCHANGED vars BY <2>4, StutterInv
    <2> QED BY <2>1, <2>2, <2>3, <2>4 DEF Next
  <1> QED BY <1>1, <1>2, PTL DEF Spec

-----------------------------------------------------------------------------

\* Type correctness: Root::DebuggerState, AwaiterPtr, AwaiterStack and
\* MemReadCor keep their types, and what KdSendPacket copies stays inside
\* MemReadCor.Buffer, whatever coroutines await.
THEOREM TypeCorrect == Spec => []TypeOK
  BY Invariance, PTL DEF Inv

\* KdReceivePacket never calls FatalError("UNEXPECTED_STATE_CHANGE") and never
\* resumes a NULL awaiter.
THEOREM NeverFatal == Spec => []NoFatal
  BY Invariance, PTL DEF Inv

\* AwaiterStack and AwaiterPtr are the chain of the coroutines alive, for every
\* depth of nesting.
THEOREM CallChainKept == Spec => []StackIsCallChain
  BY Invariance, PTL DEF Inv

\* Every chunk of a read lies inside MemReadCor.Buffer, for every chunk and
\* buffer size.
THEOREM ReadsInBounds == Spec => []BufferInBounds
  <1>1. Inv => BufferInBounds
    BY EngineAssumption, SMTT(30)
       DEF Inv, BufferInBounds, Control, Reading, Least, TypeOK, MemReadSet
  <1> QED BY Invariance, <1>1, PTL

-----------------------------------------------------------------------------

\* The part of Reading that says what a read has brought so far.  A read of ReadMemory has
\* not told its size (ResumePoint 2), or works on the chunk at BufferPos: the kernel brought
\* all of it or nothing, and all of it when the range is readable.
Chunk == Least(ChunkSize, m.BytesToRead - m.BufferPos)

Filling ==
    pc \in {"loop", "kernel"} /\ DebuggerState = "MEMREADCOR" /\ ~m.pCoroutine =>
        /\ m.ResumePoint = 2 =>
              pc = "loop" /\ m.BytesToRead = 0 /\ m.BufferPos = 0
        /\ m.ResumePoint = 1 =>
              /\ m.Pointer = AwaiterPtr.pointer /\ m.BytesToRead = AwaiterPtr.size
              /\ m.BufferPos = 0 \/ m.BufferPos < m.BytesToRead
              /\ m.BytesToRead <= ChunkSize => m.BufferPos = 0
              /\ pc = "kernel" => req.addr = m.Pointer + m.BufferPos
              /\ pc = "loop" =>
                    /\ m.ActualBytesRead = 0 \/ m.ActualBytesRead = Chunk
                    /\ ReadableRange(m.Pointer, m.BytesToRead) =>
                          m.ActualBytesRead = Chunk
                    /\ m.ActualBytesRead = Chunk =>
                          m.BufferPos .. (m.BufferPos + Chunk - 1) \subseteq fresh

\* Nothing tells a coroutine that its read succeeded before the read is over.
NoEarlySuccess ==
    AwaiterPtr.function = "ReadMemory" /\ ~answered => ~AwaiterPtr.retVal

\* The inductive invariant of the reads.
ReadInv == Filling /\ NoEarlySuccess /\ ReadsAnswered

\* After a step that leaves no ReadMemory awaited there is nothing to show.
LEMMA NotReading ==
  ASSUME Inv', AwaiterPtr'.function # "ReadMemory" PROVE ReadInv'
  <1>1. Filling' BY SMT DEF Filling, Inv, Control
  <1>2. NoEarlySuccess' /\ ReadsAnswered'
    BY Zenon DEF NoEarlySuccess, ReadsAnswered, OneChunkReadIsFresh, ReadableReadSucceeds
  <1> QED BY <1>1, <1>2 DEF ReadInv

\* After a step that leaves a read unanswered nobody has been told of its outcome.
LEMMA Undone ==
  ASSUME ~answered', ~AwaiterPtr'.retVal PROVE NoEarlySuccess' /\ ReadsAnswered'
  BY Zenon DEF NoEarlySuccess, ReadsAnswered, OneChunkReadIsFresh, ReadableReadSucceeds

\* A read that goes on is not answered and has not succeeded.
LEMMA Unanswered ==
  ASSUME Inv, ReadInv, AwaiterPtr.function = "ReadMemory",
         \/ pc \in {"process", "kernel"}
         \/ pc = "loop" /\ DebuggerState = "MEMREADCOR"
  PROVE  ~answered /\ ~AwaiterPtr.retVal
  <1>1. AwaiterPtr.function \in IoKinds BY DEF IoKinds
  <1>2. ~answered BY <1>1 DEF Inv, Answers
  <1> QED BY <1>2, Zenon DEF ReadInv, NoEarlySuccess

\* The chunk at BufferPos is not larger than what remains or than a chunk.
LEMMA ChunkSizes ==
  ASSUME m \in MemReadSet, m.BufferPos <= m.BytesToRead
  PROVE  /\ Chunk \in Nat
         /\ Chunk <= ChunkSize /\ Chunk <= m.BytesToRead - m.BufferPos
         /\ m.BytesToRead - m.BufferPos <= ChunkSize =>
               Chunk = m.BytesToRead - m.BufferPos
  BY EngineAssumption DEF Chunk, Least, MemReadSet

\* ProcessRead: PrepareRequest clears MemReadCor.
LEMMA ProcessReadFills ==
  ASSUME Inv, ReadInv, ProcessRead, AwaiterPtr.function = "ReadMemory"
  PROVE  ReadInv'
  <1>1. ~answered /\ ~AwaiterPtr.retVal
    BY Unanswered DEF ProcessRead
  <1>2. UNCHANGED <<AwaiterPtr, answered>> BY DEF ProcessRead
  <1>3. NoEarlySuccess' /\ ReadsAnswered'
    <2>1. ~answered' /\ ~AwaiterPtr'.retVal BY <1>1, <1>2
    <2> QED BY <2>1, Undone, Zenon
  <1>4. /\ pc' = "loop" /\ m'.ResumePoint = 2
        /\ m'.BytesToRead = 0 /\ m'.BufferPos = 0
    BY DEF ProcessRead, MemReadStart
  <1>5. Filling' BY <1>4 DEF Filling
  <1> QED BY <1>3, <1>5 DEF ReadInv

\* The next chunk is asked for at the next position.
LEMMA NextChunkFills ==
  ASSUME Inv, ReadInv, NextChunk, AwaiterPtr.function = "ReadMemory"
  PROVE  ReadInv'
  <1>1. pc = "loop" /\ DebuggerState = "MEMREADCOR" /\ ~m.pCoroutine
    BY DEF NextChunk, InMemRead, Inv, Control
  <1>2. ~answered /\ ~AwaiterPtr.retVal BY <1>1, Unanswered
  <1>3. UNCHANGED <<AwaiterPtr, answered, DebuggerState>> /\ pc' = "kernel"
    BY DEF NextChunk, IssueRead
  <1>4. NoEarlySuccess' /\ ReadsAnswered'
    <2>1. ~answered' /\ ~AwaiterPtr'.retVal BY <1>2, <1>3
    <2> QED BY <2>1, Undone, Zenon
  <1>5. m \in MemReadSet /\ m.BytesToRead - m.BufferPos > ChunkSize
    BY DEF Inv, TypeOK, NextChunk, BytesLeft
  <1>6. m.ResumePoint = 1
    <2>1. m.ResumePoint \in {1, 2} BY <1>1 DEF Inv, Reading
    <2>2. m.ResumePoint # 2
      BY <1>1, <1>5, EngineAssumption DEF ReadInv, Filling
    <2> QED BY <2>1, <2>2
  <1>7. m.Pointer = AwaiterPtr.pointer /\ m.BytesToRead = AwaiterPtr.size
    BY <1>1, <1>6 DEF ReadInv, Filling
  <1>8. /\ m'.Pointer = m.Pointer /\ m'.BytesToRead = m.BytesToRead
        /\ m'.ResumePoint = 1 /\ m'.BufferPos = m.BufferPos + ChunkSize
        /\ req'.addr = m'.Pointer + m'.BufferPos
    BY <1>5, <1>6, EngineAssumption DEF NextChunk, IssueRead, Advance, MemReadSet
  <1>9. m'.BufferPos < m'.BytesToRead /\ m'.BytesToRead > ChunkSize
    BY <1>5, <1>8, EngineAssumption DEF MemReadSet
  <1>10. Filling'
    BY <1>3, <1>5, <1>7, <1>8, <1>9, EngineAssumption DEF Filling, MemReadSet
  <1> QED BY <1>4, <1>10 DEF ReadInv

\* The kernel answers: all bytes of the chunk are in the buffer, or none is counted.
LEMMA SendReadFills ==
  ASSUME Inv, ReadInv, SendReadResponse, AwaiterPtr.function = "ReadMemory"
  PROVE  ReadInv'
  <1>1. pc = "kernel" /\ DebuggerState = "MEMREADCOR" /\ ~m.pCoroutine
    BY DEF SendReadResponse, Inv, Control
  <1>2. ~answered /\ ~AwaiterPtr.retVal BY <1>1, Unanswered
  <1>3. UNCHANGED <<AwaiterPtr, answered, DebuggerState>> /\ pc' = "loop"
    BY DEF SendReadResponse
  <1>4. NoEarlySuccess' /\ ReadsAnswered'
    <2>1. ~answered' /\ ~AwaiterPtr'.retVal BY <1>2, <1>3
    <2> QED BY <2>1, Undone, Zenon
  <1>5. m \in MemReadSet /\ m.BufferPos <= m.BytesToRead /\ req.len = Chunk
    BY <1>1 DEF Inv, TypeOK, Reading, Chunk
  <1>6. m.ResumePoint = 1
    <2>1. m.ResumePoint \in {1, 2} BY <1>1 DEF Inv, Reading
    <2> QED BY <1>1, <2>1 DEF ReadInv, Filling
  <1>7. /\ m.Pointer = AwaiterPtr.pointer /\ m.BytesToRead = AwaiterPtr.size
        /\ m.BufferPos = 0 \/ m.BufferPos < m.BytesToRead
        /\ m.BytesToRead <= ChunkSize => m.BufferPos = 0
        /\ req.addr = m.Pointer + m.BufferPos
    BY <1>1, <1>6 DEF ReadInv, Filling
  <1>8. PICK got \in Nat : /\ m' = [m EXCEPT !.ActualBytesRead = got]
                           /\ got = IF KernelCanRead THEN Chunk ELSE 0
    BY <1>5, ChunkSizes DEF SendReadResponse
  <1>9. /\ m'.Pointer = m.Pointer /\ m'.BytesToRead = m.BytesToRead
        /\ m'.ResumePoint = 1 /\ m'.BufferPos = m.BufferPos
        /\ m'.ActualBytesRead = got
    BY <1>5, <1>6, <1>8 DEF MemReadSet
  <1>10. Chunk' = Chunk BY <1>9 DEF Chunk
  <1>11. Chunk \in Nat /\ Chunk <= m.BytesToRead - m.BufferPos
    BY <1>5, ChunkSizes
  <1>12. ReadableRange(m.Pointer, m.BytesToRead) => got = Chunk
    <2> SUFFICES ASSUME ReadableRange(m.Pointer, m.BytesToRead), Chunk > 0
                 PROVE  KernelCanRead
      BY <1>8, <1>11
    <2>1. \A a \in req.addr .. (req.addr + req.len - 1) :
             a \in m.Pointer .. (m.Pointer + m.BytesToRead - 1)
      BY <1>5, <1>7, <1>11 DEF MemReadSet
    <2> QED BY <1>5, <2>1 DEF KernelCanRead, ReadableRange
  <1>13. got = Chunk => m.BufferPos .. (m.BufferPos + Chunk - 1) \subseteq fresh'
    <2>1. CASE KernelCanRead BY <1>5, <2>1 DEF SendReadResponse
    <2>2. CASE ~KernelCanRead BY <1>5, <1>8, <2>2 DEF MemReadSet
    <2> QED BY <2>1, <2>2
  <1>14. Filling'
    <2>1. ReadableRange(m.Pointer, m.BytesToRead)' => got = Chunk
      BY <1>9, <1>12 DEF ReadableRange
    <2> QED BY <1>3, <1>7, <1>8, <1>9, <1>10, <1>13, <2>1 DEF Filling
  <1> QED BY <1>4, <1>14 DEF ReadInv

\* The handler of DEBST_MEMREADCOR tells the coroutine the truth about its bytes.
LEMMA ReadMemoryStepFills ==
  ASSUME Inv, ReadInv, ReadMemoryStep PROVE ReadInv'
  <1> DEFINE r == LastChunk.ResumePoint - 1
             mr == IF r = 1 THEN [LastChunk EXCEPT !.ResumePoint = r,
                                                   !.Pointer = AwaiterPtr.pointer,
                                                   !.BytesToRead = AwaiterPtr.size]
                            ELSE [LastChunk EXCEPT !.ResumePoint = r]
  <1>1. /\ pc = "loop" /\ DebuggerState = "MEMREADCOR" /\ ~m.pCoroutine
        /\ AwaiterPtr.function = "ReadMemory" /\ BytesLeft <= ChunkSize
    BY DEF ReadMemoryStep, InMemRead
  <1>2. ~answered /\ ~AwaiterPtr.retVal BY <1>1, Unanswered
  <1>3. /\ m \in MemReadSet /\ LastChunk \in MemReadSet /\ r = m.ResumePoint - 1
        /\ m.ResumePoint \in {1, 2} /\ AwaiterPtr \in AwaiterSet
        /\ m.BufferPos <= m.BytesToRead
    BY <1>1, LastChunkType DEF Inv, TypeOK, Reading
  <1>4. AfterReader(mr)
        /\ AwaiterPtr' = IF r <= 0 /\ ReadSucceeded(LastChunk)
                           THEN [AwaiterPtr EXCEPT !.retVal = TRUE] ELSE AwaiterPtr
    BY DEF ReadMemoryStep
  <1>5. CASE m.ResumePoint = 2
    <2>1. r = 1 /\ AwaiterPtr' = AwaiterPtr BY <1>3, <1>4, <1>5
    <2>2. PICK p \in Nat, n \in Nat : p = AwaiterPtr.pointer /\ n = AwaiterPtr.size
      BY <1>3 DEF AwaiterSet
    <2>3. PICK c \in MemReadSet : c = LastChunk BY <1>3
    <2>4. mr = [c EXCEPT !.ResumePoint = 1, !.Pointer = p, !.BytesToRead = n]
      BY <2>1, <2>2, <2>3, Zenon
    <2> HIDE DEF mr, r
    <2>5. mr.ResumePoint = 1 /\ mr.Pointer = p /\ mr.BytesToRead = n
      BY <2>4 DEF MemReadSet
    <2>6. CASE ReaderDone(mr)
      <3>1. /\ DebuggerState' = "COROUTINE" /\ n > BufferSize
        BY <1>4, <2>2, <2>5, <2>6 DEF AfterReader, ReaderDone
      <3>2. Filling' BY <3>1 DEF Filling
      <3>3. ~AwaiterPtr'.retVal /\ AwaiterPtr'.size = n BY <1>2, <2>1, <2>2
      <3>4. ~(AwaiterPtr'.size <= BufferSize) BY <3>1, <3>3, EngineAssumption
      <3>5. NoEarlySuccess' /\ ReadsAnswered'
        BY <3>3, <3>4, Zenon
           DEF NoEarlySuccess, ReadsAnswered, OneChunkReadIsFresh, ReadableReadSucceeds
      <3> QED BY <3>2, <3>5 DEF ReadInv
    <2>7. CASE ~ReaderDone(mr)
      <3>1. IssueRead([mr EXCEPT !.BufferPos = 0]) /\ UNCHANGED answered
        BY <1>4, <2>7 DEF AfterReader
      <3>2. mr \in MemReadSet
        <4>1. 1 \in -1..2 OBVIOUS
        <4> QED BY <2>3, <2>4, <4>1, Zenon DEF MemReadSet
      <3>3. /\ m' = [mr EXCEPT !.BufferPos = 0] /\ pc' = "kernel"
            /\ req'.addr = m'.Pointer + m'.BufferPos
        BY <3>1 DEF IssueRead
      <3>4. /\ m'.ResumePoint = 1 /\ m'.Pointer = p /\ m'.BytesToRead = n
            /\ m'.BufferPos = 0
        BY <2>5, <3>2, <3>3 DEF MemReadSet
      <3>5. Filling' BY <2>1, <2>2, <3>3, <3>4 DEF Filling
      <3>6. NoEarlySuccess' /\ ReadsAnswered'
        <4>1. ~answered' /\ ~AwaiterPtr'.retVal BY <1>2, <2>1, <3>1
        <4> QED BY <4>1, Undone, Zenon
      <3> QED BY <3>5, <3>6 DEF ReadInv
    <2> QED BY <2>6, <2>7
  <1>6. CASE m.ResumePoint = 1
    <2>1. r = 0 BY <1>3, <1>6
    <2>2. /\ m.Pointer = AwaiterPtr.pointer /\ m.BytesToRead = AwaiterPtr.size
          /\ m.BufferPos = 0 \/ m.BufferPos < m.BytesToRead
          /\ m.BytesToRead <= ChunkSize => m.BufferPos = 0
          /\ ReadableRange(m.Pointer, m.BytesToRead) => m.ActualBytesRead = Chunk
          /\ m.ActualBytesRead = Chunk =>
                m.BufferPos .. (m.BufferPos + Chunk - 1) \subseteq fresh
      BY <1>1, <1>6 DEF ReadInv, Filling
    <2>3. Chunk = m.BytesToRead - m.BufferPos /\ BytesLeft = Chunk
      BY <1>1, <1>3, ChunkSizes DEF BytesLeft
    <2>4. mr.ResumePoint = 0 BY <1>3, <2>1 DEF MemReadSet
    <2>5. ReaderDone(mr) BY <2>4 DEF ReaderDone
    <2> HIDE DEF mr
    <2>6. DebuggerState' = "COROUTINE" /\ fresh' = fresh /\ answered'
      BY <1>4, <2>5 DEF AfterReader
    <2>7. Filling' BY <2>6 DEF Filling
    <2>8. NoEarlySuccess' BY <2>6 DEF NoEarlySuccess
    <2>9. /\ AwaiterPtr'.size = AwaiterPtr.size
          /\ AwaiterPtr'.pointer = AwaiterPtr.pointer
          /\ AwaiterPtr'.retVal <=> ReadSucceeded(LastChunk)
      <3>1. CASE ReadSucceeded(LastChunk)
        <4>1. AwaiterPtr' = [AwaiterPtr EXCEPT !.retVal = TRUE] BY <1>4, <2>1, <3>1
        <4> QED BY <1>3, <3>1, <4>1, Zenon DEF AwaiterSet
      <3>2. CASE ~ReadSucceeded(LastChunk)
        <4>1. AwaiterPtr' = AwaiterPtr BY <1>4, <3>2
        <4> QED BY <1>2, <3>2, <4>1, Zenon
      <3> QED BY <3>1, <3>2
    <2>10. ReadSucceeded(LastChunk) <=>
              \/ m.ActualBytesRead = Chunk /\ Chunk # 0
              \/ m.ActualBytesRead = m.BytesToRead
      BY <1>3, <2>3 DEF ReadSucceeded, LastChunk, MemReadSet
    <2>11. ReadableReadSucceeds'
      <3> SUFFICES ASSUME ReadableRange(AwaiterPtr.pointer, AwaiterPtr.size)
                   PROVE  ReadSucceeded(LastChunk)
        BY <2>9, Zenon DEF ReadableReadSucceeds, ReadableRange
      <3>1. m.ActualBytesRead = Chunk BY <2>2
      <3> QED BY <1>3, <2>2, <2>3, <2>10, <3>1 DEF MemReadSet
    <2>12. OneChunkReadIsFresh'
      <3> SUFFICES ASSUME AwaiterPtr.size <= ChunkSize, ReadSucceeded(LastChunk)
                   PROVE  0..(AwaiterPtr.size - 1) \subseteq fresh
        BY <2>6, <2>9, Zenon DEF OneChunkReadIsFresh
      <3>1. m.BufferPos = 0 /\ Chunk = AwaiterPtr.size
        BY <1>3, <2>2, <2>3 DEF MemReadSet
      <3>2. m.ActualBytesRead = Chunk BY <2>2, <2>10, <3>1
      <3>3. m.BufferPos .. (m.BufferPos + Chunk - 1) \subseteq fresh BY <2>2, <3>2
      <3>4. m.BufferPos + Chunk - 1 = AwaiterPtr.size - 1
        BY <1>3, <3>1 DEF AwaiterSet
      <3> QED BY <3>1, <3>3, <3>4, Zenon
    <2> QED BY <2>7, <2>8, <2>11, <2>12 DEF ReadInv, ReadsAnswered
  <1> QED BY <1>3, <1>5, <1>6

\* The steps in which no byte of a read arrives.
LEMMA OthersFill ==
  ASSUME Inv, Inv', ReadInv, [Next]_vars,
         ~NextChunk, ~ReadMemoryStep, ~SendReadResponse, ~ProcessRead
  PROVE  ReadInv'
  <1>1. ASSUME AwaiterPtr'.function # "ReadMemory" PROVE ReadInv'
    BY <1>1, NotReading
  <1>2. CASE Await
    <2>1. PICK k \in IoKinds \cup {"Join"}, p \in Nat, s \in Nat :
             AwaiterPtr' = Awaiter(k, running, p, s)
      BY <1>2, EngineAssumption DEF Await
    <2>2. ~answered' /\ ~AwaiterPtr'.retVal BY <1>2, <2>1 DEF Await, Awaiter
    <2>3. NoEarlySuccess' /\ ReadsAnswered' BY <2>2, Undone, ZenonT(30)
    <2>4. Filling'
      BY <1>2 DEF Filling, Await, InBody, AfterBody, Inv, Control
    <2> QED BY <2>3, <2>4 DEF ReadInv
  <1>3. CASE SkipToProcess
    <2>1. pc' = "process" /\ UNCHANGED <<AwaiterPtr, answered, fresh>>
      BY <1>3 DEF SkipToProcess
    <2>2. Filling' BY <2>1 DEF Filling
    <2> QED BY <2>1, <2>2, Zenon
            DEF ReadInv, NoEarlySuccess, ReadsAnswered, OneChunkReadIsFresh,
                ReadableReadSucceeds
  <1>4. CASE UNCHANGED vars
    BY <1>4, ZenonT(30)
       DEF vars, ReadInv, Filling, Chunk, NoEarlySuccess, ReadsAnswered,
           OneChunkReadIsFresh, ReadableReadSucceeds
  <1>5. CASE StartSession \/ Resume \/ Continue \/ SendStateChange \/ Finish
    <2>1. AwaiterPtr' = NULL
      BY <1>5 DEF StartSession, Resume, Continue, SendStateChange, Finish, InBody,
                  Inv, Control, NoFatal
    <2> QED BY <1>1, <2>1, NullType
  <1>6. CASE ProcessFinished
    <2>1. AwaiterPtr' = NULL \/ AwaiterPtr'.function = "Join"
      BY <1>6 DEF ProcessFinished, ParentAwaiter, Inv, StackIsCallChain, TypeOK
    <2> QED BY <1>1, <2>1, NullType
  <1>7. CASE ProcessStateManipulate \/ ProcessRecvTimeout
    BY <1>1, <1>7 DEF ProcessStateManipulate, ProcessRecvTimeout
  <1>8. CASE ProcessJoin BY <1>1, <1>8, NullType DEF ProcessJoin
  <1>9. CASE DiscoverStep
    <2>1. AwaiterPtr'.function = "DiscoverPosInModules"
      BY <1>9, Zenon DEF DiscoverStep, InMemRead, Inv, Control
    <2> QED BY <1>1, <2>1
  <1>10. CASE SendManipulateResponse
    <2>1. AwaiterPtr.function = "StateManipulate" /\ AwaiterPtr \in AwaiterSet
      BY <1>10 DEF SendManipulateResponse, Inv, Control, TypeOK
    <2>2. AwaiterPtr'.function = "StateManipulate"
      BY <1>10, <2>1, Zenon DEF SendManipulateResponse, AwaiterSet
    <2> QED BY <1>1, <2>2
  <1> QED BY <1>2, <1>3, <1>4, <1>5, <1>6, <1>7, <1>8, <1>9, <1>10
         DEF Next, KdReceivePacket, KdSendPacket, Body

\* For every chunk and buffer size and whatever the kernel can read: a coroutine that is
\* told that its read of at most one chunk succeeded finds all of its bytes in
\* MemReadCor.Buffer, and a read of readable bytes that fit in the buffer succeeds, in
\* however many chunks the handler of DEBST_MEMREADCOR brings them.
THEOREM ReadsAreAnswered == Spec => []ReadsAnswered
  <1>1. Init => ReadInv
    <2> SUFFICES ASSUME Init PROVE ReadInv
      OBVIOUS
    <2>1. pc = "os" /\ AwaiterPtr.function # "ReadMemory"
      BY NullType DEF Init
    <2> QED BY <2>1, Zenon
            DEF ReadInv, Filling, NoEarlySuccess, ReadsAnswered, OneChunkReadIsFresh,
                ReadableReadSucceeds
  <1>2. Inv /\ Inv' /\ ReadInv /\ [Next]_vars => ReadInv'
    <2> SUFFICES ASSUME Inv, Inv', ReadInv, [Next]_vars PROVE ReadInv'
      OBVIOUS
    <2>1. CASE NextChunk \/ SendReadResponse \/ ProcessRead
      <3>1. UNCHANGED AwaiterPtr
        BY <2>1 DEF NextChunk, SendReadResponse, ProcessRead
      <3>2. CASE AwaiterPtr.function = "ReadMemory"
        BY <2>1, <3>2, NextChunkFills, SendReadFills, ProcessReadFills
      <3>3. CASE AwaiterPtr.function # "ReadMemory"
        <4>1. AwaiterPtr'.function # "ReadMemory" BY <3>1, <3>3
        <4> QED BY <4>1, NotReading
      <3> QED BY <3>2, <3>3
    <2>2. CASE ReadMemoryStep BY <2>2, ReadMemoryStepFills
    <2> QED BY <2>1, <2>2, OthersFill
  <1>3. ReadInv => ReadsAnswered BY DEF ReadInv
  <1> QED BY <1>1, <1>2, <1>3, Invariance, PTL DEF Spec

-----------------------------------------------------------------------------

\* Before the first session the chain of calls is empty.
LEMMA ChainInitial == Init => Chain!ChainInit
  BY SMTT(30) DEF Init, Chain!ChainInit, ChainState

\* A step of KdReceivePacket is a step of the chain of calls or none.
LEMMA ReceiveStep ==
  ASSUME Inv, KdReceivePacket
  PROVE  [Chain!ChainNext]_(Chain!chainVars)
  <1> USE DEF Chain!chainVars, ChainState
  <1>1. CASE StartSession
    <2>1. live = 0 /\ live' = 1 /\ AwaiterPtr' = NULL
      BY <1>1 DEF StartSession, Inv, Control
    <2> QED BY <2>1, NullType DEF Chain!ChainNext, Chain!Enter, IoKinds
  <1>2. CASE Resume
    <2>1. /\ AwaiterPtr # NULL /\ AwaiterPtr' = NULL /\ live' = live
          /\ live \in Nat \ {0}
          /\ AwaiterPtr.function \in IoKinds => answered
      BY <1>2 DEF Resume, Inv, Control, Answers, StackIsCallChain, TypeOK
    <2> QED BY <2>1, NullType DEF Chain!ChainNext, Chain!Wake, IoKinds
  <1>3. CASE SkipToProcess BY <1>3 DEF SkipToProcess
  <1>4. CASE ProcessFinished
    <2>1. /\ AwaiterPtr = NULL /\ UNCHANGED live
          /\ AwaiterPtr' = NULL \/ AwaiterPtr'.function = "Join"
      BY <1>4, ProcessFinishedInv
         DEF ProcessFinished, ParentAwaiter, Inv, StackIsCallChain, TypeOK
    <2> QED BY <2>1, NullType, SMTT(30) DEF IoKinds
  <1>5. CASE ProcessStateManipulate BY <1>5 DEF ProcessStateManipulate
  <1>6. CASE ProcessRecvTimeout
    <2>1. /\ AwaiterPtr.function \in IoKinds /\ ~answered /\ answered'
          /\ UNCHANGED <<live, AwaiterPtr>>
      BY <1>6 DEF ProcessRecvTimeout, Inv, Answers, IoKinds
    <2> QED BY <2>1 DEF Chain!ChainNext, Chain!Answer
  <1>7. CASE ProcessRead BY <1>7 DEF ProcessRead
  <1>8. CASE ProcessJoin
    <2>1. /\ AwaiterPtr.function = "Join" /\ AwaiterPtr' = NULL
          /\ live' = live + 1 /\ live \in Nat \ {0} /\ live < MaxDepth
      BY <1>8, NullType
         DEF ProcessJoin, Inv, StackIsCallChain, Nesting, TypeOK
    <2> QED BY <2>1, NullType DEF Chain!ChainNext, Chain!Call, IoKinds
  <1>9. CASE NextChunk BY <1>9 DEF NextChunk
  <1>10. CASE ReadMemoryStep \/ DiscoverStep
    <2>1. AwaiterPtr.function \in IoKinds /\ ~answered
      BY <1>10, ZenonT(30) DEF ReadMemoryStep, DiscoverStep, InMemRead, Inv, Control,
                   Answers, IoKinds
    <2>2. /\ AwaiterPtr'.function = AwaiterPtr.function /\ UNCHANGED live
          /\ answered' = answered \/ answered' = TRUE
      BY <1>10, Zenon DEF ReadMemoryStep, DiscoverStep, AfterReader, Inv, TypeOK,
                   AwaiterSet
    <2> QED BY <2>1, <2>2, SMTT(30) DEF Chain!ChainNext, Chain!Answer
  <1>11. CASE Continue BY <1>11 DEF Continue
  <1> QED BY <1>1, <1>2, <1>3, <1>4, <1>5, <1>6, <1>7, <1>8, <1>9, <1>10, <1>11
         DEF KdReceivePacket

\* A step of KdSendPacket is a step of the chain of calls or none.
LEMMA SendStep ==
  ASSUME Inv, KdSendPacket
  PROVE  [Chain!ChainNext]_(Chain!chainVars)
  <1> USE DEF Chain!chainVars, ChainState
  <1>1. CASE SendStateChange BY <1>1 DEF SendStateChange
  <1>2. CASE SendManipulateResponse
    <2>1. AwaiterPtr.function = "StateManipulate" /\ ~answered
      BY <1>2 DEF SendManipulateResponse, Inv, Control, Answers, IoKinds
    <2>2. AwaiterPtr'.function = "StateManipulate" /\ answered' /\ UNCHANGED live
      BY <1>2, <2>1 DEF SendManipulateResponse, Inv, Control, TypeOK, AwaiterSet
    <2> QED BY <2>1, <2>2 DEF Chain!ChainNext, Chain!Answer, IoKinds
  <1>3. CASE SendReadResponse BY <1>3 DEF SendReadResponse
  <1> QED BY <1>1, <1>2, <1>3 DEF KdSendPacket

\* A step of a coroutine body is a step of the chain of calls.
LEMMA BodyStep ==
  ASSUME Inv, Body
  PROVE  [Chain!ChainNext]_(Chain!chainVars)
  <1> USE DEF Chain!chainVars, ChainState
  <1>1. AwaiterPtr = NULL /\ live \in Nat \ {0} /\ running = live
    BY DEF Body, Await, Finish, InBody, Inv, Control, StackIsCallChain, TypeOK
  <1>2. CASE Await
    <2>1. ~answered' /\ UNCHANGED live BY <1>2 DEF Await
    <2> QED BY <1>1, <2>1, NullType DEF Chain!ChainNext, Chain!Ask, IoKinds
  <1>3. CASE Finish
    <2>1. live' = live - 1 /\ UNCHANGED AwaiterPtr BY <1>1, <1>3 DEF Finish
    <2> QED BY <1>1, <2>1, NullType DEF Chain!ChainNext, Chain!Return, IoKinds
  <1> QED BY <1>2, <1>3 DEF Body

\* The coroutine engine of KdReceivePacket, KdSendPacket and ProcessAwaiter
\* implements one sequential chain of nested calls (CallChain), for every depth.
THEOREM Refinement == Spec => ImplementsCallChain
  <1>1. Init => Chain!ChainInit BY ChainInitial
  <1>2. Inv /\ [Next]_vars => [Chain!ChainNext]_(Chain!chainVars)
    <2>1. ASSUME UNCHANGED vars PROVE UNCHANGED Chain!chainVars
      BY <2>1 DEF vars, Chain!chainVars, ChainState
    <2> QED BY <2>1, ReceiveStep, SendStep, BodyStep DEF Next
  <1> QED BY <1>1, <1>2, Invariance, PTL
         DEF Spec, ImplementsCallChain, Chain!ChainSpec
=============================================================================
