------------------------------ MODULE KdEngine ------------------------------
(***************************************************************************)
(* The debugger engine inside the replaced KDCOM.DLL.                      *)
(*                                                                         *)
(* The kernel reports a state change with KdSendPacket and then calls      *)
(* KdReceivePacket for the requests of what it takes to be a remote        *)
(* debugger.  BugChecker answers from a loop that runs C++20 coroutines:   *)
(* a coroutine that awaits something leaves an awaiter in Root::AwaiterPtr *)
(* and ProcessAwaiter turns it into a request, a memory read of several    *)
(* chunks, a time-out or the start of a child coroutine, whose parent's    *)
(* awaiter waits in Root::AwaiterStack.                                    *)
(*                                                                         *)
(* One action is one iteration of the loop, cut where a coroutine body     *)
(* runs.  Nothing interleaves with a session: the kernel has frozen the    *)
(* other processors.  A coroutine is named by its nesting depth, and its   *)
(* body is arbitrary: each time it runs it awaits anything or finishes.    *)
(***************************************************************************)
EXTENDS Integers, Sequences

CONSTANTS
    MaxDepth,    \* bound: deepest nesting of BcAwaiter_Join
    ChunkSize,   \* _chunkSize_ (1024): bytes of one DbgKdReadVirtualMemoryApi
    BufferSize,  \* sizeof(MemReadCor.Buffer) (32 * 1024)
    Pointers,    \* addresses that coroutines read from
    Sizes,       \* numbers of bytes that coroutines read
    Readable     \* addresses the kernel can read (external)

ASSUME EngineAssumption ==
    /\ MaxDepth \in Nat \ {0}
    /\ ChunkSize \in Nat \ {0}
    /\ BufferSize \in Nat
    /\ ChunkSize <= BufferSize
    /\ Pointers \subseteq Nat
    /\ Sizes \subseteq Nat

VARIABLES
    pc,             \* who runs: the system ("os"), the top of the loop
                    \* ("loop"), a coroutine that the loop ("body") or
                    \* ProcessAwaiter ("child") has called, ProcessAwaiter
                    \* ("process"), the kernel with a request ("kernel"),
                    \* or nobody after FatalError or a NULL awaiter ("fatal")
    DebuggerState,  \* Root::DebuggerState
    AwaiterPtr,     \* Root::AwaiterPtr
    AwaiterStack,   \* Root::AwaiterStack
    m,              \* Root::MemReadCor
    req,            \* the request the kernel works on
    running,        \* coroutine that runs, when InBody
    live,           \* coroutines started and not finished are 1..live
    answered,       \* history: what AwaiterPtr awaits has happened
    fresh           \* history: offsets of MemReadCor.Buffer that the current
                    \* read has written

vars == <<pc, DebuggerState, AwaiterPtr, AwaiterStack, m, req, running, live,
          answered, fresh>>

-----------------------------------------------------------------------------

DEBUGGER_STATE == {"UNKNOWN", "STATE_CHANGED", "CONTINUE", "MEMREADCOR",
                   "COROUTINE", "PROCESS_AWAITER"}

\* Awaiter classes of BcCoroutine.h; "NULL" is the null AwaiterPtr.
IoKinds == {"StateManipulate", "DiscoverPosInModules", "RecvTimeout",
            "ReadMemory"}

Awaiter(kind, d, p, s) ==
    [function |-> kind, owner |-> d, pointer |-> p, size |-> s,
     retVal |-> FALSE]

NULL == Awaiter("NULL", 0, 0, 0)

\* BcAwaiter_Xxx::PrepareRequest: the read has not told its size yet, so that
\* the handler of MEMREADCOR runs the reader first.
MemReadStart(legacy) ==
    [ResumePoint |-> IF legacy THEN 0 ELSE 2, Pointer |-> 0, BytesToRead |-> 0,
     ActualBytesRead |-> 0, BufferPos |-> 0, pCoroutine |-> legacy]

NoRequest == [api |-> "none", addr |-> 0, len |-> 0]

Least(a, b) == IF a < b THEN a ELSE b

Init == /\ pc = "os"
        /\ DebuggerState = "UNKNOWN"
        /\ AwaiterPtr = NULL
        /\ AwaiterStack = << >>
        /\ m = MemReadStart(TRUE)
        /\ req = NoRequest
        /\ running = 0
        /\ live = 0
        /\ answered = FALSE
        /\ fresh = {}

-----------------------------------------------------------------------------
(* KdSendPacket with a state change; the kernel then calls KdReceivePacket. *)

SendStateChange ==
    /\ pc = "os"
    /\ DebuggerState' = "STATE_CHANGED"
    /\ pc' = "loop"
    /\ UNCHANGED <<AwaiterPtr, AwaiterStack, m, req, running, live, answered,
                   fresh>>

-----------------------------------------------------------------------------
(* The loop of KdReceivePacket: start, resume or skip a coroutine.          *)

StartSession ==
    /\ pc = "loop" /\ DebuggerState = "STATE_CHANGED"
    /\ IF AwaiterPtr # NULL
         THEN /\ pc' = "fatal"       \* FatalError("UNEXPECTED_STATE_CHANGE")
              /\ UNCHANGED <<AwaiterPtr, running, live>>
         ELSE /\ pc' = "body"
              /\ running' = 1
              /\ live' = 1
              /\ UNCHANGED AwaiterPtr
    /\ UNCHANGED <<DebuggerState, AwaiterStack, m, req, answered, fresh>>

Resume ==
    /\ pc = "loop" /\ DebuggerState = "COROUTINE"
    /\ IF AwaiterPtr = NULL
         THEN /\ pc' = "fatal"       \* a NULL pointer is dereferenced
              /\ UNCHANGED <<AwaiterPtr, running>>
         ELSE /\ pc' = "body"
              /\ running' = AwaiterPtr.owner
              /\ AwaiterPtr' = NULL
    /\ UNCHANGED <<DebuggerState, AwaiterStack, m, req, live, answered, fresh>>

SkipToProcess ==
    /\ pc = "loop" /\ DebuggerState = "PROCESS_AWAITER"
    /\ pc' = "process"
    /\ UNCHANGED <<DebuggerState, AwaiterPtr, AwaiterStack, m, req, running,
                   live, answered, fresh>>

-----------------------------------------------------------------------------
(* A coroutine body runs to its next co_await or to its end.                *)

InBody == pc \in {"body", "child"}

\* Where control goes when the body suspends or ends: ProcessAwaiter follows
\* in the loop, and returns to the loop (RepeatLoop) itself.
AfterBody == IF pc = "child" THEN "loop" ELSE "process"

Await ==
    /\ InBody
    /\ \E kind \in IoKinds \cup {"Join"}, p \in Pointers, s \in Sizes :
         /\ kind = "Join" => running < MaxDepth
         /\ AwaiterPtr' = Awaiter(kind, running,
                                  IF kind = "ReadMemory" THEN p ELSE 0,
                                  IF kind = "ReadMemory" THEN s ELSE 0)
    /\ answered' = FALSE
    /\ pc' = AfterBody
    /\ UNCHANGED <<DebuggerState, AwaiterStack, m, req, running, live, fresh>>

\* co_return: final_suspend never suspends, so the frame is gone.
Finish ==
    /\ InBody
    /\ live' = running - 1
    /\ pc' = AfterBody
    /\ UNCHANGED <<DebuggerState, AwaiterPtr, AwaiterStack, m, req, running,
                   answered, fresh>>

-----------------------------------------------------------------------------
(* BcAwaiterBase::ProcessAwaiter.                                           *)

ParentAwaiter_Oldest == AwaiterStack[1]

\* AwaiterStack.back()
ParentAwaiter == AwaiterStack[Len(AwaiterStack)]

ProcessFinished_AlwaysResume ==
    /\ pc = "process" /\ AwaiterPtr = NULL
    /\ pc' = "loop"
    /\ DebuggerState' = "COROUTINE"
    /\ IF AwaiterStack # << >>
         THEN /\ AwaiterPtr' = ParentAwaiter
              /\ AwaiterStack' = SubSeq(AwaiterStack, 1, Len(AwaiterStack) - 1)
         ELSE UNCHANGED <<AwaiterPtr, AwaiterStack>>
    /\ UNCHANGED <<m, req, running, live, answered, fresh>>

\* No awaiter: the coroutine has finished.  Its parent's awaiter is taken from
\* the stack and resumed next, or the session is over.
ProcessFinished ==
    /\ pc = "process" /\ AwaiterPtr = NULL
    /\ pc' = "loop"
    /\ IF AwaiterStack # << >>
         THEN /\ AwaiterPtr' = ParentAwaiter
              /\ AwaiterStack' = SubSeq(AwaiterStack, 1, Len(AwaiterStack) - 1)
              /\ DebuggerState' = "COROUTINE"
         ELSE /\ DebuggerState' = "CONTINUE"
              /\ UNCHANGED <<AwaiterPtr, AwaiterStack>>
    /\ UNCHANGED <<m, req, running, live, answered, fresh>>

ProcessStateManipulate ==
    /\ pc = "process" /\ AwaiterPtr.function = "StateManipulate"
    /\ DebuggerState' = "COROUTINE"
    /\ req' = [NoRequest EXCEPT !.api = "manipulate"]
    /\ pc' = "kernel"
    /\ UNCHANGED <<AwaiterPtr, AwaiterStack, m, running, live, answered, fresh>>

\* KD_RECV_CODE_TIMEOUT: the kernel calls KdReceivePacket again.
ProcessRecvTimeout ==
    /\ pc = "process" /\ AwaiterPtr.function = "RecvTimeout"
    /\ DebuggerState' = "COROUTINE"
    /\ pc' = "loop"
    /\ answered' = TRUE
    /\ UNCHANGED <<AwaiterPtr, AwaiterStack, m, req, running, live, fresh>>

ProcessRead ==
    /\ pc = "process"
    /\ AwaiterPtr.function \in {"ReadMemory", "DiscoverPosInModules"}
    /\ m' = MemReadStart(AwaiterPtr.function = "DiscoverPosInModules")
    /\ DebuggerState' = "MEMREADCOR"
    /\ pc' = "loop"
    /\ UNCHANGED <<AwaiterPtr, AwaiterStack, req, running, live, answered,
                   fresh>>

JoinState_Resume == "COROUTINE"

\* The state that a Join leaves: the child's awaiter, if any, is still to be
\* processed, so it must not be resumed by the next round of the loop.
JoinState == "PROCESS_AWAITER"

\* Start the child.  DebuggerState is set when the child's body is back, which
\* does not look at it.
ProcessJoin ==
    /\ pc = "process" /\ AwaiterPtr.function = "Join"
    /\ AwaiterStack' = Append(AwaiterStack, AwaiterPtr)
    /\ AwaiterPtr' = NULL
    /\ running' = live + 1
    /\ live' = live + 1
    /\ DebuggerState' = JoinState
    /\ pc' = "child"
    /\ UNCHANGED <<m, req, answered, fresh>>

-----------------------------------------------------------------------------
(* The handler of DEBST_MEMREADCOR: one read in chunks of ChunkSize bytes.  *)

BytesLeft == m.BytesToRead - m.BufferPos

InMemRead == pc = "loop" /\ DebuggerState = "MEMREADCOR"

\* Ask the kernel for the chunk at BufferPos.
IssueRead(mr) ==
    /\ m' = mr
    /\ req' = [api |-> "read", addr |-> mr.Pointer + mr.BufferPos,
               len |-> Least(ChunkSize, mr.BytesToRead - mr.BufferPos)]
    /\ pc' = "kernel"

ReaderDone_AnySize(mr) == mr.ResumePoint <= 0

\* The read is over, or does not fit in the buffer.
ReaderDone(mr) == mr.ResumePoint <= 0 \/ mr.BytesToRead > BufferSize

\* The reader has run: end the read, or start on the bytes it asks for.
AfterReader(mr) ==
    IF ReaderDone(mr)
      THEN /\ m' = mr
           /\ DebuggerState' = "COROUTINE"      \* EndDebuggerState
           /\ answered' = TRUE
           /\ UNCHANGED <<pc, req, fresh>>
      ELSE /\ IssueRead([mr EXCEPT !.BufferPos = 0])
           /\ fresh' = {}
           /\ UNCHANGED <<DebuggerState, answered>>

LastChunk_CountOfChunk == m

\* m when the last chunk of a read has arrived: the count of the last chunk
\* stands for the whole read.
LastChunk ==
    IF BytesLeft # 0 /\ m.ActualBytesRead = BytesLeft
      THEN [m EXCEPT !.ActualBytesRead = m.BytesToRead]
      ELSE m

Advance_Stuck(mr) == mr

Advance(mr) == [mr EXCEPT !.BufferPos = @ + ChunkSize]

NextChunk ==
    /\ InMemRead /\ BytesLeft > ChunkSize
    /\ IssueRead(Advance(m))
    /\ UNCHANGED <<DebuggerState, AwaiterPtr, AwaiterStack, running, live,
                   answered, fresh>>

ReadSucceeded_Always(mr) == TRUE

ReadSucceeded(mr) == mr.ActualBytesRead = mr.BytesToRead

\* A BcAwaiter_ReadMemory: ResumePoint counts down from 2.
ReadMemoryStep ==
    /\ InMemRead /\ BytesLeft <= ChunkSize
    /\ ~m.pCoroutine /\ AwaiterPtr.function = "ReadMemory"
    /\ LET r == LastChunk.ResumePoint - 1 IN
         /\ AfterReader(
              IF r = 1 THEN [LastChunk EXCEPT !.ResumePoint = r,
                                              !.Pointer = AwaiterPtr.pointer,
                                              !.BytesToRead = AwaiterPtr.size]
                       ELSE [LastChunk EXCEPT !.ResumePoint = r])
         /\ AwaiterPtr' =
              IF r <= 0 /\ ReadSucceeded(LastChunk)
                THEN [AwaiterPtr EXCEPT !.retVal = TRUE]
                ELSE AwaiterPtr
    /\ UNCHANGED <<AwaiterStack, running, live>>

\* The hand-made coroutine Platform::DiscoverBytePointerPosInModules: it asks
\* for another read (ReadMemory) or ends (ReadMemory_End).
DiscoverStep ==
    /\ InMemRead /\ BytesLeft <= ChunkSize
    /\ m.pCoroutine
    /\ \/ \E p \in Pointers, s \in Sizes :
            AfterReader([LastChunk EXCEPT !.ResumePoint = 1, !.Pointer = p,
                                          !.BytesToRead = s,
                                          !.ActualBytesRead = 0])
       \/ AfterReader([LastChunk EXCEPT !.ResumePoint = -1, !.Pointer = 0,
                                        !.BytesToRead = 0,
                                        !.ActualBytesRead = 0])
    /\ UNCHANGED <<AwaiterPtr, AwaiterStack, running, live>>

-----------------------------------------------------------------------------
(* The kernel executes the request and answers with KdSendPacket.           *)

SendManipulateResponse ==
    /\ pc = "kernel" /\ req.api = "manipulate"
    /\ IF DebuggerState = "COROUTINE" /\ AwaiterPtr.function = "StateManipulate"
         THEN /\ \E ok \in BOOLEAN :           \* what processResponse returns
                   AwaiterPtr' = [AwaiterPtr EXCEPT !.retVal = ok]
              /\ answered' = TRUE
         ELSE UNCHANGED <<AwaiterPtr, answered>>
    /\ req' = NoRequest
    /\ pc' = "loop"
    /\ UNCHANGED <<DebuggerState, AwaiterStack, m, running, live, fresh>>

\* External: the kernel reads all bytes of the request or none of them.
KernelCanRead == /\ req.len > 0
                 /\ \A a \in req.addr .. (req.addr + req.len - 1) :
                        a \in Readable

SendReadResponse ==
    /\ pc = "kernel" /\ req.api = "read" /\ DebuggerState = "MEMREADCOR"
    /\ IF KernelCanRead
         THEN /\ fresh' = fresh \cup m.BufferPos .. (m.BufferPos + req.len - 1)
              /\ m' = [m EXCEPT !.ActualBytesRead = req.len]
         ELSE /\ m' = [m EXCEPT !.ActualBytesRead = 0]
              /\ UNCHANGED fresh
    /\ req' = NoRequest
    /\ pc' = "loop"
    /\ UNCHANGED <<DebuggerState, AwaiterPtr, AwaiterStack, running, live,
                   answered>>

\* DEBST_CONTINUE: DbgKdContinueApi or DbgKdContinueApi2; the system runs.
Continue ==
    /\ pc = "loop" /\ DebuggerState = "CONTINUE"
    /\ pc' = "os"
    /\ UNCHANGED <<DebuggerState, AwaiterPtr, AwaiterStack, m, req, running,
                   live, answered, fresh>>

-----------------------------------------------------------------------------

KdReceivePacket ==
    \/ StartSession \/ Resume \/ SkipToProcess
    \/ ProcessFinished \/ ProcessStateManipulate \/ ProcessRecvTimeout
    \/ ProcessRead \/ ProcessJoin
    \/ NextChunk \/ ReadMemoryStep \/ DiscoverStep
    \/ Continue

KdSendPacket == SendStateChange \/ SendManipulateResponse \/ SendReadResponse

Body == Await \/ Finish

Next == KdReceivePacket \/ KdSendPacket \/ Body

Spec == Init /\ [][Next]_vars

\* The loop never blocks and the kernel answers every request it is given;
\* a state change, and what a coroutine body does, are not promised.
Fairness == /\ WF_vars(KdReceivePacket)
            /\ WF_vars(SendManipulateResponse)
            /\ WF_vars(SendReadResponse)

FairSpec == Spec /\ Fairness
-----------------------------------------------------------------------------
(* Properties.                                                              *)

AwaiterSet ==
    [function : IoKinds \cup {"Join", "NULL"}, owner : 0..MaxDepth,
     pointer : Nat, size : Nat, retVal : BOOLEAN]

MemReadSet ==
    [ResumePoint : -1..2, Pointer : Nat, BytesToRead : Nat,
     ActualBytesRead : Nat, BufferPos : Nat, pCoroutine : BOOLEAN]

\* The variables keep the types that Root.h and MemReadCor.h give them.
TypeOK ==
    /\ pc \in {"os", "loop", "body", "child", "process", "kernel", "fatal"}
    /\ DebuggerState \in DEBUGGER_STATE
    /\ AwaiterPtr \in AwaiterSet
    /\ AwaiterStack \in Seq(AwaiterSet)
    /\ m \in MemReadSet
    /\ req \in [api : {"none", "manipulate", "read"}, addr : Nat, len : Nat]
    /\ running \in 0..MaxDepth
    /\ live \in 0..MaxDepth
    /\ answered \in BOOLEAN
    /\ fresh \subseteq 0..(BufferSize - 1)

\* FatalError("UNEXPECTED_STATE_CHANGE") is never reached and Resume never
\* gets a NULL awaiter, however sessions and coroutines nest.
NoFatal == pc # "fatal"

\* AwaiterStack holds exactly the Join awaiters of the coroutines that wait
\* for a child, outermost first, and the awaiter in AwaiterPtr (the one that
\* is resumed next, and that KdSendPacket delivers an answer to) belongs to
\* the innermost coroutine alive.
StackIsCallChain ==
    /\ \A i \in 1..Len(AwaiterStack) :
          AwaiterStack[i].function = "Join" /\ AwaiterStack[i].owner = i
    /\ AwaiterPtr # NULL =>
          /\ AwaiterPtr.owner = Len(AwaiterStack) + 1
          /\ AwaiterPtr.owner = live
    /\ InBody => running = live /\ running = Len(AwaiterStack) + 1
    /\ pc = "os" => live = 0 /\ AwaiterStack = << >>

\* Every chunk that KdSendPacket copies lies inside MemReadCor.Buffer.
BufferInBounds ==
    pc = "kernel" /\ req.api = "read" => m.BufferPos + req.len <= BufferSize

\* A coroutine that is told where its bytes are finds all of them there, when
\* it asked for at most one chunk.
OneChunkReadIsFresh ==
    /\ AwaiterPtr.function = "ReadMemory" /\ AwaiterPtr.retVal
    /\ AwaiterPtr.size <= ChunkSize
    => 0..(AwaiterPtr.size - 1) \subseteq fresh

\* As above for every size: ReadMem of the script interface throws "Unable to
\* read memory." when the bytes could not be read.
ReadIsFresh ==
    AwaiterPtr.function = "ReadMemory" /\ AwaiterPtr.retVal
    => 0..(AwaiterPtr.size - 1) \subseteq fresh

ReadableRange(p, n) == \A a \in p .. (p + n - 1) : a \in Readable

\* A read of readable bytes that fit in the buffer is never reported as
\* failed: the chunks of a long read are put together without a gap.
ReadableReadSucceeds ==
    /\ AwaiterPtr.function = "ReadMemory" /\ answered
    /\ AwaiterPtr.size <= BufferSize
    /\ ReadableRange(AwaiterPtr.pointer, AwaiterPtr.size)
    => AwaiterPtr.retVal

\* What the chain of calls sees of the engine.
ChainState ==
    IF live = 0 THEN "idle"
    ELSE IF AwaiterPtr.function \in IoKinds
      THEN IF answered THEN "answered" ELSE "asked"
      ELSE "exec"

Chain == INSTANCE CallChain WITH depth <- live, st <- ChainState

\* The engine implements the chain of calls: nobody but the innermost
\* coroutine executes, it is resumed only after its answer has arrived, and a
\* finished coroutine hands over to the one that joined it.
ImplementsCallChain == Chain!ChainSpec

\* A read that a coroutine awaits ends and the coroutine runs again, whatever
\* its size and whatever the kernel can read.
ReadTerminates ==
    DebuggerState = "MEMREADCOR" /\ ~m.pCoroutine ~> InBody

\* What ReadMemory returns can be relied on in both directions: after a read of at most
\* one chunk that succeeded every byte is from the memory of now, and a read of readable
\* memory that fits in the buffer never fails, in however many chunks KD answers.
ReadsAnswered == OneChunkReadIsFresh /\ ReadableReadSucceeds
=============================================================================
