------------------------------ MODULE LifeCycle ------------------------------
(***************************************************************************)
(* The life of the driver (BugChecker/DriverEntry.cpp), the two pointers   *)
(* through which KDCOM.DLL calls it (KDCOM/Main.cpp), and the screen that  *)
(* it borrows from the system (SaveOrRestoreFrameBuffer in Wnd.cpp).       *)
(*                                                                         *)
(* DriverEntry and DrvUnload run step by step while the system does.  KD   *)
(* can stop them between any two steps to report a state change (a session *)
(* of BugChecker, if hooked), and calls KdReceivePacket from the clock     *)
(* interrupt of some processor to poll; a poll does not stop them.         *)
(***************************************************************************)
EXTENDS Naturals

CONSTANTS Hooks,        \* what the config file may say of kdcom\hook
          Fifos,        \* whether it gives the FIFO of a virtual machine
          Resolutions,  \* sizes of the screen, ...
          WndSizes,        \* ... sizes of BugChecker's window that LINES may ask for
          SmallSize,    \* ... and the size of 80 x 25 characters
          RestoreSize    \* the largest window that VideoRestoreBuffer has room for

Functions == {"send", "receive"}

Nothing == [size |-> 0, of |-> "os"]

ASSUME LifeCycleAssumption ==
    /\ Hooks \subseteq {"Callback", "Patch", "None"}
    /\ Fifos \subseteq BOOLEAN
    /\ Resolutions \subseteq Nat \ {0} /\ WndSizes \subseteq Nat \ {0}
    /\ SmallSize \in Nat \ {0} /\ RestoreSize \in Nat

VARIABLES
    drv,            \* the next step of DriverEntry or DrvUnload
    conf,           \* what Root has read from the config file
    held,           \* what the driver has made, mapped or registered
    VmFifo,         \* Root::VmFifo is not NULL
    hook,           \* per function of KDCOM: "off", "on", or "torn" (half a JMP)
    m_pAddress,     \* the functions that a FunctionPatch object has patched
    resultCode,     \* BcInitResult.resultCode
    kd,             \* "run", or how far KD's session is
    poll,           \* "out", or "in" the driver's KdReceivePacket
    DbgState, StateChange,   \* the latter: "old" or the session's "own"
    unread,         \* history: a state change went to the driver, and the request
                    \* for what to do to KDCOM
    NotPresent, DebuggerPresentSet, sendCalls,
    screen,         \* the middle of the screen: drawn by the system ("os"), by
                    \* BugChecker ("bc"), or "old" pixels of another resolution
    fb,             \* the resolution: of the screen, as Root knows it, and as it
                    \* was when the frame buffer was mapped
    wnd,            \* WndWidth x WndHeight
    saved,          \* VideoRestoreBuffer; of size 0 if its State is FALSE
    Timer,          \* VideoRestoreBufferTimer: "off", "running" or "due"
    switched        \* the resolution has changed since the area was saved

driver == <<drv, conf, held, VmFifo, m_pAddress, resultCode>>
state  == <<DbgState, StateChange, unread>>
present == <<NotPresent, DebuggerPresentSet, sendCalls>>
video  == <<screen, fb, wnd, saved, Timer, switched>>
lifeVars   == <<driver, hook, kd, poll, state, present, video>>

LifeInit ==
    /\ drv = "device" /\ held = {} /\ VmFifo = FALSE /\ m_pAddress = {}
    /\ conf \in [kdcomHook : Hooks, fifo : Fifos]
    /\ hook = [f \in Functions |-> "off"]
    /\ resultCode = "none"
    /\ kd = "run" /\ poll = "out"
    /\ DbgState = "unknown" /\ StateChange = "old" /\ unread = FALSE
    /\ NotPresent = FALSE /\ DebuggerPresentSet = FALSE /\ sendCalls = 0
    /\ screen = "os" /\ wnd = SmallSize /\ saved = Nothing /\ Timer = "off"
    /\ fb \in [is : Resolutions, known : {0}, map : {0}]
    /\ switched = FALSE

-----------------------------------------------------------------------------
(* DriverEntry.  Its thread is frozen during a session.                     *)

Step(from, to) ==
    /\ kd = "run" /\ drv = from
    /\ drv' = to

\* ReportInitError, after which DriverEntry returns.
Fails(code) == resultCode' = code

CreateDevice ==
    /\ \/ /\ Step("device", "link")
          /\ held' = {"device"}
          /\ UNCHANGED resultCode
       \/ /\ Step("device", "refused")
          /\ Fails("IoCreateDevice")
          /\ UNCHANGED held
    /\ UNCHANGED <<conf, VmFifo, m_pAddress, hook, kd, poll, state, present, video>>

CreateLink_KeepsDevice ==
    /\ \/ /\ Step("link", "root")
          /\ held' = held \cup {"link", "arena"}
          /\ UNCHANGED resultCode
       \/ /\ Step("link", "refused")
          /\ Fails("IoCreateSymbolicLink")
          /\ UNCHANGED held
    /\ UNCHANGED <<conf, VmFifo, m_pAddress, hook, kd, poll, state, present, video>>

\* IoCreateSymbolicLink, and Allocator::Init if it succeeds.
CreateLink ==
    /\ \/ /\ Step("link", "root")
          /\ held' = held \cup {"link", "arena"}
          /\ UNCHANGED resultCode
       \/ /\ Step("link", "refused")
          /\ held' = held \ {"device"}
          /\ Fails("IoCreateSymbolicLink")
    /\ UNCHANGED <<conf, VmFifo, m_pAddress, hook, kd, poll, state, present, video>>

\* TryGetKernelDebugInfoWithoutSymbols, then new Root.
CreateRoot ==
    /\ \/ /\ Step("root", "video")
          /\ held' = held \cup {"root"}
          /\ UNCHANGED resultCode
       \/ /\ Step("root", "loaded")
          /\ Fails("TryGetKernelDebugInfoWithoutSymbols")
          /\ UNCHANGED held
    /\ UNCHANGED <<conf, VmFifo, m_pAddress, hook, kd, poll, state, present, video>>

\* MmMapIoSpace of the frame buffer; the config file gave its dimensions.
MapVideo ==
    /\ \/ /\ Step("video", "fifo")
          /\ held' = held \cup {"video"}
          /\ fb' = [fb EXCEPT !.known = fb.is, !.map = fb.is]
          /\ UNCHANGED resultCode
       \/ /\ Step("video", "loaded")
          /\ \/ Fails("MmMapIoSpace") \/ Fails("FramebufferInfoNotProvided")
          /\ UNCHANGED <<held, fb>>
    /\ UNCHANGED <<conf, VmFifo, m_pAddress, hook, kd, poll, state, present,
                   screen, wnd, saved, Timer, switched>>

\* The FIFO of the virtual machine; a failure is not reported.
MapFifo ==
    /\ Step("fifo", "offsets")
    /\ \/ /\ conf.fifo
          /\ held' = held \cup {"fifo"}
          /\ VmFifo' = TRUE
       \/ UNCHANGED <<held, VmFifo>>
    /\ UNCHANGED <<conf, m_pAddress, resultCode, hook, kd, poll, state, present,
                   video>>

\* CalculateKernelOffsets, then the notify routines: each may be refused.
Register ==
    /\ \/ /\ Step("offsets", "hook")
          /\ \E routines \in SUBSET {"process_notify", "image_notify"} :
                held' = held \cup routines
          /\ UNCHANGED resultCode
       \/ /\ Step("offsets", "loaded")
          /\ Fails("CalculateKernelOffsets")
          /\ UNCHANGED held
    /\ UNCHANGED <<conf, VmFifo, m_pAddress, hook, kd, poll, state, present, video>>

\* Looks for the functions of KDCOM.
Hook ==
    /\ \/ /\ conf.kdcomHook # "None"
          /\ Step("hook", "hook_send")
          /\ held' = IF conf.kdcomHook = "Patch" THEN held \cup {"patches"} ELSE held
          /\ UNCHANGED resultCode
       \/ /\ Step("hook", "loaded")
          /\ \/ conf.kdcomHook = "None" /\ Fails("KdcomHookInfoNotProvided")
             \/ conf.kdcomHook # "None" /\ Fails("GetProcAddress")
          /\ UNCHANGED held
    /\ UNCHANGED <<conf, VmFifo, m_pAddress, hook, kd, poll, state, present, video>>

\* A FunctionPatch is too far from its function.
TooFar_Silent == UNCHANGED resultCode

TooFar == Fails("Patch")

\* KdSetBugCheckerCallbacks stores a pointer; Patch writes the first byte of a
\* JMP and then its offset, unless the driver is too far.
HookFunction(f, here, next) ==
    /\ \/ /\ conf.kdcomHook = "Callback"
          /\ Step(here, next)
          /\ hook' = [hook EXCEPT ![f] = "on"]
          /\ UNCHANGED <<m_pAddress, resultCode>>
       \/ /\ conf.kdcomHook = "Patch" /\ hook[f] = "off"
          /\ Step(here, here)
          /\ hook' = [hook EXCEPT ![f] = "torn"]
          /\ UNCHANGED <<m_pAddress, resultCode>>
       \/ /\ conf.kdcomHook = "Patch" /\ hook[f] = "torn"
          /\ Step(here, next)
          /\ hook' = [hook EXCEPT ![f] = "on"]
          /\ m_pAddress' = m_pAddress \cup {f}
          /\ UNCHANGED resultCode
       \/ /\ conf.kdcomHook = "Patch" /\ hook[f] = "off"
          /\ Step(here, next)
          /\ TooFar
          /\ UNCHANGED <<hook, m_pAddress>>
    /\ UNCHANGED <<conf, held, VmFifo, kd, poll, state, present, video>>

DriverEntry ==
    \/ CreateDevice \/ CreateLink \/ CreateRoot \/ MapVideo \/ MapFifo \/ Register
    \/ Hook \/ HookFunction("send", "hook_send", "hook_receive")
    \/ HookFunction("receive", "hook_receive", "loaded")

-----------------------------------------------------------------------------
(* DrvUnload.  The INT3 that deletes the breakpoints is in BreakPoints.     *)

Frees(what) == held' = held \ what

BeginUnload ==
    /\ Step("loaded", IF "root" \in held THEN "unregister" ELSE "delete_device")
    /\ UNCHANGED <<conf, held, VmFifo, m_pAddress, resultCode, hook, kd, poll,
                   state, present, video>>

Unregister_UnmapsVideo ==
    /\ Step("unregister", "unmap_fifo")
    /\ Frees({"process_notify", "image_notify", "video"})
    /\ UNCHANGED <<conf, VmFifo, m_pAddress, resultCode, hook, kd, poll, state,
                   present, video>>

Unregister ==
    /\ Step("unregister", "unmap_fifo")
    /\ Frees({"process_notify", "image_notify"})
    /\ UNCHANGED <<conf, VmFifo, m_pAddress, resultCode, hook, kd, poll, state,
                   present, video>>

\* MmUnmapIoSpace, and then the assignment of NULL.
UnmapFifo ==
    /\ \/ /\ VmFifo /\ "fifo" \in held
          /\ Step("unmap_fifo", "unmap_fifo")
          /\ Frees({"fifo"})
          /\ UNCHANGED VmFifo
       \/ /\ "fifo" \notin held
          /\ Step("unmap_fifo", "unhook_send")
          /\ VmFifo' = FALSE
          /\ UNCHANGED held
    /\ UNCHANGED <<conf, m_pAddress, resultCode, hook, kd, poll, state, present,
                   video>>

\* A pointer of KDCOM becomes NULL, or a FunctionPatch is deleted, which copies
\* the bytes back.
UnhookFunction(f, here, next) ==
    /\ \/ /\ f \in m_pAddress /\ hook[f] = "on"
          /\ Step(here, here)
          /\ hook' = [hook EXCEPT ![f] = "torn"]
          /\ UNCHANGED <<held, m_pAddress>>
       \/ /\ f \notin m_pAddress \/ hook[f] = "torn"
          /\ Step(here, next)
          /\ hook' = [hook EXCEPT ![f] = "off"]
          /\ m_pAddress' = m_pAddress \ {f}
          /\ IF f = "receive" THEN Frees({"patches"}) ELSE UNCHANGED held
    /\ UNCHANGED <<conf, VmFifo, resultCode, kd, poll, state, present, video>>

\* One of the last four steps.
Release(here, next, what) ==
    /\ Step(here, next)
    /\ Frees(what)
    /\ UNCHANGED <<conf, VmFifo, m_pAddress, resultCode, hook, kd, poll, state,
                   present, video>>

DrvUnload ==
    \/ BeginUnload \/ Unregister \/ UnmapFifo
    \/ UnhookFunction("send", "unhook_send", "unhook_receive")
    \/ UnhookFunction("receive", "unhook_receive", "delete_device")
    \/ Release("delete_device", "unmap_video", {"link", "device"})
    \/ Release("unmap_video", "delete_root", {"video"})
    \/ Release("delete_root", "uninit", {"root"})
    \/ Release("uninit", "gone", {"arena"})

-----------------------------------------------------------------------------
(* The screen.                                                              *)

Fits_Always(size, res) == TRUE

\* CheckWndWidthHeight.
Fits(size, res) == res <= fb.map /\ size <= RestoreSize /\ size <= res

\* SaveOrRestoreFrameBuffer(FALSE) has a reason to save: nothing is saved yet.
MustSave_Always(buf) == TRUE

MustSave(buf) == buf.size = 0

\* DrawAll_Start and DrawAll_Final with the window at size w: a new resolution
\* is noticed through the FIFO, the area is saved, and BugChecker draws over it.
DrawAll(w, scr, buf) ==
    LET new == VmFifo /\ fb.is # fb.known
        res == IF new THEN fb.is ELSE fb.known
        sz  == IF new /\ ~Fits(w, res) THEN SmallSize ELSE w
        vis == Fits(sz, res)
        save == vis /\ MustSave(buf)
    IN  /\ fb' = [fb EXCEPT !.known = res]
        /\ wnd' = sz
        /\ Timer' = IF vis THEN "off" ELSE Timer
        /\ saved' = IF save THEN [size |-> sz, of |-> scr] ELSE buf
        /\ screen' = IF vis THEN "bc" ELSE scr
        /\ switched' = (switched /\ ~save)

CanRestore == Fits(wnd, fb.known) /\ saved.size # 0

\* SaveOrRestoreFrameBuffer(TRUE): what it leaves on the screen and as saved.
RestoredScreen ==
    CASE ~CanRestore -> screen
      [] CanRestore /\ switched -> "old"
      [] OTHER -> saved.of

RestoredBuffer == IF CanRestore THEN Nothing ELSE saved

\* The system changes the resolution and draws everything anew.
SetResolution(r) ==
    /\ kd = "run" /\ r # fb.is
    /\ fb' = [fb EXCEPT !.is = r]
    /\ screen' = "os"
    /\ switched' = (saved.size # 0)
    /\ UNCHANGED <<driver, hook, kd, poll, state, present, wnd, saved, Timer>>

\* VideoRestoreBufferTimeOut passes.
Tick ==
    /\ kd = "run" /\ Timer = "running"
    /\ Timer' = "due"
    /\ UNCHANGED <<driver, hook, kd, poll, state, present, screen, fb, wnd, saved,
                   switched>>
-----------------------------------------------------------------------------
(* Packets.  KD lets one processor at a time call KDCOM.                    *)

Usable == {"root", "video"} \subseteq held

SetPresent_FlagOnly ==
    /\ DebuggerPresentSet' = TRUE
    /\ UNCHANGED <<NotPresent, sendCalls>>

\* KdReceivePacket of the driver, its beginning.
SetPresent ==
    IF DebuggerPresentSet
      THEN UNCHANGED present
      ELSE /\ NotPresent' = FALSE
           /\ DebuggerPresentSet' = TRUE
           /\ UNCHANGED sendCalls

\* What KDCOM's own functions do to the same flag.
SetPresentByKdcom ==
    /\ NotPresent' = FALSE
    /\ UNCHANGED <<DebuggerPresentSet, sendCalls>>

\* KdSendPacket of the driver, its end; sendCalls counts to 2 here.
CountSend ==
    /\ sendCalls' = IF sendCalls = 2 THEN 2 ELSE sendCalls + 1
    /\ NotPresent' = (NotPresent \/ (sendCalls = 0 /\ ~DebuggerPresentSet))
    /\ UNCHANGED DebuggerPresentSet

\* A processor jumps to half an address, or to memory that is gone.
Lost == kd' = "lost" /\ UNCHANGED <<state, present, video>>

\* KD has frozen the other processors, and reports its state change.
ReportStateChange ==
    /\ kd = "run" /\ poll = "out"
    /\ CASE hook["send"] = "on" ->
              /\ CountSend
              /\ DbgState' = "changed" /\ StateChange' = "own"
              /\ kd' = "receive"
              /\ UNCHANGED <<unread, video>>
         [] hook["send"] = "off" ->
              /\ SetPresentByKdcom
              /\ kd' = "receive" /\ StateChange' = "old"
              /\ UNCHANGED <<DbgState, unread, video>>
         [] OTHER -> Lost
    /\ UNCHANGED <<driver, hook, poll>>

\* DbgPrint sends a packet and receives none.
SendDbgPrint ==
    /\ kd = "run" /\ poll = "out"
    /\ \/ hook["send"] = "on" /\ CountSend /\ UNCHANGED <<kd, state, video>>
       \/ hook["send"] = "off" /\ SetPresentByKdcom /\ UNCHANGED <<kd, state, video>>
       \/ hook["send"] = "torn" /\ Lost
    /\ UNCHANGED <<driver, hook, poll>>

SendContinue_NoTimer ==
    /\ kd' = "run"
    /\ UNCHANGED video

\* DEBST_CONTINUE and the default of the driver's loop.
SendContinue ==
    /\ kd' = "run"
    /\ Timer' = "running"
    /\ UNCHANGED <<screen, fb, wnd, saved, switched>>

\* KD asks for requests: KDCOM answers, or the driver, which runs
\* Main::EntryPoint after a state change.
Receive ==
    /\ kd = "receive"
    /\ CASE hook["receive"] = "off" ->
              /\ SetPresentByKdcom
              /\ kd' = "run"
              /\ unread' = (unread \/ StateChange = "own")
              /\ UNCHANGED <<DbgState, StateChange, video>>
         [] hook["receive"] = "torn" -> Lost
         [] hook["receive"] = "on" /\ DbgState # "changed" ->
              /\ SetPresent
              /\ SendContinue
              /\ UNCHANGED state
         [] OTHER ->
              /\ SetPresent
              /\ kd' = "entry" /\ DbgState' = "coroutine"
              /\ UNCHANGED <<StateChange, unread, video>>
    /\ UNCHANGED <<driver, hook, poll>>

NoBreakIn_KeepsState ==
    /\ kd = "entry"
    /\ DbgState' = "changed"
    /\ SendContinue
    /\ UNCHANGED <<driver, hook, poll, StateChange, unread, present>>

\* EntryPoint decides not to break in, or draws the interface.
NoBreakIn ==
    /\ kd = "entry"
    /\ DbgState' = "continue"
    /\ SendContinue
    /\ UNCHANGED <<driver, hook, poll, StateChange, unread, present>>

BreakIn ==
    /\ kd = "entry"
    /\ kd' = "ui"
    /\ DrawAll(wnd, screen, saved)
    /\ UNCHANGED <<driver, hook, poll, state, present>>

\* LINES and WIDTH: the largest size up to n that is possible.
Resize(n) ==
    /\ kd = "ui"
    /\ \E m \in 1 .. n :
        /\ Fits(m, fb.known) /\ \A k \in m + 1 .. n : ~Fits(k, fb.known)
        /\ DrawAll(m, RestoredScreen, RestoredBuffer)
    /\ UNCHANGED <<driver, hook, kd, poll, state, present>>

Leave ==
    /\ kd = "ui"
    /\ DbgState' = "continue"
    /\ SendContinue
    /\ UNCHANGED <<driver, hook, poll, StateChange, unread, present>>

\* The clock interrupt: KDCOM reads its pointer and calls the driver ...
Poll ==
    /\ kd = "run" /\ poll = "out"
    /\ CASE hook["receive"] = "off" -> SetPresentByKdcom /\ UNCHANGED <<kd, poll>>
         [] hook["receive"] = "on" -> poll' = "in" /\ UNCHANGED <<kd, present>>
         [] OTHER -> kd' = "lost" /\ UNCHANGED <<poll, present>>
    /\ UNCHANGED <<driver, hook, state, video>>

\* ... which gives the screen back when the time has come.
PollDriver ==
    /\ poll = "in" /\ kd = "run"
    /\ poll' = "out"
    /\ \/ /\ Usable
          /\ SetPresent
          /\ IF Timer = "due"
               THEN /\ screen' = RestoredScreen
                    /\ saved' = RestoredBuffer
                    /\ Timer' = "off"
                    /\ switched' = (switched /\ ~CanRestore)
               ELSE UNCHANGED <<screen, saved, Timer, switched>>
          /\ UNCHANGED <<kd, fb, wnd>>
       \/ /\ ~Usable
          /\ kd' = "lost"
          /\ UNCHANGED <<present, video>>
    /\ UNCHANGED <<driver, hook, state>>

-----------------------------------------------------------------------------

Session == ReportStateChange \/ Receive \/ NoBreakIn \/ BreakIn \/ Leave

LifeNext ==
    \/ DriverEntry \/ DrvUnload
    \/ Session \/ SendDbgPrint \/ Poll \/ PollDriver \/ Tick
    \/ \E n \in WndSizes : Resize(n)
    \/ \E r \in Resolutions : SetResolution(r)

LifeSpec == LifeInit /\ [][LifeNext]_lifeVars

-----------------------------------------------------------------------------
(* Properties.                                                              *)

Phases == {"device", "refused", "link", "root", "video", "fifo", "offsets", "hook",
           "hook_send", "hook_receive", "loaded", "unregister", "unmap_fifo",
           "unhook_send", "unhook_receive", "delete_device", "unmap_video",
           "delete_root", "uninit", "gone"}

Holdings == {"device", "link", "arena", "root", "video", "fifo", "process_notify",
             "image_notify", "patches"}

\* The variables have their types; what is saved fits in VideoRestoreBuffer.
LifeTypeOK ==
    /\ drv \in Phases
    /\ conf \in [kdcomHook : Hooks, fifo : Fifos]
    /\ held \subseteq Holdings /\ VmFifo \in BOOLEAN /\ m_pAddress \subseteq Functions
    /\ hook \in [Functions -> {"off", "torn", "on"}]
    /\ kd \in {"run", "receive", "entry", "ui", "lost"}
    /\ poll \in {"out", "in"}
    /\ DbgState \in {"unknown", "changed", "coroutine", "continue"}
    /\ StateChange \in {"old", "own"}
    /\ NotPresent \in BOOLEAN /\ DebuggerPresentSet \in BOOLEAN /\ sendCalls \in 0 .. 2
    /\ screen \in {"os", "bc", "old"}
    /\ fb \in [is : Resolutions, known : Resolutions \cup {0},
              map : Resolutions \cup {0}]
    /\ wnd \in Nat /\ saved \in [size : 0 .. RestoreSize, of : {"os", "bc", "old"}]
    /\ Timer \in {"off", "running", "due"} /\ switched \in BOOLEAN

\* Wherever DriverEntry or DrvUnload is stopped: as long as KDCOM can call the
\* driver, and while a session is in it, Root exists and the frame buffer is
\* mapped (KdReceivePacket and KdSendPacket use both without a test).
SessionFindsRoot ==
    (\E f \in Functions : hook[f] # "off") \/ kd \in {"entry", "ui"} => Usable

\* EntryPoint runs on the state change of its own session, also if the session
\* comes between the two assignments of KdSetBugCheckerCallbacks in DrvUnload, or
\* if only one function could be patched; unless another one came between the two
\* assignments in DriverEntry, and left DebuggerState behind.
OwnStateChange == kd \in {"entry", "ui"} /\ ~unread => StateChange = "own"

\* What Symbol Loader gets from IOCTL_BUGCHECKER_GET_INIT_RESULT after
\* DriverEntry is an error exactly if BugChecker is not connected to KDCOM.
InitResultTells ==
    drv = "loaded" =>
        (resultCode = "none" <=> \A f \in Functions : hook[f] = "on")

\* Whichever step of DriverEntry failed: nothing that was made, mapped, hooked
\* or registered is left when DrvUnload is done, or DriverEntry has failed.
NothingLeft ==
    drv \in {"gone", "refused"} =>
        /\ held = {} /\ ~VmFifo /\ m_pAddress = {}
        /\ \A f \in Functions : hook[f] = "off"

\* Unless the resolution has changed meanwhile, what BugChecker has drawn over
\* is saved: pixels of the system, never its own ones of an earlier session, and
\* of the area that a restore with the present size writes.
BackupIsTheirs ==
    screen = "bc" /\ ~switched => saved.size = wnd /\ saved.of # "bc"

\* A session that KDCOM hands to BugChecker finds Root, and its own state change.
LifeSessionSound == SessionFindsRoot /\ OwnStateChange

\* DriverEntry is done with everything or says so, and DrvUnload undoes what it did.
LifeAllOrNothing == InitResultTells /\ NothingLeft

\* The variables have their types, and the backup of the screen is the system's.
LifeBackupIsTheirs == LifeTypeOK /\ BackupIsTheirs

\* KD asks for requests after it has reported a state change, and calls KDCOM
\* from the clock interrupt again and again; a poll ends, and time passes.
LifeFairness ==
    WF_lifeVars(Receive) /\ WF_lifeVars(Poll) /\ WF_lifeVars(PollDriver) /\ WF_lifeVars(Tick)

LifeFairSpec == LifeSpec /\ LifeFairness

\* If no other session comes and the driver is not unloaded, the system gets
\* its screen back after a session.
LifeScreenGivenBack ==
    screen = "bc" /\ kd = "run" ~> screen # "bc" \/ kd # "run" \/ drv # "loaded"

\* KdSendPacket may tell the kernel that there is no debugger; it is told
\* otherwise some time.
LifePresentAgain == NotPresent ~> ~NotPresent \/ kd = "lost"
=============================================================================
