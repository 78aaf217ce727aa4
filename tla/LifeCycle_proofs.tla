-------------------------- MODULE LifeCycle_proofs --------------------------
(***************************************************************************)
(* Proofs about LifeCycle, for every configuration file, every set of      *)
(* resolutions and window sizes: the driver's state exists while KDCOM can *)
(* call it, DriverEntry reports exactly whether it is connected, DrvUnload *)
(* leaves nothing behind, and what is saved of the screen is the system's. *)
(***************************************************************************)
EXTENDS LifeCycle, TLAPS

\* Not connected to KDCOM, and no JMP to take back.
Unhooked == m_pAddress = {} /\ hook["send"] = "off" /\ hook["receive"] = "off"

\* What exists before Root does, and outlives it.
Basic == {"device", "link", "arena"}

Entering == {"device", "link", "root", "video", "fifo", "offsets", "hook"}

\* How far DriverEntry has come tells what it has made so far, ...
Made ==
    /\ drv \in Entering => resultCode = "none" /\ Unhooked
    /\ drv = "device" => held = {}
    /\ drv = "link" => held = {"device"}
    /\ drv = "root" => held \subseteq Basic
    /\ drv = "video" => held \subseteq Basic \cup {"root"} /\ "root" \in held
    /\ drv \in {"device", "link", "root", "video", "fifo"} => VmFifo = FALSE
    /\ drv \in {"fifo", "offsets", "hook", "hook_send", "hook_receive"} => Usable
    /\ drv = "hook_send" => /\ resultCode = "none" /\ hook["send"] # "on"
                            /\ hook["receive"] = "off"
    /\ drv = "hook_receive" => /\ resultCode = "none" <=> hook["send"] = "on"
                               /\ hook["receive"] # "on"
    /\ drv = "loaded" /\ "root" \notin held => held \subseteq Basic /\ VmFifo = FALSE /\ Unhooked

\* ... and how far DrvUnload has come, what is left.
Left ==
    /\ drv = "unmap_fifo" => held \cap {"process_notify", "image_notify"} = {}
    /\ drv \in {"unhook_send", "unhook_receive"} =>
           held \cap {"process_notify", "image_notify", "fifo"} = {} /\ VmFifo = FALSE
    /\ drv = "unhook_receive" => "send" \notin m_pAddress /\ hook["send"] = "off"
    /\ drv \in {"refused", "delete_device", "unmap_video", "delete_root", "uninit", "gone"} =>
           VmFifo = FALSE /\ Unhooked
    /\ drv = "delete_device" => held \subseteq Basic \cup {"root", "video"}
    /\ drv = "unmap_video" => held \subseteq {"arena", "root", "video"}
    /\ drv = "delete_root" => held \subseteq {"arena", "root"}
    /\ drv = "uninit" => held \subseteq {"arena"}
    /\ drv \in {"refused", "gone"} => held = {}

\* KDCOM calls the driver only while Root exists and the frame buffer is mapped.
HookedUsable == hook["send"] # "off" \/ hook["receive"] # "off" => Usable

ResultTells ==
    drv = "loaded" =>
        (resultCode = "none" <=> hook["send"] = "on" /\ hook["receive"] = "on")

DriverInv ==
    /\ held \subseteq Holdings /\ m_pAddress \subseteq Functions
    /\ hook \in [Functions -> {"off", "torn", "on"}]
    /\ Made /\ Left /\ HookedUsable /\ ResultTells

\* A session begins only after DriverEntry has connected KdReceivePacket.  A state
\* change that was reported to the driver and not yet asked for is the one of the
\* session that is running, unless an earlier request went to KDCOM.
SessionInv ==
    /\ unread \in BOOLEAN
    /\ kd \in {"entry", "ui"} => Usable /\ drv \notin Entering
    /\ DbgState = "changed" /\ kd = "run" => unread = TRUE
    /\ DbgState = "changed" /\ kd = "receive" => unread = TRUE \/ StateChange = "own"
    /\ kd \in {"entry", "ui"} => unread = TRUE \/ StateChange = "own"

\* What is saved covers what BugChecker has drawn, until the resolution changes.
SavedIsCurrent ==
    saved.size # 0 /\ switched = FALSE =>
        /\ screen = "bc" /\ saved.size = wnd
        /\ fb.known <= fb.map /\ wnd <= fb.known
        /\ VmFifo = TRUE => fb.is = fb.known

ScreenInv ==
    /\ wnd \in Nat \ {0} /\ screen \in {"os", "bc", "old"}
    /\ saved \in [size : 0 .. RestoreSize, of : {"os", "old"}]
    /\ fb \in [is : Resolutions, known : Resolutions \cup {0}, map : Resolutions \cup {0}]
    /\ Timer \in {"off", "running", "due"}
    /\ switched \in BOOLEAN /\ VmFifo \in BOOLEAN
    /\ saved.size = 0 => screen # "bc"
    /\ drv \in Entering => saved.size = 0
    /\ SavedIsCurrent


-----------------------------------------------------------------------------
(* The steps of DriverEntry and DrvUnload.                                  *)

\* Before DriverEntry nothing is made and nothing is hooked.
LEMMA DriverStarts == LifeInit => DriverInv
BY DEF LifeInit, DriverInv, Made, Left, HookedUsable,
   ResultTells, Unhooked, Entering, Functions, Holdings, Usable

\* The steps of DriverEntry, each of which may fail: the device, ...
LEMMA CreateDeviceKeeps ==
    DriverInv /\ CreateDevice => DriverInv'
BY Zenon DEF DriverInv, CreateDevice, Step, Fails, Made, Left, HookedUsable,
   ResultTells, Unhooked, Entering, Holdings, Usable, Basic, Functions

\* ... its symbolic link, ...
LEMMA CreateLinkKeeps ==
    DriverInv /\ CreateLink => DriverInv'
BY DEF DriverInv, CreateLink, Step, Fails, Made, Left, HookedUsable,
   ResultTells, Unhooked, Entering, Holdings, Usable, Basic, Functions

\* ... the arena and Root, ...
LEMMA CreateRootKeeps ==
    DriverInv /\ CreateRoot => DriverInv'
BY Zenon DEF DriverInv, CreateRoot, Step, Fails, Made, Left, HookedUsable,
   ResultTells, Unhooked, Entering, Holdings, Usable, Basic, Functions

\* ... the frame buffer, ...
LEMMA MapVideoKeeps ==
    DriverInv /\ MapVideo => DriverInv'
BY DEF DriverInv, MapVideo, Step, Fails, Made, Left, HookedUsable,
   ResultTells, Unhooked, Entering, Holdings, Usable, Basic, Functions

\* ... and the FIFO of VMware's display adapter, ...
LEMMA MapFifoKeeps ==
    DriverInv /\ MapFifo => DriverInv'
BY Zenon DEF DriverInv, MapFifo, Step, Fails, Made, Left, HookedUsable,
   ResultTells, Unhooked, Entering, Holdings, Usable, Basic, Functions

\* ... the notify routines, ...
LEMMA RegisterKeeps ==
    DriverInv /\ Register => DriverInv'
BY Zenon DEF DriverInv, Register, Step, Fails, Made, Left, HookedUsable,
   ResultTells, Unhooked, Entering, Holdings, Usable, Basic, Functions

\* ... the choice of KDCOM's functions, ...
LEMMA HookKeeps ==
    DriverInv /\ Hook => DriverInv'
BY Zenon DEF DriverInv, Hook, Step, Fails, Made, Left, HookedUsable,
   ResultTells, Unhooked, Entering, Holdings, Usable, Basic, Functions

\* ... and the two patches, of KdSendPacket ...
LEMMA HookSendKeeps ==
    DriverInv /\ HookFunction("send", "hook_send", "hook_receive") => DriverInv'
BY Zenon DEF DriverInv, HookFunction, TooFar, Step, Fails, Made, Left, HookedUsable,
   ResultTells, Unhooked, Entering, Holdings, Usable, Basic, Functions

\* ... and of KdReceivePacket.
LEMMA HookReceiveKeeps ==
    DriverInv /\ HookFunction("receive", "hook_receive", "loaded") => DriverInv'
BY ZenonT(30) DEF DriverInv, HookFunction, TooFar, Step, Fails, Made, Left, HookedUsable,
   ResultTells, Unhooked, Entering, Holdings, Usable, Basic, Functions

\* The steps of DrvUnload: it begins, ...
LEMMA BeginUnloadKeeps ==
    DriverInv /\ BeginUnload => DriverInv'
BY DEF DriverInv, BeginUnload, Step, Frees, Made, Left, HookedUsable,
   ResultTells, Unhooked, Entering, Holdings, Usable, Basic, Functions

\* ... takes the notify routines back, ...
LEMMA UnregisterKeeps ==
    DriverInv /\ Unregister => DriverInv'
BY DEF DriverInv, Unregister, Step, Frees, Made, Left, HookedUsable,
   ResultTells, Unhooked, Entering, Holdings, Usable, Basic, Functions

\* ... unmaps the FIFO and then forgets it, ...
LEMMA UnmapFifoKeeps ==
    DriverInv /\ UnmapFifo => DriverInv'
BY Zenon DEF DriverInv, UnmapFifo, Step, Frees, Made, Left, HookedUsable,
   ResultTells, Unhooked, Entering, Holdings, Usable, Basic, Functions

\* ... restores KdSendPacket ...
LEMMA UnhookSendKeeps ==
    DriverInv /\ UnhookFunction("send", "unhook_send", "unhook_receive") => DriverInv'
BY ZenonT(30) DEF DriverInv, UnhookFunction, Step, Frees, Made, Left, HookedUsable,
   ResultTells, Unhooked, Entering, Holdings, Usable, Basic, Functions

\* ... and KdReceivePacket, after which no function is BugChecker's, ...
LEMMA UnhookReceiveKeeps ==
    DriverInv /\ UnhookFunction("receive", "unhook_receive", "delete_device") => DriverInv'
<1> SUFFICES ASSUME DriverInv, UnhookFunction("receive", "unhook_receive", "delete_device")
             PROVE  DriverInv'
    OBVIOUS
<1>1. CASE /\ hook["receive"] = "on" /\ Step("unhook_receive", "unhook_receive")
           /\ hook' = [hook EXCEPT !["receive"] = "torn"]
           /\ UNCHANGED <<held, m_pAddress, VmFifo, resultCode>>
    BY <1>1, Zenon DEF DriverInv, Step, Made, Left, HookedUsable, ResultTells,
       Unhooked, Entering, Holdings, Usable, Basic, Functions
<1>2. CASE /\ Step("unhook_receive", "delete_device")
           /\ hook' = [hook EXCEPT !["receive"] = "off"]
           /\ m_pAddress' = m_pAddress \ {"receive"} /\ held' = held \ {"patches"}
           /\ UNCHANGED <<VmFifo, resultCode>>
  <2>1. /\ drv' = "delete_device" /\ VmFifo' = FALSE
        /\ hook' \in [Functions -> {"off", "torn", "on"}] /\ hook'["receive"] = "off"
        /\ hook'["send"] = "off" /\ m_pAddress' = {}
        /\ held' \subseteq Basic \cup {"root", "video"}
      BY <1>2, SMTT(30) DEF DriverInv, Left, Step, Functions, Holdings, Basic
  <2> QED
      BY <2>1, Zenon DEF DriverInv, Made, Left, HookedUsable, ResultTells,
         Unhooked, Entering, Holdings, Usable, Basic, Functions
<1> QED
    BY <1>1, <1>2 DEF UnhookFunction, Frees

\* ... deletes the device, ...
LEMMA DeleteDeviceKeeps ==
    DriverInv /\ Release("delete_device", "unmap_video", {"link", "device"}) => DriverInv'
BY DEF DriverInv, Release, Step, Frees, Made, Left, HookedUsable,
   ResultTells, Unhooked, Entering, Holdings, Usable, Basic, Functions

\* ... unmaps the frame buffer, ...
LEMMA UnmapVideoKeeps ==
    DriverInv /\ Release("unmap_video", "delete_root", {"video"}) => DriverInv'
BY DEF DriverInv, Release, Step, Frees, Made, Left, HookedUsable,
   ResultTells, Unhooked, Entering, Holdings, Usable, Basic, Functions

\* ... deletes Root ...
LEMMA DeleteRootKeeps ==
    DriverInv /\ Release("delete_root", "uninit", {"root"}) => DriverInv'
BY DEF DriverInv, Release, Step, Frees, Made, Left, HookedUsable,
   ResultTells, Unhooked, Entering, Holdings, Usable, Basic, Functions

\* ... and gives the arena back.
LEMMA UninitKeeps ==
    DriverInv /\ Release("uninit", "gone", {"arena"}) => DriverInv'
BY DEF DriverInv, Release, Step, Frees, Made, Left, HookedUsable,
   ResultTells, Unhooked, Entering, Holdings, Usable, Basic, Functions

\* Every step of the two routines keeps what is made, hooked and reported consistent.
LEMMA DriverSteps ==
    DriverInv /\ (DriverEntry \/ DrvUnload) => DriverInv'
BY CreateDeviceKeeps, CreateLinkKeeps, CreateRootKeeps, MapVideoKeeps, MapFifoKeeps,
   RegisterKeeps, HookKeeps, HookSendKeeps, HookReceiveKeeps, BeginUnloadKeeps,
   UnregisterKeeps, UnmapFifoKeeps, UnhookSendKeeps, UnhookReceiveKeeps,
   DeleteDeviceKeeps, UnmapVideoKeeps, DeleteRootKeeps, UninitKeeps DEF DriverEntry, DrvUnload

\* What the driver's thread leaves alone: everything of a session and, once the
\* frame buffer is mapped, of the screen.
Aside == <<kd, poll, state, present, screen, wnd, saved, Timer, switched>>

\* The two routines run outside of sessions, and touch of the screen only its mapping.
LEMMA DriverAside ==
    DriverEntry \/ DrvUnload =>
        /\ kd = "run" /\ Aside' = Aside
        /\ fb' = fb \/ (drv = "video" /\ fb' = [fb EXCEPT !.known = fb.is, !.map = fb.is])
        /\ VmFifo' = VmFifo \/ VmFifo' = FALSE \/ (drv = "fifo" /\ VmFifo' = TRUE)
        /\ drv' \in Entering => drv \in Entering
BY DEF DriverEntry, DrvUnload, CreateDevice, CreateLink, CreateRoot, MapVideo, MapFifo, Register,
   Hook, HookFunction, BeginUnload, Unregister, UnmapFifo, UnhookFunction, Release, Step, Aside,
   state, present, video, Entering

-----------------------------------------------------------------------------
(* Sessions and polls.                                                      *)

\* What neither hooks nor allocates leaves the invariant of the two routines alone.
LEMMA DriverStays ==
    ASSUME DriverInv, hook' = hook, driver' = driver
    PROVE  DriverInv'
BY DEF DriverInv, driver, Made, Left, HookedUsable, ResultTells, Unhooked, Usable

\* The steps of the two routines keep the invariant of a session.
LEMMA DriverKeepsSession ==
    SessionInv /\ (DriverEntry \/ DrvUnload) => SessionInv'
BY DriverAside DEF SessionInv, Aside, state

\* The steps that are not the driver's thread.
Others ==
    \/ Session \/ SendDbgPrint \/ Poll \/ PollDriver \/ Tick
    \/ \E n \in WndSizes : Resize(n)
    \/ \E r \in Resolutions : SetResolution(r)

\* The steps of KD, of the user interface and of the system hook and free nothing.
LEMMA OthersAside == Others => hook' = hook /\ driver' = driver
BY DEF Others, Session, ReportStateChange, Receive, NoBreakIn, BreakIn, Leave, SendDbgPrint, Poll,
   PollDriver, Tick, Resize, SetResolution

\* Every step of KD and of the user interface keeps the invariant of a session.
LEMMA SessionSteps == DriverInv /\ SessionInv /\ Others => SessionInv'
<1> SUFFICES ASSUME DriverInv, SessionInv, Others PROVE SessionInv'
    OBVIOUS
<1>d. hook' = hook /\ drv' = drv /\ held' = held /\ (Usable' <=> Usable)
    BY OthersAside DEF driver, Usable
<1>1. CASE ReportStateChange
  <2>1. CASE hook["send"] = "on"
      BY <1>1, <2>1, <1>d DEF ReportStateChange, SessionInv
  <2>2. CASE hook["send"] = "off"
      BY <1>1, <2>2, <1>d DEF ReportStateChange, SessionInv
  <2>3. CASE hook["send"] \notin {"on", "off"}
      BY <1>1, <2>3, <1>d DEF ReportStateChange, SessionInv, Lost, state
  <2> QED BY <2>1, <2>2, <2>3
<1>2. CASE Receive
  <2>1. CASE hook["receive"] = "off"
    <3>1. kd' = "run" /\ DbgState' = DbgState /\ StateChange' = StateChange
          /\ unread' = (unread \/ StateChange = "own")
        BY <1>2, <2>1 DEF Receive
    <3>2. unread' \in BOOLEAN /\ (unread = TRUE \/ StateChange = "own" => unread' = TRUE)
        BY <3>1, Zenon
    <3> QED BY <3>1, <3>2, <1>d, <1>2 DEF SessionInv, Receive
  <2>2. CASE hook["receive"] = "on" /\ DbgState # "changed"
      BY <1>2, <2>2, <1>d DEF Receive, SessionInv, SendContinue, state
  <2>3. CASE hook["receive"] = "on" /\ DbgState = "changed"
      BY <1>2, <2>3, <1>d DEF Receive, SessionInv, DriverInv, HookedUsable, Made, Unhooked
  <2>4. CASE hook["receive"] \notin {"on", "off"}
    <3>1. hook["receive"] = "torn"
        BY <2>4 DEF DriverInv, Functions
    <3> QED BY <1>2, <3>1, <1>d DEF Receive, SessionInv, Lost, state
  <2> QED BY <2>1, <2>2, <2>3, <2>4
<1>3. CASE NoBreakIn
    BY <1>3, <1>d DEF NoBreakIn, SessionInv, SendContinue
<1>4. CASE BreakIn
    BY <1>4, <1>d DEF BreakIn, SessionInv, state
<1>5. CASE Leave
    BY <1>5, <1>d DEF Leave, SessionInv, SendContinue
<1>6. CASE SendDbgPrint
    BY <1>6, <1>d DEF SendDbgPrint, SessionInv, Lost, state
<1>7. CASE Poll
    BY <1>7, <1>d DEF Poll, SessionInv, state
<1>8. CASE PollDriver
    BY <1>8, <1>d DEF PollDriver, SessionInv, state
<1>9. CASE Tick
    BY <1>9, <1>d DEF Tick, SessionInv, state
<1>10. ASSUME NEW n \in WndSizes, Resize(n) PROVE SessionInv'
    BY <1>10, <1>d DEF Resize, SessionInv, state
<1>11. ASSUME NEW r \in Resolutions, SetResolution(r) PROVE SessionInv'
    BY <1>11, <1>d DEF SetResolution, SessionInv, state
<1> QED
    BY <1>1, <1>2, <1>3, <1>4, <1>5, <1>6, <1>7, <1>8, <1>9, <1>10, <1>11 DEF Others, Session

-----------------------------------------------------------------------------
(* The screen.                                                              *)

\* The steps of the two routines keep what is saved of the screen.
LEMMA DriverKeepsScreen ==
    ASSUME ScreenInv, DriverEntry \/ DrvUnload
    PROVE  ScreenInv'
<1>1. /\ wnd' = wnd /\ screen' = screen /\ saved' = saved /\ Timer' = Timer
      /\ switched' = switched
      /\ fb' = fb \/ (drv = "video" /\ fb' = [fb EXCEPT !.known = fb.is, !.map = fb.is])
      /\ VmFifo' = VmFifo \/ VmFifo' = FALSE \/ (drv = "fifo" /\ VmFifo' = TRUE)
      /\ drv' \in Entering => drv \in Entering
    BY DriverAside DEF Aside
<1>2. fb' \in [is : Resolutions, known : Resolutions \cup {0}, map : Resolutions \cup {0}]
    BY <1>1, Zenon DEF ScreenInv
<1>3. VmFifo' \in BOOLEAN /\ switched' \in BOOLEAN
    BY <1>1, Zenon DEF ScreenInv
<1>4. CASE drv \in Entering
    BY <1>1, <1>2, <1>3, <1>4 DEF ScreenInv, SavedIsCurrent
<1>5. CASE drv \notin Entering
    BY <1>1, <1>2, <1>3, <1>5 DEF ScreenInv, SavedIsCurrent, Entering
<1> QED BY <1>4, <1>5

\* What DrawAll may start from: something of the system is saved or on the screen.
Drawable(w, scr, buf) ==
    /\ w \in Nat \ {0} /\ scr \in {"os", "bc", "old"}
    /\ buf \in [size : 0 .. RestoreSize, of : {"os", "old"}]
    /\ buf.size = 0 => scr # "bc"
    /\ buf.size # 0 /\ switched = FALSE =>
          /\ scr = "bc" /\ buf.size = w
          /\ fb.known <= fb.map /\ w <= fb.known
          /\ VmFifo = TRUE => fb.is = fb.known

\* Drawing the window keeps the system's pixels: it saves them if nothing is saved,
\* and what is saved otherwise covers the window, unless the resolution has changed.
LEMMA DrawKeepsScreen ==
    ASSUME ScreenInv, driver' = driver, drv \notin Entering,
           NEW w, NEW scr, NEW buf, Drawable(w, scr, buf), DrawAll(w, scr, buf)
    PROVE  ScreenInv'
<1> USE DEF Drawable
<1> DEFINE new == VmFifo = TRUE /\ fb.is # fb.known
           res == IF new THEN fb.is ELSE fb.known
           sz  == IF new /\ ~Fits(w, res) THEN SmallSize ELSE w
           vis == Fits(sz, res)
           save == vis /\ buf.size = 0
<1>1. /\ fb' = [fb EXCEPT !.known = res] /\ wnd' = sz
      /\ Timer' = IF vis THEN "off" ELSE Timer
      /\ saved' = IF save THEN [size |-> sz, of |-> scr] ELSE buf
      /\ screen' = IF vis THEN "bc" ELSE scr
      /\ switched' = (switched /\ ~save)
    BY Zenon DEF DrawAll, MustSave, ScreenInv
<1>2. res \in Resolutions \cup {0} /\ sz \in Nat \ {0}
    BY LifeCycleAssumption DEF ScreenInv
<1>3. vis => sz \in 1 .. RestoreSize /\ res <= fb.map /\ sz <= res
    BY <1>2, LifeCycleAssumption DEF Fits
<1>4. switched' \in BOOLEAN /\ (switched' = FALSE <=> switched = FALSE \/ save)
    BY <1>1, Zenon DEF ScreenInv
<1>5. VmFifo' = VmFifo /\ drv' = drv
    BY DEF driver
<1>6. wnd' \in Nat \ {0} /\ screen' \in {"os", "bc", "old"} /\ Timer' \in {"off", "running", "due"}
    BY <1>1, <1>2 DEF ScreenInv
<1>7. fb' \in [is : Resolutions, known : Resolutions \cup {0}, map : Resolutions \cup {0}]
      /\ fb'.known = res /\ fb'.is = fb.is /\ fb'.map = fb.map
    BY <1>1, <1>2 DEF ScreenInv
<1>8. saved' \in [size : 0 .. RestoreSize, of : {"os", "old"}]
    BY <1>1, <1>2, <1>3
<1>9. saved'.size = 0 => screen' # "bc"
    BY <1>1, <1>2
<1>10. SavedIsCurrent'
  <2> SUFFICES ASSUME saved'.size # 0, switched' = FALSE
               PROVE  /\ screen' = "bc" /\ saved'.size = wnd'
                      /\ fb'.known <= fb'.map /\ wnd' <= fb'.known
                      /\ VmFifo' = TRUE => fb'.is = fb'.known
      BY Zenon DEF SavedIsCurrent
  <2>1. CASE save
      BY <1>1, <1>2, <1>3, <1>5, <1>7, <2>1
  <2>2. CASE ~save
    <3>1. saved' = buf /\ buf.size # 0 /\ switched = FALSE
        BY <1>1, <1>4, <2>2
    <3>2. ~new
        BY <3>1
    <3>3. res = fb.known /\ sz = w
        BY <3>2
    <3> QED BY <3>1, <3>3, <1>1, <1>5, <1>7
  <2> QED BY <2>1, <2>2, Zenon
<1> QED BY <1>4, <1>5, <1>6, <1>7, <1>8, <1>9, <1>10 DEF ScreenInv

\* A restore leaves nothing saved, and pixels of the system on the screen.
LEMMA RestoreKeeps ==
    ASSUME ScreenInv
    PROVE  /\ RestoredScreen \in {"os", "bc", "old"}
           /\ RestoredBuffer \in [size : 0 .. RestoreSize, of : {"os", "old"}]
           /\ RestoredBuffer.size = 0 => RestoredScreen # "bc"
           /\ CanRestore => RestoredBuffer = Nothing
           /\ ~CanRestore => RestoredBuffer = saved /\ RestoredScreen = screen
<1>1. Nothing \in [size : 0 .. RestoreSize, of : {"os", "old"}] /\ Nothing.size = 0
    BY LifeCycleAssumption DEF Nothing
<1>2. CASE CanRestore
    BY <1>1, <1>2 DEF RestoredScreen, RestoredBuffer, ScreenInv
<1>3. CASE ~CanRestore
    BY <1>3 DEF RestoredScreen, RestoredBuffer, ScreenInv
<1> QED BY <1>2, <1>3

\* A step that draws and saves nothing keeps what is saved of the screen.
LEMMA ScreenStays ==
    ASSUME ScreenInv, driver' = driver, UNCHANGED <<screen, fb, wnd, saved, switched>>,
           Timer' \in {"off", "running", "due"}
    PROVE  ScreenInv'
BY Zenon DEF ScreenInv, SavedIsCurrent, driver

\* Every other step keeps it too.
LEMMA ScreenSteps ==
    ASSUME SessionInv, ScreenInv, Others
    PROVE  ScreenInv'
<1>d. driver' = driver
    BY OthersAside
<1>t. Timer \in {"off", "running", "due"}
    BY DEF ScreenInv
<1>1. CASE ReportStateChange
    BY <1>1, <1>d, <1>t, ScreenStays DEF ReportStateChange, Lost, video
<1>2. CASE Receive
    BY <1>2, <1>d, <1>t, ScreenStays DEF Receive, SendContinue, Lost, video
<1>3. CASE NoBreakIn
    BY <1>3, <1>d, ScreenStays DEF NoBreakIn, SendContinue
<1>4. CASE BreakIn
  <2>1. DrawAll(wnd, screen, saved) /\ drv \notin Entering
      BY <1>4 DEF BreakIn, SessionInv
  <2>2. Drawable(wnd, screen, saved)
      BY DEF Drawable, ScreenInv, SavedIsCurrent
  <2> QED
      BY <2>1, <2>2, <1>d, DrawKeepsScreen
<1>5. CASE Leave
    BY <1>5, <1>d, ScreenStays DEF Leave, SendContinue
<1>6. CASE SendDbgPrint
    BY <1>6, <1>d, <1>t, ScreenStays DEF SendDbgPrint, Lost, video
<1>7. CASE Poll
    BY <1>7, <1>d, <1>t, ScreenStays DEF Poll, video
<1>8. CASE PollDriver
  <2>1. CASE Usable /\ Timer = "due"
    <3>1. /\ screen' = RestoredScreen /\ saved' = RestoredBuffer /\ Timer' = "off"
          /\ switched' = (switched /\ ~CanRestore) /\ fb' = fb /\ wnd' = wnd
        BY <1>8, <2>1 DEF PollDriver
    <3>2. CASE CanRestore
      <4>1. saved' = Nothing /\ screen' \in {"os", "old"}
          BY <3>1, <3>2, RestoreKeeps DEF Nothing
      <4>2. switched' = FALSE
          BY <3>1, <3>2, Zenon
      <4>3. saved' \in [size : 0 .. RestoreSize, of : {"os", "old"}] /\ saved'.size = 0
          BY <4>1, LifeCycleAssumption DEF Nothing
      <4> QED BY <3>1, <4>1, <4>2, <4>3, <1>d DEF ScreenInv, SavedIsCurrent, driver
    <3>3. CASE ~CanRestore
      <4>1. saved' = saved /\ screen' = screen
          BY <3>1, <3>3, RestoreKeeps
      <4>2. switched' = switched
          BY <3>1, <3>3, Zenon DEF ScreenInv
      <4> QED BY <3>1, <4>1, <4>2, <1>d, ScreenStays
    <3> QED BY <3>2, <3>3
  <2>2. CASE ~(Usable /\ Timer = "due")
      BY <1>8, <2>2, <1>d, <1>t, ScreenStays DEF PollDriver, video
  <2> QED BY <2>1, <2>2, SMTT(30)
<1>9. CASE Tick
    BY <1>9, <1>d, ScreenStays DEF Tick
<1>10. ASSUME NEW n \in WndSizes, Resize(n) PROVE ScreenInv'
  <2>1. PICK m \in 1 .. n : DrawAll(m, RestoredScreen, RestoredBuffer) /\ Fits(m, fb.known)
      BY <1>10 DEF Resize
  <2>2. drv \notin Entering /\ m \in Nat \ {0}
      BY <1>10, LifeCycleAssumption DEF Resize, SessionInv
  <2>3. RestoredBuffer.size # 0 => RestoredBuffer = saved /\ ~Fits(wnd, fb.known)
      BY RestoreKeeps DEF CanRestore, Nothing
  <2>4. RestoredBuffer.size # 0 => switched # FALSE
    <3> SUFFICES ASSUME RestoredBuffer.size # 0, switched = FALSE PROVE FALSE
        BY Zenon
    <3>1. saved.size # 0 /\ ~Fits(wnd, fb.known)
        BY <2>3
    <3>2. saved.size = wnd /\ fb.known <= fb.map /\ wnd <= fb.known
        BY <3>1 DEF ScreenInv, SavedIsCurrent
    <3>3. saved.size <= RestoreSize
        BY LifeCycleAssumption DEF ScreenInv
    <3> QED BY <3>1, <3>2, <3>3 DEF Fits
  <2>5. Drawable(m, RestoredScreen, RestoredBuffer)
      BY <2>2, <2>4, RestoreKeeps, Zenon DEF Drawable
  <2> QED
      BY <2>1, <2>2, <2>5, <1>d, DrawKeepsScreen
<1>11. ASSUME NEW r \in Resolutions, SetResolution(r) PROVE ScreenInv'
  <2>1. /\ fb' = [fb EXCEPT !.is = r] /\ screen' = "os" /\ switched' = (saved.size # 0)
        /\ UNCHANGED <<wnd, saved, Timer>>
      BY <1>11 DEF SetResolution
  <2>2. fb' \in [is : Resolutions, known : Resolutions \cup {0}, map : Resolutions \cup {0}]
      BY <2>1 DEF ScreenInv
  <2>3. switched' \in BOOLEAN /\ (switched' = FALSE => saved.size = 0)
      BY <2>1, Zenon
  <2> QED BY <2>1, <2>2, <2>3, <1>d DEF ScreenInv, SavedIsCurrent, driver
<1> QED
    BY <1>1, <1>2, <1>3, <1>4, <1>5, <1>6, <1>7, <1>8, <1>9, <1>10, <1>11 DEF Others, Session

-----------------------------------------------------------------------------
(* The rest of the types.                                                   *)

OtherTypes ==
    /\ drv \in Phases /\ conf \in [kdcomHook : Hooks, fifo : Fifos]
    /\ kd \in {"run", "receive", "entry", "ui", "lost"} /\ poll \in {"out", "in"}
    /\ DbgState \in {"unknown", "changed", "coroutine", "continue"}
    /\ StateChange \in {"old", "own"}
    /\ NotPresent \in BOOLEAN /\ DebuggerPresentSet \in BOOLEAN /\ sendCalls \in 0 .. 2

\* The types of the other variables are kept by the two routines, ...
LEMMA DriverKeepsTypes == OtherTypes /\ (DriverEntry \/ DrvUnload) => OtherTypes'
<1> SUFFICES ASSUME OtherTypes, DriverEntry \/ DrvUnload PROVE OtherTypes'
    OBVIOUS
<1>1. drv' \in Phases /\ conf' = conf
    BY Zenon DEF DriverEntry, DrvUnload, CreateDevice, CreateLink, CreateRoot, MapVideo, MapFifo,
       Register, Hook, HookFunction, BeginUnload, Unregister, UnmapFifo, UnhookFunction,
       Release, Step, Phases, OtherTypes
<1> QED BY <1>1, DriverAside, Zenon DEF OtherTypes, Aside, state, present

\* ... by a drawing of the window ...
LEMMA PresentTypes ==
    ASSUME OtherTypes, \/ present' = present \/ SetPresent \/ SetPresentByKdcom \/ CountSend
    PROVE  NotPresent' \in BOOLEAN /\ DebuggerPresentSet' \in BOOLEAN /\ sendCalls' \in 0 .. 2
<1>1. CASE present' = present
    BY <1>1, Zenon DEF OtherTypes, present
<1>2. CASE SetPresent
    BY <1>2, Zenon DEF OtherTypes, present, SetPresent
<1>3. CASE SetPresentByKdcom
    BY <1>3, Zenon DEF OtherTypes, SetPresentByKdcom
<1>4. CASE CountSend
  <2>1. sendCalls' \in 0 .. 2
      BY <1>4 DEF CountSend, OtherTypes
  <2>2. NotPresent' \in BOOLEAN /\ DebuggerPresentSet' \in BOOLEAN
      BY <1>4, Zenon DEF CountSend, OtherTypes
  <2> QED BY <2>1, <2>2
<1> QED BY <1>1, <1>2, <1>3, <1>4

\* ... and by all the other steps.
LEMMA OthersKeepTypes ==
    ASSUME OtherTypes, Others PROVE OtherTypes'
<1>1. drv' = drv /\ conf' = conf
    BY OthersAside DEF driver
<1>2. \/ present' = present \/ SetPresent \/ SetPresentByKdcom \/ CountSend
    BY Zenon DEF Others, Session, ReportStateChange, Receive, NoBreakIn, BreakIn, Leave,
       SendDbgPrint, Poll, PollDriver, Tick, Resize, SetResolution, Lost
<1>3. /\ kd' \in {"run", "receive", "entry", "ui", "lost"} /\ poll' \in {"out", "in"}
      /\ DbgState' \in {"unknown", "changed", "coroutine", "continue"}
      /\ StateChange' \in {"old", "own"}
    BY DEF OtherTypes, Others, Session, ReportStateChange, Receive, NoBreakIn, BreakIn, Leave,
       SendDbgPrint, Poll, PollDriver, Tick, Resize, SetResolution, Lost, SendContinue, state
<1> QED BY <1>1, <1>2, <1>3, PresentTypes DEF OtherTypes

-----------------------------------------------------------------------------
(* The theorems.                                                            *)

Inv == DriverInv /\ SessionInv /\ ScreenInv /\ OtherTypes

\* The invariant is inductive.
LEMMA Inductive ==
    LifeSpec => []Inv
<1>1. LifeInit => Inv
  <2> SUFFICES ASSUME LifeInit PROVE Inv
      OBVIOUS
  <2>1. DriverInv
      BY DriverStarts
  <2>2. SessionInv
      BY Zenon DEF LifeInit, SessionInv
  <2>3. ScreenInv
    <3>1. /\ wnd \in Nat \ {0} /\ screen = "os" /\ saved = [size |-> 0, of |-> "os"]
          /\ 0 \in 0 .. RestoreSize /\ Timer = "off"
        BY LifeCycleAssumption DEF LifeInit, Nothing
    <3>2. fb \in [is : Resolutions, known : Resolutions \cup {0}, map : Resolutions \cup {0}]
        BY DEF LifeInit
    <3>3. switched \in BOOLEAN /\ VmFifo \in BOOLEAN
        BY Zenon DEF LifeInit
    <3> QED BY <3>1, <3>2, <3>3 DEF ScreenInv, SavedIsCurrent
  <2>4. OtherTypes
    <3>1. NotPresent \in BOOLEAN /\ DebuggerPresentSet \in BOOLEAN
        BY Zenon DEF LifeInit
    <3>2. /\ drv \in Phases /\ kd = "run" /\ poll = "out" /\ DbgState = "unknown"
          /\ StateChange = "old" /\ sendCalls \in 0 .. 2
          /\ conf \in [kdcomHook : Hooks, fifo : Fifos]
        BY DEF LifeInit, Phases
    <3> QED BY <3>1, <3>2 DEF OtherTypes
  <2> QED BY <2>1, <2>2, <2>3, <2>4 DEF Inv
<1>2. Inv /\ [LifeNext]_lifeVars => Inv'
  <2> SUFFICES ASSUME Inv, [LifeNext]_lifeVars PROVE Inv'
      OBVIOUS
  <2>1. CASE DriverEntry \/ DrvUnload
      BY <2>1, DriverSteps, DriverKeepsSession, DriverKeepsScreen, DriverKeepsTypes DEF Inv
  <2>2. CASE Others
      BY <2>2, OthersAside, DriverStays, SessionSteps, ScreenSteps, OthersKeepTypes DEF Inv
  <2>3. CASE UNCHANGED lifeVars
    <3>1. DriverInv'
        BY <2>3, DriverStays DEF lifeVars, Inv
    <3>2. SessionInv'
        BY <2>3, Zenon DEF lifeVars, Inv, SessionInv, state, driver, Usable
    <3>3. ScreenInv'
        BY <2>3, ScreenStays, Zenon DEF lifeVars, Inv, video, ScreenInv
    <3>4. OtherTypes'
        BY <2>3, Zenon DEF lifeVars, Inv, OtherTypes, state, driver, present
    <3> QED BY <3>1, <3>2, <3>3, <3>4 DEF Inv
  <2> QED BY <2>1, <2>2, <2>3 DEF LifeNext, Others
<1> QED BY <1>1, <1>2, PTL DEF LifeSpec

\* Wherever DriverEntry or DrvUnload is stopped, and whatever it could not make:
\* as long as KDCOM can call the driver, and while a session is in it, Root exists
\* and the frame buffer is mapped; and EntryPoint runs on the state change of its
\* own session, unless an earlier one had its request answered by KDCOM.
THEOREM SessionIsSound ==
    LifeSpec => []LifeSessionSound
<1>1. Inv => LifeSessionSound
    BY DEF Inv, DriverInv, SessionInv, LifeSessionSound, SessionFindsRoot, OwnStateChange,
       HookedUsable, Functions
<1> QED BY <1>1, Inductive, PTL

\* DriverEntry reports an error exactly if BugChecker is not connected to KDCOM, and
\* whichever of its steps failed, nothing is left behind after DrvUnload.
THEOREM AllOrNothing ==
    LifeSpec => []LifeAllOrNothing
<1>1. Inv => LifeAllOrNothing
    BY DEF Inv, DriverInv, LifeAllOrNothing, InitResultTells, NothingLeft, ResultTells, Left,
       Unhooked, Functions
<1> QED BY <1>1, Inductive, PTL

\* What SaveOrRestoreFrameBuffer has saved are pixels of the system, never those of an
\* earlier session, of the area that a restore writes, and they fit in
\* VideoRestoreBuffer: for every resolution and every size of the window.
THEOREM BackupIsTheSystems ==
    LifeSpec => []LifeBackupIsTheirs
<1>1. Inv => LifeBackupIsTheirs
  <2> SUFFICES ASSUME Inv PROVE LifeTypeOK /\ BackupIsTheirs
      BY DEF LifeBackupIsTheirs
  <2>1. LifeTypeOK
      BY DEF Inv, DriverInv, ScreenInv, OtherTypes, LifeTypeOK
  <2>2. BackupIsTheirs
      BY DEF Inv, ScreenInv, SavedIsCurrent, BackupIsTheirs
  <2> QED BY <2>1, <2>2
<1> QED BY <1>1, Inductive, PTL

=============================================================================
