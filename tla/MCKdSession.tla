---------------------------- MODULE MCKdSession ----------------------------
(***************************************************************************)
(* The instances of KdEngine and of LifeCycle for TLC: what BugChecker's   *)
(* coroutines do in a session of KD, and what the driver does to KDCOM and *)
(* to the screen before, between and after sessions.  part says which of   *)
(* the two a behaviour is about; the other one stays in an initial state.  *)
(***************************************************************************)
EXTENDS MCKdEngine, LifeCycle

VARIABLE part

kdVars == <<part, vars, lifeVars>>

KdInit ==
    /\ part \in {"engine", "life"}
    /\ Init /\ LifeInit
    /\ part = "engine" => conf = [kdcomHook |-> "Callback", fifo |-> FALSE] /\ fb.is = 3

OfEngine(A) == part = "engine" /\ A /\ UNCHANGED <<part, lifeVars>>
OfLife(A)   == part = "life" /\ A /\ UNCHANGED <<part, vars>>

\* The system is down.
Down == OfLife(kd = "lost" /\ UNCHANGED lifeVars)

KdNext == OfEngine(Next) \/ OfLife(LifeNext) \/ Down

KdSpec ==
    /\ KdInit /\ [][KdNext]_kdVars
    /\ WF_kdVars(OfEngine(KdReceivePacket))
    /\ WF_kdVars(OfEngine(SendManipulateResponse)) /\ WF_kdVars(OfEngine(SendReadResponse))
    /\ WF_kdVars(OfLife(Receive)) /\ WF_kdVars(OfLife(Poll))
    /\ WF_kdVars(OfLife(PollDriver)) /\ WF_kdVars(OfLife(Tick))
=============================================================================
