------------------------------ MODULE CallChain ------------------------------
(***************************************************************************)
(* What the coroutine engine promises to the code written on top of it     *)
(* (Main::EntryPoint, the commands, Platform, the script interface): the   *)
(* coroutines of one debugger session behave like one sequential chain of  *)
(* nested calls.  Only the innermost one executes; while it waits for an   *)
(* answer of the kernel nobody executes; it goes on only after its answer  *)
(* has arrived; and a callee returns to the coroutine that called it.      *)
(***************************************************************************)
EXTENDS Naturals

CONSTANT MaxDepth   \* deepest nesting of coroutines

VARIABLES
    depth,  \* number of coroutines that have started and not finished
    st      \* "idle": no session, "exec": the innermost coroutine executes,
            \* "asked"/"answered": it waits / the answer has arrived

chainVars == <<depth, st>>

ChainInit == depth = 0 /\ st = "idle"

\* The kernel reports a state change and the outermost coroutine starts.
Enter  == st = "idle" /\ depth' = 1 /\ st' = "exec"

\* The innermost coroutine awaits another coroutine.
Call   == st = "exec" /\ depth < MaxDepth /\ depth' = depth + 1 /\ st' = "exec"

\* The innermost coroutine awaits an answer of the kernel.
Ask    == st = "exec" /\ st' = "asked" /\ depth' = depth

Answer == st = "asked" /\ st' = "answered" /\ depth' = depth

Wake   == st = "answered" /\ st' = "exec" /\ depth' = depth

\* The innermost coroutine finishes: its caller goes on, or the session ends.
Return == /\ st = "exec"
          /\ depth' = depth - 1
          /\ st' = IF depth = 1 THEN "idle" ELSE "exec"

ChainNext == Enter \/ Call \/ Ask \/ Answer \/ Wake \/ Return

ChainSpec == ChainInit /\ [][ChainNext]_chainVars
=============================================================================
