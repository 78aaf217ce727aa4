------------------------------- MODULE JsEval -------------------------------
(***************************************************************************)
(* QuickJSCppInterface::Eval, which evaluates a JavaScript expression: the *)
(* operand of "?", a command's argument, the condition of a breakpoint.    *)
(* JavaScript cannot call the kernel debugger.  ReadMem, WriteMem and      *)
(* WriteReg leave a request in _bc_eval_.async_args and a promise behind;  *)
(* when the engine has nothing left to run, Eval takes the request out,    *)
(* has it carried out and runs the engine again to resolve the promise.    *)
(*                                                                         *)
(* _bc_eval_ holds one request and one promise.  An expression may ask for *)
(* several things before it waits (Promise.all): then only the last of     *)
(* them is seen.  The text of a request is cut at 511 characters.          *)
(***************************************************************************)
EXTENDS Integers, Sequences

CONSTANTS MaxEvals,     \* bound of the expressions evaluated
          MaxRequests   \* bound of the requests of all expressions

ASSUME JsAssumption == MaxEvals \in Nat /\ MaxRequests \in Nat

VARIABLES jsPc,           \* where Eval is
          script,       \* the expression: "none", "wait", "value", "threw"
          awaits,       \* the requests it waits for
          eval,         \* _bc_eval_
          asyncArgs,    \* the buffer of 512 characters
          s,            \* the answer that resolve is called with
          regs,         \* a register, as the global variable of JavaScript
          ctx,          \*   in the context that the caller passes
          kd,           \*   in the kernel debugger
          retVal,       \* *pRetVal
          evals,        \* history: the number of expressions
          issued,       \* history: the requests
          lost,         \* history: those overwritten by a later one
          done,         \* history: those carried out, with what was done
          answered      \* history: those whose promise was resolved, with what

engine  == <<script, awaits, eval, issued, lost>>
regVars == <<regs, ctx, kd>>
jsVars    == <<jsPc, engine, asyncArgs, s, regVars, retVal, evals, done, answered>>

NoValue == 0
Ids  == 1 .. MaxRequests

\* An operation, and whether its text is longer than 511 characters.  Only the
\* values to be written make it that long.
Requests == {[op |-> o, long |-> FALSE] : o \in {"ReadMem", "WriteMem", "WriteReg"}}
            \cup {[op |-> "WriteMem", long |-> TRUE]}
Batches  == UNION {[1 .. n -> Requests] : n \in 0 .. 2}

\* What is done for a request: all of it, a part (some of the values or a
\* value cut short), nothing.
Outcomes == {"all", "part", "nothing"}

EvalObject == [resolve |-> NoValue, args |-> NoValue, retU64 |-> NoValue]

JsInit ==
    /\ jsPc = "idle" /\ script = "none" /\ awaits = {} /\ eval = EvalObject
    /\ asyncArgs = NoValue /\ s = "none" /\ retVal = NoValue /\ evals = 0
    /\ regs = NoValue /\ ctx = NoValue /\ kd = NoValue
    /\ issued = << >> /\ lost = {} /\ done = << >> /\ answered = << >>

-----------------------------------------------------------------------------
(* The engine.                                                              *)

\* JavaScript runs until nothing can go on: it asks for the things in new, each
\* request overwriting the one before, and waits for some of those not yet
\* answered, ends with a value or throws.  The value is the number of the
\* expression.
Runs(e, new, fate, ws, open) ==
    LET last == Len(issued) + Len(new)
        fresh == Len(issued) + 1 .. last
    IN  /\ last <= MaxRequests
        /\ issued' = issued \o new
        /\ lost' = lost \cup (fresh \ {last})
        /\ script' = fate
        /\ awaits' = ws /\ ws \subseteq (open \cup fresh) /\ (ws = {} <=> fate # "wait")
        /\ eval' = [resolve |-> IF new = << >> THEN e.resolve ELSE last,
                    args    |-> IF new = << >> THEN e.args ELSE last,
                    retU64  |-> IF fate = "value" THEN evals' ELSE e.retU64]

\* QJS_Eval at its end, and CheckRet: the request, if there is one, is copied
\* to asyncArgs, the value, if there is one, is handed to the caller.
ReadEval ==
    /\ asyncArgs' = IF eval'.args = NoValue THEN asyncArgs ELSE eval'.args
    /\ retVal' = IF eval'.retU64 = NoValue THEN retVal ELSE eval'.retU64

Unanswered == {i \in DOMAIN issued : \A a \in DOMAIN answered : answered[a].id # i}

-----------------------------------------------------------------------------
(* Eval.                                                                    *)

Fates == {"wait", "value", "threw"}

StartEval_Keeps ==
    /\ jsPc = "idle" /\ evals < MaxEvals
    /\ evals' = evals + 1 /\ regs' = ctx
    /\ \E new \in Batches, fate \in Fates, ws \in SUBSET Ids :
           Runs(eval, new, fate, ws, {})
    /\ asyncArgs' = eval'.args
    /\ retVal' = eval'.retU64
    /\ jsPc' = "loop"
    /\ UNCHANGED <<s, ctx, kd, done, answered>>

\* The registers become variables, _bc_eval_ is made anew and the expression
\* runs.  One that does not parse throws; a result that is no number, which
\* CheckReturnValue does not convert, counts as thrown.
StartEval ==
    /\ jsPc = "idle" /\ evals < MaxEvals
    /\ evals' = evals + 1 /\ regs' = ctx
    /\ \E new \in Batches, fate \in Fates, ws \in SUBSET Ids :
           Runs(EvalObject, new, fate, ws, {})
    /\ asyncArgs' = eval'.args
    /\ retVal' = eval'.retU64
    /\ jsPc' = "loop"
    /\ UNCHANGED <<s, ctx, kd, done, answered>>

\* How much of a request arrives in the buffer.
Received(i) == IF issued[i].long THEN "part" ELSE "all"

\* A request is carried out by the kernel debugger, which may refuse it.  A
\* register is changed in the context first.
Perform ==
    /\ jsPc = "loop" /\ asyncArgs # NoValue
    /\ \E ok \in BOOLEAN, refused \in BOOLEAN :
           LET isReg == issued[asyncArgs].op = "WriteReg"
               does  == IF ok THEN Received(asyncArgs) ELSE "nothing"
           IN  /\ refused => isReg /\ ~ok
               /\ ctx' = IF isReg /\ ~refused THEN asyncArgs ELSE ctx
               /\ kd' = IF isReg /\ ok THEN asyncArgs ELSE kd
               /\ done' = Append(done, [id |-> asyncArgs, did |-> does])
               /\ s' = IF ok THEN "true" ELSE "false"
    /\ asyncArgs' = NoValue
    /\ jsPc' = "resolve"
    /\ UNCHANGED <<engine, regs, retVal, evals, answered>>

\* The script that waits for i goes on when it has all it waits for, or when
\* i has failed, which throws at the await; it may catch that.
Continues(i) == script = "wait" /\ i \in awaits /\ (awaits = {i} \/ s = "false")

\* Otherwise the promise's own continuation (then) may ask for more.
Resume(e, i) ==
    \E new \in Batches :
        IF Continues(i)
        THEN \E fate \in Fates, ws \in SUBSET Ids : Runs(e, new, fate, ws, Unanswered \ {i})
        ELSE Runs(e, new, script, awaits \ {i}, Unanswered \ {i})

Resolve_NoClear ==
    /\ jsPc = "resolve"
    /\ regs' = IF s = "true" /\ issued[done[Len(done)].id].op = "WriteReg" THEN ctx ELSE regs
    /\ evals' = evals
    /\ Len(answered) < MaxRequests
    /\ answered' = Append(answered, [id |-> eval.resolve, with |-> s])
    /\ Resume([eval EXCEPT !.resolve = NoValue], eval.resolve)
    /\ ReadEval
    /\ jsPc' = "loop"
    /\ UNCHANGED <<s, ctx, kd, done>>

\* The promise is taken out of _bc_eval_ with the request and resolved.  After
\* WriteReg the variables are those of the new context.
Resolve ==
    /\ jsPc = "resolve"
    /\ regs' = IF s = "true" /\ issued[done[Len(done)].id].op = "WriteReg" THEN ctx ELSE regs
    /\ evals' = evals
    /\ answered' = Append(answered, [id |-> eval.resolve, with |-> s])
    /\ Resume([eval EXCEPT !.resolve = NoValue, !.args = NoValue], eval.resolve)
    /\ ReadEval
    /\ jsPc' = "loop"
    /\ UNCHANGED <<s, ctx, kd, done>>

ReturnValue ==
    /\ jsPc = "loop" /\ asyncArgs = NoValue
    /\ jsPc' = "idle"
    /\ UNCHANGED <<engine, asyncArgs, s, regVars, retVal, evals, done, answered>>

JsNext == StartEval \/ Perform \/ Resolve \/ ReturnValue

JsSpec == JsInit /\ [][JsNext]_jsVars

-----------------------------------------------------------------------------
JsTypeOK ==
    /\ jsPc \in {"idle", "loop", "resolve"}
    /\ script \in {"none"} \cup Fates /\ awaits \subseteq Ids
    /\ eval \in [resolve : 0 .. MaxRequests, args : 0 .. MaxRequests, retU64 : 0 .. MaxEvals]
    /\ asyncArgs \in 0 .. MaxRequests /\ s \in {"none", "true", "false"}
    /\ {regs, ctx, kd} \subseteq 0 .. MaxRequests
    /\ retVal \in 0 .. MaxEvals /\ evals \in 0 .. MaxEvals
    /\ issued \in Seq(Requests) /\ lost \subseteq Ids

\* Requests are carried out in the order in which they were made, none of them
\* twice, and every answer goes to the promise of the request it answers: the
\* loop of Eval and the functions ReadMem, WriteMem and WriteReg agree on one
\* request at a time.
OwnAnswers ==
    /\ \A i, j \in DOMAIN done : i < j => done[i].id < done[j].id
    /\ \A i \in DOMAIN answered :
           /\ answered[i].id = done[i].id
           /\ answered[i].with = "true" <=> done[i].did # "nothing"
           /\ answered[i].with = "true" /\ done[i].did = "part" => issued[answered[i].id].long

\* When Eval returns, every request has been answered but those that a later
\* one overwrote before the engine came to rest, so an expression that asks
\* for one thing at a time has come to its end.
NoneForgotten ==
    jsPc = "idle" => /\ Unanswered = lost
                     /\ script = "wait" => awaits \cap lost # {}

\* The caller, for instance the condition of a breakpoint, gets a value exactly
\* when the expression has ended with one, and it is the value of this expression.
OwnValue ==
    jsPc = "idle" => (retVal # NoValue <=> script = "value") /\ retVal \in {NoValue, evals}

\* The variables of JavaScript, the context and the kernel debugger have the
\* same register unless the last WriteReg that reached the debugger failed.
RegistersAgree ==
    LET tries == {i \in DOMAIN done : issued[done[i].id].op = "WriteReg"}
        Good(i) == (\A j \in tries : j <= i) => done[i].did = "all"
    IN  jsPc = "idle" /\ (\A i \in tries : Good(i)) => regs = ctx /\ ctx = kd

\* What Eval promises to the script and to its caller.
JsRequestsServed ==
    JsTypeOK /\ OwnAnswers /\ NoneForgotten /\ OwnValue /\ RegistersAgree
=============================================================================
