-------------------------- MODULE Requests_proofs --------------------------
(***************************************************************************)
(* Proofs about the two places where BugChecker leaves a request that is   *)
(* served later: a script's in _bc_eval_ (JsEval), and a user's in the     *)
(* variables of the kernel's worker thread (PageIn).  Both promises hold   *)
(* for any number of requests and commands.                                *)
(***************************************************************************)
EXTENDS JsEval, PageIn, TLAPS

\* The requests that Eval has seen and not answered.
InHand == IF jsPc = "resolve" \/ asyncArgs # NoValue THEN {Len(issued)} ELSE {}

Histories ==
    /\ done \in Seq([id : Nat, did : Outcomes])
    /\ answered \in Seq([id : Nat, with : {"none", "true", "false"}])

\* _bc_eval_, asyncArgs and the list of what was done agree on the last request.
Slots ==
    /\ asyncArgs \in {NoValue, Len(issued)}
    /\ jsPc \in {"idle", "resolve"} => asyncArgs = NoValue
    /\ jsPc = "loop" => eval.args = asyncArgs /\ eval.resolve = asyncArgs
    /\ jsPc = "resolve" =>
          /\ Len(issued) > 0 /\ eval.args = Len(issued) /\ eval.resolve = Len(issued)
          /\ Len(done) > 0 /\ done[Len(done)].id = Len(issued)
          /\ s = "true" <=> done[Len(done)].did # "nothing"
          /\ done[Len(done)].did = "part" => issued[Len(issued)].long

\* One request is done and not answered while Eval resolves its promise.
Order ==
    /\ Len(done) = Len(answered) + (IF jsPc = "resolve" THEN 1 ELSE 0)
    /\ \A i \in 1 .. Len(done) : done[i].id \in 1 .. Len(issued)
    /\ asyncArgs # NoValue => \A i \in 1 .. Len(done) : done[i].id < Len(issued)
    /\ OwnAnswers

Open ==
    /\ Unanswered = lost \cup InHand
    /\ lost \subseteq 1 .. Len(issued) /\ InHand \cap lost = {}

Waits == (script = "wait" <=> awaits # {}) /\ awaits \subseteq Unanswered

Value ==
    /\ eval.retU64 = (IF script = "value" THEN evals ELSE NoValue) /\ retVal = eval.retU64
    /\ script = "value" \/ jsPc # "idle" => evals > 0

Tries == {i \in 1 .. Len(done) : issued[done[i].id].op = "WriteReg"}
LastOk == \A i \in Tries : (\A j \in Tries : j <= i) => done[i].did = "all"

Registers ==
    LastOk => /\ ctx = kd
              /\ \/ regs = ctx
                 \/ /\ jsPc = "resolve" /\ s = "true"
                    /\ issued[done[Len(done)].id].op = "WriteReg"

JInv == JsTypeOK /\ Histories /\ Slots /\ Order /\ Open /\ Waits /\ Value /\ Registers

\* A batch is a sequence of requests.
LEMMA BatchIsSeq == ASSUME NEW new \in Batches PROVE new \in Seq(Requests)
<1>1. PICK n \in 0 .. 2 : new \in [1 .. n -> Requests]
    BY DEF Batches
<1>2. n \in Nat
    OBVIOUS
<1> HIDE DEF Requests
<1> QED
    BY <1>1, <1>2

\* What the engine leaves when it comes to rest, having started with no request in
\* _bc_eval_: the last request it made, or none.
Rest(e, fate, ws, open) ==
    /\ issued' \in Seq(Requests)
    /\ Len(issued') >= Len(issued) /\ Len(issued') <= MaxRequests
    /\ \A i \in 1 .. Len(issued) : issued'[i] = issued[i]
    /\ lost' = lost \cup (Len(issued) + 1 .. Len(issued') - 1)
    /\ script' = fate /\ awaits' = ws
    /\ ws \subseteq (open \cup (Len(issued) + 1 .. Len(issued')))
    /\ ws = {} <=> fate # "wait"
    /\ eval'.args = (IF Len(issued') = Len(issued) THEN NoValue ELSE Len(issued'))
    /\ eval'.resolve = eval'.args
    /\ eval'.retU64 = (IF fate = "value" THEN evals' ELSE e.retU64)
    /\ eval' = [resolve |-> eval'.resolve, args |-> eval'.args, retU64 |-> eval'.retU64]

\* The engine comes to rest like that.
LEMMA RunsToRest ==
    ASSUME issued \in Seq(Requests), NEW new \in Batches, NEW e,
           e.args = NoValue, e.resolve = NoValue, NEW fate, NEW ws, NEW open,
           Runs(e, new, fate, ws, open)
    PROVE  Rest(e, fate, ws, open)
<1>1. new \in Seq(Requests)
    BY BatchIsSeq
<1> DEFINE last == Len(issued) + Len(new)
<1>2. /\ last <= MaxRequests /\ issued' = issued \o new
      /\ lost' = lost \cup ((Len(issued) + 1 .. last) \ {last})
      /\ script' = fate /\ awaits' = ws
      /\ ws \subseteq (open \cup (Len(issued) + 1 .. last)) /\ (ws = {} <=> fate # "wait")
    BY Zenon DEF Runs
<1>3. eval' = [resolve |-> IF new = << >> THEN e.resolve ELSE last,
               args    |-> IF new = << >> THEN e.args ELSE last,
               retU64  |-> IF fate = "value" THEN evals' ELSE e.retU64]
    BY Zenon DEF Runs
<1>4. /\ issued' \in Seq(Requests) /\ Len(issued') = last
      /\ \A i \in 1 .. Len(issued) : issued'[i] = issued[i]
    <2> HIDE DEF Requests
    <2>1. issued' \in Seq(Requests)
        BY <1>1, <1>2
    <2>2. Len(issued') = last
        BY <1>1, <1>2
    <2>3. \A i \in 1 .. Len(issued) : issued'[i] = issued[i]
        BY <1>1, <1>2
    <2> QED
        BY <2>1, <2>2, <2>3
<1>5. Len(issued) \in Nat /\ Len(new) \in Nat /\ (new = << >> <=> Len(new) = 0)
    BY <1>1
<1>6. lost' = lost \cup (Len(issued) + 1 .. Len(issued') - 1)
    <2>1. (Len(issued) + 1 .. last) \ {last} = Len(issued) + 1 .. last - 1
        BY <1>5
    <2> HIDE DEF last
    <2> QED
        BY <1>2, <1>4, <2>1
<1>7. new = << >> <=> Len(issued') = Len(issued)
    BY <1>4, <1>5
<1>8. /\ eval'.args = (IF Len(issued') = Len(issued) THEN NoValue ELSE Len(issued'))
      /\ eval'.resolve = eval'.args
      /\ eval'.retU64 = (IF fate = "value" THEN evals' ELSE e.retU64)
      /\ eval' = [resolve |-> eval'.resolve, args |-> eval'.args, retU64 |-> eval'.retU64]
    <2> HIDE DEF last
    <2> QED
        BY <1>3, <1>4, <1>7
<1>9. Len(issued') >= Len(issued) /\ Len(issued') <= MaxRequests
    BY <1>2, <1>4, <1>5
<1> HIDE DEF last
<1>10. ws \subseteq (open \cup (Len(issued) + 1 .. Len(issued')))
    BY <1>2, <1>4
<1> QED
    BY <1>2, <1>4, <1>6, <1>8, <1>9, <1>10 DEF Rest

\* What holds whenever the engine has come to rest: the requests made before are answered
\* or lost, and the last new one is the one that Eval sees next.
LEMMA AtRest ==
    ASSUME issued \in Seq(Requests), lost \subseteq 1 .. Len(issued),
           answered' \in Seq([id : Nat, with : {"none", "true", "false"}]),
           \A a \in 1 .. Len(answered') : answered'[a].id \in 1 .. Len(issued),
           \A i \in 1 .. Len(issued) :
               (\A a \in 1 .. Len(answered') : answered'[a].id # i) <=> i \in lost,
           NEW e, NEW fate, NEW ws, NEW open, Rest(e, fate, ws, open), open \subseteq lost,
           jsPc' = "loop", asyncArgs' = eval'.args
    PROVE  Open' /\ Waits' /\ asyncArgs' \in {NoValue, Len(issued')}
<1> DEFINE n == Len(issued)
           k == Len(issued')
<1>1. n \in Nat /\ k \in Nat /\ n <= k /\ issued' \in Seq(Requests)
    BY DEF Rest
<1>2. lost' = lost \cup (n + 1 .. k - 1) /\ awaits' \subseteq lost \cup (n + 1 .. k)
      /\ (awaits' = {} <=> script' # "wait") /\ asyncArgs' = (IF k = n THEN NoValue ELSE k)
    BY DEF Rest
<1>3. Unanswered' = lost \cup (n + 1 .. k)
    <2>1. Unanswered' = {i \in 1 .. k : \A a \in 1 .. Len(answered') : answered'[a].id # i}
        <3>1. DOMAIN issued' = 1 .. k /\ DOMAIN answered' = 1 .. Len(answered')
            BY <1>1
        <3> HIDE DEF k
        <3> QED
            BY <3>1 DEF Unanswered
    <2>2. \A i \in n + 1 .. k : \A a \in 1 .. Len(answered') : answered'[a].id # i
        BY <1>1
    <2>3. 1 .. k = (1 .. n) \cup (n + 1 .. k)
        BY <1>1
    <2> HIDE DEF n, k
    <2>4. ASSUME NEW i PROVE i \in Unanswered' <=> i \in lost \cup (n + 1 .. k)
        <3>1. CASE i \in n + 1 .. k
            BY <2>1, <2>2, <2>3, <3>1, Zenon
        <3>2. CASE i \notin n + 1 .. k
            <4>1. i \in Unanswered' <=>
                     i \in 1 .. n /\ \A a \in 1 .. Len(answered') : answered'[a].id # i
                BY <2>1, <2>3, <3>2, Zenon
            <4> QED
                BY <3>2, <4>1, Zenon DEF n
        <3> QED
            BY <3>1, <3>2
    <2> QED
        BY <2>4
<1>4. InHand' = IF k = n THEN {} ELSE {k}
    BY <1>1, <1>2 DEF InHand, NoValue
<1>5. Unanswered' = lost' \cup InHand'
    <2>1. n + 1 .. k = (n + 1 .. k - 1) \cup (IF k = n THEN {} ELSE {k})
        BY <1>1
    <2> HIDE DEF n, k
    <2> QED
        BY <1>2, <1>3, <1>4, <2>1
<1>6. lost' \subseteq 1 .. k /\ InHand' \cap lost' = {}
    <2>1. \A i \in lost : i \in 1 .. n
        OBVIOUS
    <2>2. \A i \in lost' : i \in 1 .. k /\ (k # n => i # k)
        <3>1. \A i \in lost' : i \in 1 .. n \/ i \in n + 1 .. k - 1
            BY <1>2, <2>1, Zenon
        <3> QED
            BY <1>1, <3>1
    <2> HIDE DEF n, k
    <2> QED
        BY <1>4, <2>2
<1>7. Open'
    BY <1>5, <1>6 DEF Open
<1>8. Waits'
    BY <1>2, <1>3, Zenon DEF Waits
<1> QED
    BY <1>2, <1>7, <1>8

\* The requests for registers that were tried do not change when the engine runs.
LEMMA TriesSame ==
    ASSUME Histories, done' = done,
           \A i \in 1 .. Len(done) : done[i].id \in 1 .. Len(issued),
           \A i \in 1 .. Len(issued) : issued'[i] = issued[i]
    PROVE  Tries' = Tries /\ LastOk' = LastOk
<1>1. \A i \in 1 .. Len(done) : issued'[done[i].id] = issued[done[i].id]
    OBVIOUS
<1>2. Tries' = Tries
    BY <1>1 DEF Tries
<1> QED
    BY <1>2 DEF LastOk

\* The types after the engine has come to rest.
LEMMA RestTypes ==
    ASSUME MaxRequests \in Nat, MaxEvals \in Nat, JsTypeOK,
           NEW e, e.retU64 \in 0 .. MaxEvals, NEW fate \in Fates \cup {"none"},
           NEW ws \in SUBSET Ids, NEW open, Rest(e, fate, ws, open), evals' \in 0 .. MaxEvals,
           jsPc' = "loop", asyncArgs' = eval'.args, retVal' = eval'.retU64,
           regs' \in {regs, ctx}, UNCHANGED <<s, ctx, kd>>
    PROVE  JsTypeOK'
<1>1. issued \in Seq(Requests) /\ issued' \in Seq(Requests)
    BY DEF JsTypeOK, Rest
<1>2. Len(issued) \in Nat /\ Len(issued') \in 0 .. MaxRequests
    BY <1>1 DEF Rest
<1>3. eval'.args \in 0 .. MaxRequests /\ eval'.resolve \in 0 .. MaxRequests
      /\ eval'.retU64 \in 0 .. MaxEvals
    BY <1>2 DEF Rest, NoValue
<1>4. eval' \in [resolve : 0 .. MaxRequests, args : 0 .. MaxRequests, retU64 : 0 .. MaxEvals]
    BY <1>3 DEF Rest
<1>5. lost' \subseteq Ids
    <2>1. lost' = lost \cup (Len(issued) + 1 .. Len(issued') - 1) /\ lost \subseteq Ids
        BY DEF Rest, JsTypeOK
    <2>2. \A i \in Len(issued) + 1 .. Len(issued') - 1 : i \in Ids
        BY <1>2 DEF Ids
    <2> QED
        BY <2>1, <2>2
<1>6. script' \in {"none"} \cup Fates /\ awaits' \subseteq Ids
    BY DEF Rest
<1> QED
    BY <1>1, <1>3, <1>4, <1>5, <1>6, SMTT(30) DEF JsTypeOK

\* Eval begins: the engine runs the expression.
LEMMA StartKeeps ==
    ASSUME MaxRequests \in Nat, MaxEvals \in Nat, JInv, StartEval PROVE JInv'
<1>1. /\ JsTypeOK /\ Histories /\ Slots /\ Order /\ Open /\ Waits /\ Value /\ Registers
      /\ issued \in Seq(Requests)
    BY DEF JInv, JsTypeOK
<1>2. PICK new \in Batches, fate \in Fates, ws \in SUBSET Ids :
          Runs(EvalObject, new, fate, ws, {})
    BY DEF StartEval
<1>3. /\ jsPc = "idle" /\ jsPc' = "loop" /\ evals < MaxEvals /\ evals' = evals + 1 /\ regs' = ctx
      /\ asyncArgs' = eval'.args /\ retVal' = eval'.retU64
      /\ UNCHANGED <<s, ctx, kd, done, answered>>
    BY DEF StartEval
<1>4. EvalObject.args = NoValue /\ EvalObject.resolve = NoValue /\ EvalObject.retU64 = NoValue
    BY DEF EvalObject
<1>5. PICK e : e = EvalObject
    OBVIOUS
<1>6. Rest(e, fate, ws, {})
    BY <1>1, <1>2, <1>4, <1>5, RunsToRest
<1>7. /\ asyncArgs = NoValue /\ InHand = {} /\ Len(done) = Len(answered)
      /\ \A i \in 1 .. Len(done) : done[i].id \in 1 .. Len(issued)
    BY <1>1, <1>3 DEF Slots, InHand, Order
<1>8. \A a \in 1 .. Len(answered) : answered[a].id \in 1 .. Len(issued)
    <2>1. DOMAIN answered = 1 .. Len(answered)
        BY <1>1 DEF Histories
    <2>2. \A a \in 1 .. Len(answered) : answered[a].id = done[a].id
        BY <1>1, <2>1 DEF Order, OwnAnswers
    <2> QED
        BY <1>7, <2>2
<1>9. Open' /\ Waits' /\ asyncArgs' \in {NoValue, Len(issued')}
    <2>1. \A i \in 1 .. Len(issued) :
             (\A a \in 1 .. Len(answered) : answered[a].id # i) <=> i \in lost
        <3>1. DOMAIN issued = 1 .. Len(issued) /\ DOMAIN answered = 1 .. Len(answered)
            BY <1>1 DEF Histories
        <3>2. lost = {i \in 1 .. Len(issued) :
                        \A a \in 1 .. Len(answered) : answered[a].id # i}
            BY <1>1, <1>7, <3>1, SMTT(30) DEF Open, Unanswered
        <3> QED
            BY <3>2
    <2>2. lost \subseteq 1 .. Len(issued)
        BY <1>1 DEF Open
    <2>3. answered' = answered /\ {} \subseteq lost
          /\ answered \in Seq([id : Nat, with : {"none", "true", "false"}])
        BY <1>1, <1>3 DEF Histories
    <2>4. /\ answered' \in Seq([id : Nat, with : {"none", "true", "false"}])
          /\ \A a \in 1 .. Len(answered') : answered'[a].id \in 1 .. Len(issued)
          /\ \A i \in 1 .. Len(issued) :
                (\A a \in 1 .. Len(answered') : answered'[a].id # i) <=> i \in lost
        BY <1>8, <2>1, <2>3, Zenon
    <2> QED
        BY <1>1, <1>3, <1>6, <2>2, <2>3, <2>4, AtRest
<1>10. JsTypeOK'
    <2>1. evals' \in 0 .. MaxEvals /\ e.retU64 \in 0 .. MaxEvals
        BY <1>1, <1>3, <1>4, <1>5 DEF JsTypeOK, NoValue
    <2> QED
        BY <1>1, <1>3, <1>6, <2>1, RestTypes
<1>11. Histories'
    BY <1>1, <1>3 DEF Histories
<1>12. Slots'
    BY <1>3, <1>6, <1>9 DEF Slots, Rest
<1>13. /\ issued' \in Seq(Requests) /\ Len(issued) <= Len(issued')
       /\ asyncArgs' # NoValue => Len(issued) < Len(issued')
       /\ \A i \in 1 .. Len(issued) : issued'[i] = issued[i]
    BY <1>1, <1>3, <1>6 DEF Rest
<1>14. OwnAnswers'
    <2>1. DOMAIN answered = 1 .. Len(answered)
        BY <1>1 DEF Histories
    <2>2. \A i \in DOMAIN answered : issued'[answered[i].id] = issued[answered[i].id]
        BY <1>8, <1>13, <2>1
    <2> QED
        BY <1>1, <1>3, <2>2 DEF Order, OwnAnswers
<1>15. Order'
    BY <1>1, <1>3, <1>7, <1>13, <1>14 DEF Order
<1>16. Value'
    BY <1>1, <1>3, <1>4, <1>5, <1>6 DEF Value, Rest, JsTypeOK, NoValue
<1>17. Registers'
    <2>1. LastOk' = LastOk
        BY <1>1, <1>3, <1>7, <1>13, TriesSame
    <2> QED
        BY <1>1, <1>3, <2>1 DEF Registers
<1> QED
    BY <1>9, <1>10, <1>11, <1>12, <1>15, <1>16, <1>17 DEF JInv

\* A request is carried out.
LEMMA PerformKeeps ==
    ASSUME MaxRequests \in Nat, JInv, Perform PROVE JInv'
<1>1. /\ JsTypeOK /\ Histories /\ Slots /\ Order /\ Open /\ Waits /\ Value /\ Registers
      /\ issued \in Seq(Requests)
    BY DEF JInv, JsTypeOK
<1> DEFINE n == Len(issued)
<1>2. /\ jsPc = "loop" /\ jsPc' = "resolve" /\ asyncArgs # NoValue /\ asyncArgs' = NoValue
      /\ UNCHANGED <<script, awaits, eval, issued, lost, regs, retVal, evals, answered>>
    BY DEF Perform, engine
<1>3. asyncArgs = n /\ eval.args = n /\ eval.resolve = n
    BY <1>1, <1>2 DEF Slots
<1>4. n \in 1 .. MaxRequests /\ issued[n] \in Requests
    BY <1>1, <1>2, <1>3 DEF JsTypeOK, NoValue
<1>5. PICK does \in Outcomes :
         /\ done' = Append(done, [id |-> n, did |-> does])
         /\ s' \in {"true", "false"} /\ (s' = "true" <=> does # "nothing")
         /\ does = "part" => issued[n].long
         /\ issued[n].op # "WriteReg" => UNCHANGED <<ctx, kd>>
         /\ issued[n].op = "WriteReg" => (does = "all" /\ ctx' = n /\ kd' = n) \/ does = "nothing"
         /\ ctx' \in {ctx, n} /\ kd' \in {kd, n}
    <2>1. PICK ok \in BOOLEAN, refused \in BOOLEAN :
             /\ refused => issued[n].op = "WriteReg" /\ ~ok
             /\ ctx' = IF issued[n].op = "WriteReg" /\ ~refused THEN n ELSE ctx
             /\ kd' = IF issued[n].op = "WriteReg" /\ ok THEN n ELSE kd
             /\ done' = Append(done, [id |-> n, did |-> IF ok THEN Received(n) ELSE "nothing"])
             /\ s' = IF ok THEN "true" ELSE "false"
        BY <1>3, Zenon DEF Perform
    <2>2. issued[n].op = "WriteReg" => ~issued[n].long
        BY <1>4 DEF Requests
    <2>3. CASE ok
        <3>1. /\ ctx' = IF issued[n].op = "WriteReg" THEN n ELSE ctx
              /\ kd' = IF issued[n].op = "WriteReg" THEN n ELSE kd
              /\ done' = Append(done, [id |-> n, did |-> Received(n)]) /\ s' = "true"
            BY <2>1, <2>3, Zenon
        <3>2. /\ Received(n) \in {"part", "all"} /\ (Received(n) = "part" => issued[n].long)
              /\ issued[n].op = "WriteReg" => Received(n) = "all"
            BY <2>2 DEF Received
        <3> QED
            BY <3>1, <3>2 DEF Outcomes
    <2>4. CASE ~ok
        <3>1. /\ ctx' \in {ctx, n} /\ kd' = kd
              /\ issued[n].op # "WriteReg" => ctx' = ctx
              /\ done' = Append(done, [id |-> n, did |-> "nothing"]) /\ s' = "false"
            BY <2>1, <2>4, Zenon
        <3> QED
            BY <3>1 DEF Outcomes
    <2> QED
        BY <2>3, <2>4, Zenon
<1>6. /\ done \in Seq([id : Nat, did : Outcomes]) /\ done' \in Seq([id : Nat, did : Outcomes])
      /\ Len(done') = Len(done) + 1 /\ done'[Len(done')] = [id |-> n, did |-> does]
      /\ \A i \in 1 .. Len(done) : done'[i] = done[i]
    BY <1>1, <1>4, <1>5 DEF Histories
<1>7. /\ done'[Len(done')].id = n /\ done'[Len(done')].did = does
    BY <1>6
<1>8. /\ \A i \in 1 .. Len(done) : done[i].id \in 1 .. n /\ done[i].id < n
      /\ Len(done) = Len(answered) /\ OwnAnswers
    BY <1>1, <1>2 DEF Order
<1>9. JsTypeOK'
    <2>1. 0 \in 0 .. MaxRequests /\ n \in 0 .. MaxRequests
        BY <1>4
    <2> QED
        BY <1>1, <1>2, <1>5, <2>1, SMTT(30) DEF JsTypeOK, NoValue
<1>10. Histories'
    BY <1>1, <1>2, <1>6 DEF Histories
<1>11. Slots'
    BY <1>1, <1>2, <1>3, <1>4, <1>5, <1>6, <1>7 DEF Slots
<1>12. OwnAnswers'
    <2>1. DOMAIN done' = 1 .. Len(done) + 1 /\ DOMAIN done = 1 .. Len(done)
          /\ DOMAIN answered = 1 .. Len(answered)
        BY <1>1, <1>6 DEF Histories
    <2>2. \A i, j \in DOMAIN done' : i < j => done'[i].id < done'[j].id
        <3> SUFFICES ASSUME NEW i \in 1 .. Len(done) + 1, NEW j \in 1 .. Len(done) + 1, i < j
                     PROVE  done'[i].id < done'[j].id
            BY <2>1
        <3>1. i \in 1 .. Len(done) /\ done'[i] = done[i]
            BY <1>6, SMTT(30)
        <3>2. CASE j \in 1 .. Len(done)
            BY <1>6, <1>8, <2>1, <3>1, <3>2, Zenon DEF OwnAnswers
        <3>3. CASE j = Len(done) + 1
            BY <1>6, <1>7, <1>8, <3>1, <3>3
        <3>4. Len(done) \in Nat
            BY <1>6
        <3> QED
            BY <3>2, <3>3, <3>4
    <2>3. \A i \in DOMAIN answered : done'[i] = done[i]
        BY <1>6, <1>8, <2>1
    <2> QED
        BY <1>2, <1>8, <2>2, <2>3 DEF OwnAnswers
<1>13. Order'
    <2>1. \A i \in 1 .. Len(done') : done'[i].id \in 1 .. n
        <3>1. Len(done) \in Nat
            BY <1>6
        <3>2. \A i \in 1 .. Len(done') : i \in 1 .. Len(done) \/ i = Len(done')
            BY <1>6, <3>1
        <3>3. n \in 1 .. n
            BY <1>4
        <3> HIDE DEF n
        <3> QED
            BY <1>6, <1>7, <1>8, <3>2, <3>3, Zenon
    <2> QED
        BY <1>1, <1>2, <1>6, <1>8, <1>12, <2>1 DEF Order, Histories
<1>14. Open' /\ Waits' /\ Value'
    <2>1. InHand' = InHand
        BY <1>2 DEF InHand
    <2>2. Unanswered' = Unanswered
        BY <1>2 DEF Unanswered
    <2> QED
        BY <1>1, <1>2, <2>1, <2>2 DEF Open, Waits, Value
<1>15. Registers'
    <2> SUFFICES ASSUME LastOk'
                 PROVE  /\ ctx' = kd'
                        /\ regs' = ctx' \/ (s' = "true" /\ issued[n].op = "WriteReg")
        BY <1>2, <1>7 DEF Registers
    <2>1. CASE issued[n].op = "WriteReg"
        <3>1. Len(done') \in Tries' /\ \A j \in Tries' : j <= Len(done')
            BY <1>2, <1>6, <1>7, <2>1 DEF Tries
        <3>2. does = "all"
            BY <1>7, <3>1 DEF LastOk
        <3> QED
            BY <1>5, <2>1, <3>2
    <2>2. CASE issued[n].op # "WriteReg"
        <3>1. Tries' = Tries
            <4>1. Tries' = {i \in 1 .. Len(done) + 1 : issued[done'[i].id].op = "WriteReg"}
                BY <1>2, <1>6 DEF Tries
            <4>2. issued[done'[Len(done) + 1].id].op # "WriteReg"
                BY <1>6, <1>7, <2>2
            <4> QED
                BY <1>6, <4>1, <4>2, SMTT(30) DEF Tries
        <3>2. LastOk
            BY <1>6, <3>1, Zenon DEF LastOk, Tries
        <3> QED
            BY <1>1, <1>2, <1>5, <2>2, <3>2 DEF Registers
    <2> QED
        BY <2>1, <2>2
<1> QED
    BY <1>9, <1>10, <1>11, <1>13, <1>14, <1>15 DEF JInv

\* The promise is resolved and the engine runs again.
LEMMA ResolveKeeps ==
    ASSUME MaxRequests \in Nat, MaxEvals \in Nat, JInv, Resolve PROVE JInv'
<1>1. /\ JsTypeOK /\ Histories /\ Slots /\ Order /\ Open /\ Waits /\ Value /\ Registers
      /\ issued \in Seq(Requests)
    BY DEF JInv, JsTypeOK
<1> DEFINE n == Len(issued)
           e == [eval EXCEPT !.resolve = NoValue, !.args = NoValue]
<1>2. /\ jsPc = "resolve" /\ jsPc' = "loop" /\ evals' = evals
      /\ regs' = (IF s = "true" /\ issued[done[Len(done)].id].op = "WriteReg" THEN ctx ELSE regs)
      /\ answered' = Append(answered, [id |-> eval.resolve, with |-> s])
      /\ asyncArgs' = (IF eval'.args = NoValue THEN asyncArgs ELSE eval'.args)
      /\ retVal' = (IF eval'.retU64 = NoValue THEN retVal ELSE eval'.retU64)
      /\ UNCHANGED <<s, ctx, kd, done>>
    BY DEF Resolve, ReadEval
<1>3. /\ asyncArgs = NoValue /\ eval.resolve = n /\ n > 0 /\ n \in Nat
      /\ Len(done) > 0 /\ done[Len(done)].id = n
      /\ s = "true" <=> done[Len(done)].did # "nothing"
      /\ done[Len(done)].did = "part" => issued[n].long
    BY <1>1, <1>2 DEF Slots
<1>4. e.args = NoValue /\ e.resolve = NoValue /\ e.retU64 = eval.retU64
    BY <1>1 DEF JsTypeOK
<1>5. InHand = {n} /\ Unanswered = lost \cup {n} /\ n \notin lost /\ lost \subseteq 1 .. n
    BY <1>1, <1>2 DEF InHand, Open
<1>6. PICK fate \in Fates \cup {"none"}, ws \in SUBSET Ids :
         /\ Rest(e, fate, ws, lost)
         /\ fate = script \/ script = "wait"
    <2>1. Resume(e, n)
        BY <1>3 DEF Resolve
    <2>2. Unanswered \ {n} = lost
        BY <1>5
    <2>3. PICK new \in Batches :
             IF Continues(n)
             THEN \E fate \in Fates, ws \in SUBSET Ids : Runs(e, new, fate, ws, lost)
             ELSE Runs(e, new, script, awaits \ {n}, lost)
        <3> HIDE DEF e, n
        <3> QED
            BY <2>1, <2>2 DEF Resume
    <2> HIDE DEF e
    <2>4. CASE Continues(n)
        <3>1. PICK fate \in Fates, ws \in SUBSET Ids : Runs(e, new, fate, ws, lost)
            BY <2>3, <2>4
        <3>2. Rest(e, fate, ws, lost)
            BY <1>1, <1>4, <3>1, RunsToRest
        <3> QED
            BY <2>4, <3>2 DEF Continues
    <2>5. CASE ~Continues(n)
        <3>1. Rest(e, script, awaits \ {n}, lost)
            BY <1>1, <1>4, <2>3, <2>5, RunsToRest
        <3>2. script \in Fates \cup {"none"} /\ awaits \ {n} \in SUBSET Ids
            BY <1>1 DEF JsTypeOK
        <3> QED
            BY <3>1, <3>2
    <2> QED
        BY <2>4, <2>5
<1> HIDE DEF e
<1>7. /\ answered \in Seq([id : Nat, with : {"none", "true", "false"}])
      /\ answered' \in Seq([id : Nat, with : {"none", "true", "false"}])
      /\ Len(answered') = Len(answered) + 1
      /\ answered'[Len(answered) + 1].id = n /\ answered'[Len(answered) + 1].with = s
      /\ \A i \in 1 .. Len(answered) : answered'[i] = answered[i]
    BY <1>1, <1>2, <1>3 DEF Histories, JsTypeOK
<1>8. /\ Len(done) = Len(answered) + 1 /\ OwnAnswers
      /\ \A i \in 1 .. Len(done) : done[i].id \in 1 .. n
    BY <1>1, <1>2 DEF Order
<1>9. /\ DOMAIN answered' = 1 .. Len(answered) + 1 /\ DOMAIN answered = 1 .. Len(answered)
      /\ DOMAIN done = 1 .. Len(done)
    BY <1>1, <1>7 DEF Histories
<1>10. \A a \in 1 .. Len(answered') : answered'[a].id = done[a].id
    <2>1. \A a \in 1 .. Len(answered) : answered[a].id = done[a].id
        BY <1>8, <1>9, SMTT(30) DEF OwnAnswers
    <2>2. Len(answered) \in Nat
        BY <1>7
    <2>3. \A a \in 1 .. Len(answered') : a \in 1 .. Len(answered) \/ a = Len(answered) + 1
        BY <1>7, <2>2
    <2> QED
        BY <1>3, <1>7, <1>8, <2>1, <2>3, Zenon
<1>11. asyncArgs' = eval'.args
    BY <1>2, <1>3
<1>12. Open' /\ Waits' /\ asyncArgs' \in {NoValue, Len(issued')}
    <2>1. \A i \in 1 .. n :
             (\A a \in 1 .. Len(answered') : answered'[a].id # i) <=> i \in lost
        <3> SUFFICES ASSUME NEW i \in 1 .. n
                     PROVE  (\A a \in 1 .. Len(answered') : answered'[a].id # i) <=> i \in lost
            OBVIOUS
        <3>1. (\A a \in 1 .. Len(answered) : answered[a].id # i) <=> i \in lost \cup {n}
            BY <1>1, <1>5, <1>9, SMTT(30) DEF Unanswered
        <3>2. (\A a \in 1 .. Len(answered') : answered'[a].id # i) <=>
                 n # i /\ \A a \in 1 .. Len(answered) : answered[a].id # i
            <4>1. Len(answered) \in Nat
                BY <1>7
            <4>2. \A a : a \in 1 .. Len(answered') <=>
                            a \in 1 .. Len(answered) \/ a = Len(answered) + 1
                BY <1>7, <4>1
            <4> QED
                BY <1>7, <4>2, Zenon
        <3> QED
            BY <1>5, <3>1, <3>2
    <2>2. \A a \in 1 .. Len(answered') : answered'[a].id \in 1 .. n
        BY <1>7, <1>8, <1>10, Zenon
    <2> QED
        BY <1>1, <1>2, <1>5, <1>6, <1>7, <1>11, <2>1, <2>2, AtRest, Zenon
<1>13. retVal' = eval'.retU64 /\ Value'
    <2>1. /\ eval'.retU64 = (IF fate = "value" THEN evals ELSE eval.retU64) /\ script' = fate
        BY <1>2, <1>4, <1>6 DEF Rest
    <2>2. /\ eval.retU64 = (IF script = "value" THEN evals ELSE NoValue) /\ retVal = eval.retU64
        BY <1>1 DEF Value
    <2>3. evals \in Nat
        BY <1>1 DEF JsTypeOK
    <2>4. script = "value" => fate = "value"
        BY <1>6
    <2>5. evals > 0
        BY <1>1, <1>2 DEF Value
    <2> QED
        BY <1>2, <2>1, <2>2, <2>3, <2>4, <2>5 DEF Value, NoValue
<1>14. JsTypeOK'
    <2>1. evals' \in 0 .. MaxEvals /\ e.retU64 \in 0 .. MaxEvals /\ regs' \in {regs, ctx}
        BY <1>1, <1>2, <1>4 DEF JsTypeOK
    <2> QED
        BY <1>1, <1>2, <1>6, <1>11, <1>13, <2>1, RestTypes, Zenon
<1>15. Histories'
    BY <1>1, <1>2, <1>7 DEF Histories
<1>16. Slots'
    BY <1>2, <1>6, <1>11, <1>12 DEF Slots, Rest
<1>17. /\ issued' \in Seq(Requests) /\ n <= Len(issued') /\ Len(issued') \in Nat
       /\ asyncArgs' # NoValue => n < Len(issued')
       /\ \A i \in 1 .. n : issued'[i] = issued[i]
    BY <1>1, <1>6, <1>11 DEF Rest
<1>18. OwnAnswers'
    <2>1. \A i, j \in DOMAIN done : i < j => done[i].id < done[j].id
        BY <1>8 DEF OwnAnswers
    <2>2. ASSUME NEW i \in 1 .. Len(answered) + 1
          PROVE  /\ answered'[i].with = "true" <=> done[i].did # "nothing"
                 /\ answered'[i].with = "true" /\ done[i].did = "part" =>
                       issued'[answered'[i].id].long
        <3>1. CASE i = Len(answered) + 1
            <4>1. answered'[i].with = s /\ answered'[i].id = n /\ i = Len(done)
                BY <1>7, <1>8, <3>1
            <4>2. issued'[n] = issued[n]
                BY <1>3, <1>17
            <4> QED
                BY <1>3, <4>1, <4>2
        <3>2. CASE i \in 1 .. Len(answered)
            <4>1. answered'[i] = answered[i] /\ answered[i].id = done[i].id
                BY <1>7, <1>8, <1>9, <3>2, Zenon DEF OwnAnswers
            <4>2. done[i].id \in 1 .. n
                BY <1>1, <1>8, <3>2 DEF Histories
            <4>3. issued'[answered'[i].id] = issued[answered[i].id]
                BY <1>17, <4>1, <4>2
            <4>4. /\ answered[i].with = "true" <=> done[i].did # "nothing"
                  /\ answered[i].with = "true" /\ done[i].did = "part" =>
                        issued[answered[i].id].long
                BY <1>8, <1>9, <3>2 DEF OwnAnswers
            <4> QED
                BY <4>1, <4>3, <4>4
        <3> QED
            BY <1>7, <3>1, <3>2
    <2> QED
        BY <1>2, <1>7, <1>9, <1>10, <2>1, <2>2 DEF OwnAnswers
<1>19. Order'
    BY <1>1, <1>2, <1>7, <1>8, <1>17, <1>18, SMTT(30) DEF Order, Histories
<1>20. Registers'
    <2>1. LastOk' = LastOk
        BY <1>1, <1>2, <1>8, <1>17, TriesSame
    <2> QED
        BY <1>1, <1>2, <2>1 DEF Registers
<1> QED
    BY <1>12, <1>13, <1>14, <1>15, <1>16, <1>19, <1>20 DEF JInv

\* Eval returns, or nothing happens.
LEMMA ReturnKeeps ==
    ASSUME JInv, ReturnValue \/ UNCHANGED jsVars PROVE JInv'
<1>1. UNCHANGED <<script, awaits, eval, issued, lost, asyncArgs, s, regs, ctx, kd, retVal, evals,
                  done, answered>>
    BY DEF ReturnValue, jsVars, engine, regVars
<1>2. jsPc' = jsPc \/ (jsPc = "loop" /\ jsPc' = "idle" /\ asyncArgs = NoValue)
    BY DEF ReturnValue, jsVars
<1>3. InHand' = InHand /\ Unanswered' = Unanswered /\ LastOk' = LastOk
    BY <1>1, <1>2 DEF InHand, Unanswered, LastOk, Tries
<1>4. JsTypeOK' /\ Histories'
    BY <1>1, <1>2 DEF JInv, JsTypeOK, Histories
<1>5. Slots' /\ Order'
    BY <1>1, <1>2 DEF JInv, Slots, Order, OwnAnswers
<1>6. Open' /\ Waits' /\ Value'
    BY <1>1, <1>2, <1>3 DEF JInv, Open, Waits, Value
<1>7. Registers'
    BY <1>1, <1>2, <1>3 DEF JInv, Registers
<1> QED
    BY <1>4, <1>5, <1>6, <1>7 DEF JInv

\* QuickJSCppInterface::Eval, for any number of expressions and of requests, however they
\* ask again, throw or end with requests open: every request is carried out at most once
\* and in order, its answer goes to its own promise and tells whether KD did something,
\* only overwritten requests stay unanswered, the caller gets the value of this expression,
\* and variables, context and KD agree on the registers unless a WriteReg failed.
THEOREM ScriptsAreServed ==
    JsSpec => []JsRequestsServed
<1>1. JsInit => JInv
    <2> SUFFICES ASSUME JsInit PROVE JInv
        OBVIOUS
    <2>1. issued = << >> /\ done = << >> /\ answered = << >> /\ lost = {} /\ awaits = {}
          /\ jsPc = "idle" /\ asyncArgs = NoValue /\ script = "none" /\ s = "none"
        BY DEF JsInit
    <2>2. JsTypeOK
        BY JsAssumption DEF JsInit, JsTypeOK, EvalObject, NoValue
    <2>3. Histories /\ Slots
        BY <2>1 DEF Histories, Slots
    <2>4. Order
        BY <2>1 DEF Order, OwnAnswers
    <2>5. Open /\ Waits
        BY <2>1 DEF Open, Waits, InHand, Unanswered
    <2>6. Value /\ Registers
        BY DEF JsInit, Value, Registers, EvalObject
    <2> QED
        BY <2>2, <2>3, <2>4, <2>5, <2>6 DEF JInv
<1>2. JInv /\ [JsNext]_jsVars => JInv'
    BY StartKeeps, PerformKeeps, ResolveKeeps, ReturnKeeps, JsAssumption DEF JsNext
<1>3. JInv => JsRequestsServed
    <2> SUFFICES ASSUME JInv PROVE JsRequestsServed
        OBVIOUS
    <2>1. JsTypeOK /\ OwnAnswers
        BY DEF JInv, Order
    <2>2. NoneForgotten
        BY Zenon DEF JInv, NoneForgotten, Open, Waits, InHand, Slots
    <2>3. OwnValue
        BY DEF JInv, OwnValue, Value, NoValue, JsTypeOK
    <2>4. RegistersAgree
        <3>1. DOMAIN done = 1 .. Len(done)
            BY DEF JInv, Histories
        <3> QED
            BY <3>1 DEF JInv, RegistersAgree, Registers, LastOk, Tries
    <2> QED
        BY <2>1, <2>2, <2>3, <2>4 DEF JsRequestsServed
<1> QED
    BY <1>1, <1>2, <1>3, PTL DEF JsSpec

-----------------------------------------------------------------------------
(* The worker thread of the kernel.                                         *)

\* The values that wait for the worker thread, or that it is reading, are those
\* of the last accepted command from the moment it is accepted until the thread
\* has finished it.
Waiting ==
    /\ ExpDebuggerWork # 0 /\ ~torn =>
           ExpDebuggerProcessAttach = queued /\ ExpDebuggerPageIn = queued
    /\ ExpDebuggerWork # 2 => taken = Nothing
    /\ taken[1] = 0 => taken[2] = 0
    /\ ~torn => taken[1] \in {0, queued} /\ taken[2] \in {0, queued}
    /\ ExpDebuggerWork = 0 /\ ~torn => served = queued

PTypes ==
    /\ ExpDebuggerWork \in 0 .. 2 /\ torn \in BOOLEAN
    /\ ExpDebuggerProcessAttach \in 0 .. MaxCommands /\ ExpDebuggerPageIn \in 0 .. MaxCommands
    /\ count \in 0 .. MaxCommands /\ queued \in 0 .. MaxCommands /\ served \in 0 .. MaxCommands
    /\ taken \in (0 .. MaxCommands) \X (0 .. MaxCommands)

PInv == PTypes /\ Waiting

\* Cmd::PageIn, wherever it fails, keeps the invariant: it writes nothing while
\* the worker thread may read, and ExpDebuggerWork after the two values.
LEMMA CommandKeeps ==
    ASSUME MaxCommands \in Nat, PInv, NEW n \in 0 .. 3, Command(n)
    PROVE  PInv'
<1>1. PTypes'
    <2>1. count' \in 0 .. MaxCommands
        BY DEF PInv, PTypes, Command
    <2>2. torn' \in BOOLEAN
        BY Zenon DEF PInv, PTypes, Command
    <2>3. ExpDebuggerWork' \in 0 .. 2
        BY DEF PInv, PTypes, Command
    <2> QED
        BY <2>1, <2>2, <2>3, Zenon DEF PInv, PTypes, Command
<1>2. n > 0 => ExpDebuggerWork \in {0, 1}
    BY DEF PInv, PTypes, Command, Pending
<1>3. Waiting'
    <2>1. CASE n = 0
        BY <2>1 DEF PInv, PTypes, Waiting, Command
    <2>2. CASE n \in {1, 2}
        <3>1. CASE ExpDebuggerWork = 0
            BY <2>2, <3>1 DEF PInv, PTypes, Waiting, Command, Nothing
        <3>2. CASE ExpDebuggerWork = 1
            <4>1. torn' /\ ExpDebuggerWork' = 1 /\ taken' = taken
                BY <2>2, <3>2, Zenon DEF PInv, PTypes, Command
            <4> QED
                BY <3>2, <4>1 DEF PInv, Waiting, Nothing
        <3> QED
            BY <1>2, <2>2, <3>1, <3>2
    <2>3. CASE n = 3
        BY <1>2, <2>3 DEF PInv, PTypes, Waiting, Command, Nothing
    <2> QED
        BY <2>1, <2>2, <2>3
<1> QED
    BY <1>1, <1>3 DEF PInv

\* The kernel's own steps keep it too.
LEMMA KernelKeeps ==
    ASSUME MaxCommands \in Nat, PInv,
           ClockTick \/ WorkerReadsAttach \/ WorkerReadsPageIn \/ WorkerEnds
    PROVE  PInv'
<1>1. CASE ClockTick
    BY <1>1 DEF PInv, PTypes, Waiting, ClockTick, values
<1>2. CASE WorkerReadsAttach
    BY <1>2 DEF PInv, PTypes, Waiting, WorkerReadsAttach, values
<1>3. CASE WorkerReadsPageIn
    BY <1>3 DEF PInv, PTypes, Waiting, WorkerReadsPageIn, values
<1>4. CASE WorkerEnds
    BY <1>4 DEF PInv, PTypes, Waiting, WorkerEnds, values, Nothing
<1> QED
    BY <1>1, <1>2, <1>3, <1>4

\* For any number of commands of Cmd::PageIn: the worker thread never acts on a
\* mixture of two of them, and what it does is the last one accepted.
THEOREM WorkerServesOne ==
    PageSpec => []PageInServed
<1>1. PageInit => PInv
    <2> SUFFICES ASSUME PageInit PROVE PInv
        OBVIOUS
    <2>1. PTypes
        <3>1. torn \in BOOLEAN
            BY Zenon DEF PageInit
        <3>2. 0 \in 0 .. MaxCommands /\ 0 \in 0 .. 2
              /\ Nothing \in (0 .. MaxCommands) \X (0 .. MaxCommands)
            BY PageInAssumption DEF Nothing
        <3> QED
            BY <3>1, <3>2, Zenon DEF PageInit, PTypes
    <2>2. Waiting
        BY DEF PageInit, Waiting, Nothing
    <2> QED
        BY <2>1, <2>2 DEF PInv
<1>2. PInv /\ [PageNext]_pageVars => PInv'
    <2> SUFFICES ASSUME PInv, [PageNext]_pageVars PROVE PInv'
        OBVIOUS
    <2>1. CASE \E n \in 0 .. 3 : Command(n)
        BY <2>1, CommandKeeps, PageInAssumption
    <2>2. CASE ClockTick \/ WorkerReadsAttach \/ WorkerReadsPageIn \/ WorkerEnds
        BY <2>2, KernelKeeps, PageInAssumption
    <2>3. CASE UNCHANGED pageVars
        BY <2>3 DEF pageVars, values, PInv, PTypes, Waiting
    <2> QED
        BY <2>1, <2>2, <2>3 DEF PageNext
<1>3. PInv => PageInServed
    <2> SUFFICES ASSUME PInv PROVE PageInServed
        OBVIOUS
    <2>1. PageTypeOK
        BY DEF PInv, PTypes, PageTypeOK
    <2>2. OneCommandServed
        BY DEF PInv, PTypes, Waiting, OneCommandServed, Nothing
    <2> QED
        BY <2>1, <2>2 DEF PageInServed
<1> QED
    BY <1>1, <1>2, <1>3, PTL DEF PageSpec
=============================================================================
