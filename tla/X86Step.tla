------------------------------ MODULE X86Step ------------------------------
(***************************************************************************)
(* Where the instruction at the program counter goes                       *)
(* (X86Step::CalculateStepDestination, BugChecker/X86Step.cpp): a single   *)
(* step puts its breakpoint there, and the disassembler window shows it.   *)
(*                                                                         *)
(* Width gives the bits of a quantity of 16, 32 and 64 bits, in order to   *)
(* enumerate registers.  A 64 bit register holds more than its low half    *)
(* also in 32 bit code.                                                    *)
(***************************************************************************)
EXTENDS Integers, Sequences, FiniteSets

CONSTANTS Width,        \* on {16, 32, 64}
          Pcs, Counts,  \* values of Rip and Rcx
          Values,       \* values of the other registers
          Offsets       \* immediate operands and displacements

Flags == {"CF", "ZF", "SF", "OF", "PF"}

VARIABLES ins, ctx, dest

Low(v, bits) == v % (2 ^ Width[bits])

\* The conditional jumps, with the flags that each tests (thisInstr.cpu_flags->tested).
Positive == [JB |-> {"CF"}, JBE |-> {"CF", "ZF"}, JL |-> {"SF", "OF"},
             JLE |-> {"ZF", "SF", "OF"}, JO |-> {"OF"}, JP |-> {"PF"},
             JS |-> {"SF"}, JZ |-> {"ZF"}]
Negative == [JNB |-> "JB", JNBE |-> "JBE", JNL |-> "JL", JNLE |-> "JLE",
             JNO |-> "JO", JNP |-> "JP", JNS |-> "JS", JNZ |-> "JZ"]
Tested(m) == IF m \in DOMAIN Negative THEN Positive[Negative[m]] ELSE Positive[m]

Conditional == (DOMAIN Positive) \cup DOMAIN Negative
CountJumps  == [JCXZ |-> 16, JECXZ |-> 32, JRCXZ |-> 64]
Loops       == {"LOOP", "LOOPE", "LOOPNE"}

\* An instruction is its mnemonic m, the type op of its operand, the operand o and the
\* width a of its addresses; c tells 32 bit code.  "fs" is memory in the segment FS or GS.
Instructions ==
    [m : Conditional \cup DOMAIN CountJumps, op : {"imm"}, o : Offsets, a : {64}, c : BOOLEAN]
      \cup [m : Loops, op : {"imm"}, o : Offsets, a : {16, 32, 64}, c : BOOLEAN]
      \cup [m : {"CALL", "JMP"}, op : {"imm", "reg", "mem", "fs"}, o : Offsets, a : {64}, c : BOOLEAN]
      \cup [m : {"CALL", "JMP"}, op : {"rip"}, o : Offsets, a : {64}, c : {FALSE}]
      \cup [m : {"RET", "RETF", "NOP"}, op : {"none"}, o : {0}, a : {64}, c : BOOLEAN]

Relevant(i) ==
    CASE i.m \in Conditional -> Tested(i.m)
      [] i.m \in {"LOOPE", "LOOPNE"} -> {"ZF"}
      [] OTHER -> {}

Init ==
    /\ ins \in Instructions
    /\ ctx \in [ip : Pcs, cx : Counts, r : Values, flags : SUBSET Flags]
    /\ ctx.flags \subseteq Relevant(ins)
    /\ ins.c => ctx.ip = Low(ctx.ip, 32)
    /\ dest = << >>

-----------------------------------------------------------------------------
(* CalculateStepDestination.                                                *)

Length == 1
PtrSize == IF ins.c THEN 4 ELSE 8

Nowhere  == [imm |-> 0, ptr |-> 0, size |-> 0]
Relative == [Nowhere EXCEPT !.imm = Low(ctx.ip + Length + ins.o, 64)]
Pointer(v) == [Nowhere EXCEPT !.ptr = v, !.size = PtrSize]

Ret == Pointer(IF ins.c THEN Low(ctx.r, 32) ELSE ctx.r)

\* [r + o], or [rip + o] from the end of the instruction.
Memory ==
    LET v == Low((IF ins.op = "rip" THEN ctx.ip + Length ELSE ctx.r) + ins.o, 64)
    IN  IF v = 0 THEN Nowhere ELSE Pointer(IF ins.c THEN Low(v, 32) ELSE v)

Call ==
    CASE ins.op = "imm" -> Relative
      [] ins.op = "reg" -> [Nowhere EXCEPT !.imm = IF ins.c THEN Low(ctx.r, 32) ELSE ctx.r]
      [] ins.op \in {"mem", "rip"} -> Memory
      [] ins.op = "fs" -> Nowhere

Flag(f) == f \in ctx.flags

Holds_AnyFlag(m) ==
    CASE m = "JBE" -> Flag("CF") \/ Flag("ZF")
      [] m = "JL"  -> Flag("SF") # Flag("OF")
      [] m = "JNL" -> Flag("SF") = Flag("OF")
      [] m = "JLE" -> Flag("ZF") \/ Flag("SF") # Flag("OF")
      [] m = "JNLE" -> ~Flag("ZF") /\ Flag("SF") = Flag("OF")
      [] OTHER -> LET cond == ctx.flags \cap Tested(m)
                  IN  IF m \in DOMAIN Negative THEN cond # Tested(m) ELSE cond = Tested(m)

\* The condition of a jump: the ones of several flags by name, the others by the flags
\* that the decoder says they test.
Holds(m) ==
    CASE m = "JBE" -> Flag("CF") \/ Flag("ZF")
      [] m = "JL"  -> Flag("SF") # Flag("OF")
      [] m = "JNL" -> Flag("SF") = Flag("OF")
      [] m = "JLE" -> Flag("ZF") \/ Flag("SF") # Flag("OF")
      [] m = "JNLE" -> ~Flag("ZF") /\ Flag("SF") = Flag("OF")
      [] OTHER -> LET cond == ctx.flags \cap Tested(m)
                  IN  IF m \in DOMAIN Negative THEN cond = {} ELSE cond = Tested(m)

LoopHolds(m) ==
    /\ Low(ctx.cx, ins.a) # 1
    /\ m = "LOOPE" => Flag("ZF")
    /\ m = "LOOPNE" => ~Flag("ZF")

Destination ==
    CASE ins.m = "RET" -> Ret
      [] ins.m \in {"CALL", "JMP"} -> Call
      [] ins.m \in Conditional -> IF Holds(ins.m) THEN Relative ELSE Nowhere
      [] ins.m \in DOMAIN CountJumps ->
            IF Low(ctx.cx, CountJumps[ins.m]) = 0 THEN Relative ELSE Nowhere
      [] ins.m \in Loops -> IF LoopHolds(ins.m) THEN Relative ELSE Nowhere
      [] OTHER -> Nowhere

CalculateStepDestination ==
    /\ dest = << >>
    /\ dest' = IF Destination = Nowhere
               THEN <<[Nowhere EXCEPT !.imm = Low(ctx.ip + Length, 64)],
                      IF ins.m = "NOP" THEN "None" ELSE "NotJumping">>
               ELSE <<Destination, "Jumping">>
    /\ UNCHANGED <<ins, ctx>>

Next == CalculateStepDestination

-----------------------------------------------------------------------------
(* What the processor does.                                                 *)

Bits == IF ins.c THEN 32 ELSE 64

Condition(m) ==
    CASE m = "JB" -> Flag("CF")
      [] m = "JBE" -> Flag("CF") \/ Flag("ZF")
      [] m = "JL" -> Flag("SF") # Flag("OF")
      [] m = "JLE" -> Flag("ZF") \/ Flag("SF") # Flag("OF")
      [] m = "JO" -> Flag("OF")
      [] m = "JP" -> Flag("PF")
      [] m = "JS" -> Flag("SF")
      [] m = "JZ" -> Flag("ZF")

\* Whether the instruction jumps: the negative conditions negate the positive ones, and a
\* loop decrements its counter before it compares it with 0.
Jumps ==
    CASE ins.m \in DOMAIN Positive -> Condition(ins.m)
      [] ins.m \in DOMAIN Negative -> ~Condition(Negative[ins.m])
      [] ins.m \in DOMAIN CountJumps -> Low(ctx.cx, CountJumps[ins.m]) = 0
      [] ins.m \in Loops -> /\ Low(ctx.cx - 1, ins.a) # 0
                            /\ ins.m = "LOOPE" => Flag("ZF")
                            /\ ins.m = "LOOPNE" => ~Flag("ZF")
      [] OTHER -> ins.m # "NOP"

\* The next program counter, or where in memory it is.
Target ==
    CASE ~Jumps -> [Nowhere EXCEPT !.imm = Low(ctx.ip + Length, Bits)]
      [] Jumps /\ ins.op = "imm" -> [Nowhere EXCEPT !.imm = Low(ctx.ip + Length + ins.o, Bits)]
      [] Jumps /\ ins.op = "reg" -> [Nowhere EXCEPT !.imm = Low(ctx.r, Bits)]
      [] Jumps /\ ins.op = "rip" -> Pointer(Low(ctx.ip + Length + ins.o, Bits))
      [] Jumps /\ ins.op \in {"mem", "fs", "none"} -> Pointer(Low(ctx.r + ins.o, Bits))

\* What the code follows: no far return and no operand in the segments FS and GS, no jump
\* across the end of 32 bit addresses, which it does not wrap, and none to (or through)
\* address 0, which it takes for no jump.
InRange ==
    /\ ins.m # "RETF" /\ ins.op # "fs"
    /\ ins.c => ctx.ip + Length + (IF ins.op = "imm" THEN ins.o ELSE 0) \in 0 .. 2 ^ Width[32] - 1
    /\ Target.imm # 0 \/ Target.ptr # 0

\* The breakpoint of a single step is where the processor goes, for every condition and
\* every counter, and the window says JUMP exactly when it jumps.
StepsWhereCpuGoes ==
    dest # << >> /\ InRange => dest[1] = Target /\ (dest[2] = "Jumping" <=> Jumps)
=============================================================================
