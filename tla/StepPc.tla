------------------------------- MODULE StepPc ------------------------------
(***************************************************************************)
(* Where a single step lands: arm_next_pc (baremetal/gdbstub/step.c)       *)
(* decodes the instruction at pc, and do_step patches the address that it  *)
(* names.  It is checked against what the processor does (external, from   *)
(* the architecture: bit by bit, with its adder and its order of loads).   *)
(*                                                                         *)
(* A word has W bits (32 in the code), an instruction is the record of its *)
(* fields, memory holds at an address a word that only depends on it.      *)
(* Registers are 0, 13, 14 and 15.  Instructions whose result the          *)
(* architecture leaves open (a shift by a register into pc) and the ones   *)
(* that also load the CPSR (MOVS pc, LDM with ^) are not among the inputs. *)
(***************************************************************************)
EXTENDS Integers, FiniteSets, Bitwise

CONSTANTS W,         \* bits of a word
          RegValues  \* what a register may hold

ASSUME StepAssumption == W \in Nat /\ W > 3 /\ RegValues \subseteq 0 .. (2^W - 1)

VARIABLES insn,   \* the instruction at pc
          regs,   \* g_regs: [r0, sp, lr, pc]
          cpsr,   \* [n, z, c, v, t]
          step    \* the result: [ok, next], or what it was before

step_vars == <<insn, regs, cpsr, step>>

Word(x) == x % 2^W
Top == 2^(W - 1)
Aligned(x) == x - (x % 4)
\* The word in memory that a is an address of: even at some, odd at others.
Stored(a) == Word((a \div 4) * 5 + 12)

-----------------------------------------------------------------------------
(* step.c.                                                                 *)

reg(n) == CASE n = 15 -> Word(regs.pc + 8) [] n = 14 -> regs.lr [] n = 13 -> regs.sp [] OTHER -> regs.r0

cond_true(cond) ==
  CASE cond = 0 -> cpsr.z [] cond = 1 -> ~cpsr.z [] cond = 2 -> cpsr.c [] cond = 3 -> ~cpsr.c
    [] cond = 4 -> cpsr.n [] cond = 5 -> ~cpsr.n [] cond = 6 -> cpsr.v [] cond = 7 -> ~cpsr.v
    [] cond = 8 -> cpsr.c /\ ~cpsr.z [] cond = 9 -> ~cpsr.c \/ cpsr.z
    [] cond = 10 -> cpsr.n = cpsr.v [] cond = 11 -> cpsr.n # cpsr.v
    [] cond = 12 -> ~cpsr.z /\ cpsr.n = cpsr.v [] cond = 13 -> cpsr.z \/ cpsr.n # cpsr.v
    [] OTHER -> TRUE

Carry == IF cpsr.c THEN 1 ELSE 0

\* Mutant: a zero amount shifts by nothing.
shifted_zero(rm, type, amount) ==
  CASE type = 0 -> IF amount >= W THEN 0 ELSE Word(rm * 2^amount)
    [] type = 1 -> IF amount >= W THEN 0 ELSE rm \div 2^amount
    [] type = 2 -> IF amount >= W THEN (IF rm >= Top THEN 2^W - 1 ELSE 0)
                   ELSE Word((IF rm >= Top THEN rm - 2^W ELSE rm) \div 2^amount)
    [] OTHER -> IF amount % W = 0 THEN rm
                ELSE (rm \div 2^(amount % W)) + Word(rm * 2^(W - (amount % W)))

\* A shift amount of zero means W for LSR and ASR, and RRX for ROR.
shifted(rm, type, amount) ==
  CASE type = 0 -> IF amount >= W THEN 0 ELSE Word(rm * 2^amount)
    [] type = 1 -> IF amount = 0 \/ amount >= W THEN 0 ELSE rm \div 2^amount
    [] type = 2 -> IF amount = 0 \/ amount >= W THEN (IF rm >= Top THEN 2^W - 1 ELSE 0)
                   ELSE Word((IF rm >= Top THEN rm - 2^W ELSE rm) \div 2^amount)
    [] amount = 0 -> Carry * Top + (rm \div 2)
    [] OTHER -> IF amount % W = 0 THEN rm
                ELSE (rm \div 2^(amount % W)) + Word(rm * 2^(W - (amount % W)))

\* The rotated immediate, or a register shifted by an immediate.
operand2 ==
  IF insn.imm
  THEN IF insn.amount = 0 THEN insn.val
       ELSE (insn.val \div 2^insn.amount) + Word(insn.val * 2^(W - insn.amount))
  ELSE shifted(reg(insn.rm), insn.type, insn.amount)

alu(op_, a, b) ==
  LET borrow == 1 - Carry IN
  CASE op_ = 0 -> a & b [] op_ = 1 -> a ^^ b [] op_ = 2 -> Word(a - b) [] op_ = 3 -> Word(b - a)
    [] op_ = 4 -> Word(a + b) [] op_ = 5 -> Word(a + b + Carry) [] op_ = 6 -> Word(a - b - borrow)
    [] op_ = 7 -> Word(b - a - borrow) [] op_ = 12 -> a | b [] op_ = 13 -> b
    [] op_ = 14 -> a & (2^W - 1 - b) [] OTHER -> 2^W - 1 - b

load32(a) == Stored(a)
Lands(a) == [ok |-> TRUE, next |-> a]
Undecided == [ok |-> FALSE, next |-> 0]

\* LDR into pc: the offset is a register's or an immediate.
ldr_address ==
  LET off == IF insn.imm THEN insn.val ELSE shifted(reg(insn.rm), insn.type, insn.amount)
  IN IF ~insn.pre THEN reg(insn.rn) ELSE Word(IF insn.up THEN reg(insn.rn) + off ELSE reg(insn.rn) - off)

\* LDM with pc: pc is the last register of the list.
ldm_address ==
  LET pre == IF insn.pre THEN 4 ELSE 0
  IN Word(IF insn.up THEN reg(insn.rn) + (insn.list - 1) * 4 + pre ELSE reg(insn.rn) - pre)

arm_next_pc ==
  CASE cpsr.t \/ insn.cond = 15 -> Undecided
    [] ~cond_true(insn.cond) -> Lands(Word(regs.pc + 4))
    [] insn.class = "b" -> Lands(Word(regs.pc + 8 + insn.off))
    [] insn.class = "bx" -> IF reg(insn.rm) % 2 = 1 THEN Undecided ELSE Lands(Aligned(reg(insn.rm)))
    [] insn.class = "ldr" -> Lands(Aligned(load32(ldr_address)))
    [] insn.class = "ldm" -> Lands(Aligned(load32(ldm_address)))
    [] insn.class = "dp" -> IF insn.op \in 8 .. 11 THEN Lands(Word(regs.pc + 4))
                            ELSE Lands(Aligned(alu(insn.op, reg(insn.rn), operand2)))
    [] OTHER -> Lands(Word(regs.pc + 4))

Decode ==
  /\ step = Undecided /\ step' = arm_next_pc
  /\ UNCHANGED <<insn, regs, cpsr>>

-----------------------------------------------------------------------------
(* The processor (external).                                               *)

Bits == 0 .. W - 1
BitsOf(x) == [i \in Bits |-> (x \div 2^i) % 2]
RECURSIVE ValueOf(_, _)
ValueOf(b, i) == IF i = W THEN 0 ELSE b[i] * 2^i + ValueOf(b, i + 1)
Value(b) == ValueOf(b, 0)

\* The bit that arrives at i when x is shifted by n of 1 .. W.
Shifts(x, type, n) ==
  LET b == BitsOf(x)
  IN Value([i \in Bits |->
       CASE type = 0 -> IF i >= n THEN b[i - n] ELSE 0
         [] type = 1 -> IF i + n < W THEN b[i + n] ELSE 0
         [] type = 2 -> IF i + n < W THEN b[i + n] ELSE b[W - 1]
         [] type = 3 -> b[(i + n) % W]
         [] OTHER -> IF i = W - 1 THEN Carry ELSE b[i + 1]])
Operand ==
  LET n == IF insn.amount = 0 THEN W ELSE insn.amount
      type == IF insn.type = 3 /\ insn.amount = 0 THEN 4 ELSE insn.type
  IN IF insn.type = 0 /\ insn.amount = 0 THEN reg(insn.rm) ELSE Shifts(reg(insn.rm), type, n)

\* The adder, and the logical operations on every bit.
Adds(a, b, carry) == Word(a + b + carry)
Complement(x) == Value([i \in Bits |-> 1 - BitsOf(x)[i]])
Bitwise2(a, b, Op(_, _)) == Value([i \in Bits |-> Op(BitsOf(a)[i], BitsOf(b)[i])])
Alu(a, b) ==
  CASE insn.op = 0 -> Bitwise2(a, b, LAMBDA x, y : x * y)
    [] insn.op = 1 -> Bitwise2(a, b, LAMBDA x, y : (x + y) % 2)
    [] insn.op = 2 -> Adds(a, Complement(b), 1) [] insn.op = 3 -> Adds(Complement(a), b, 1)
    [] insn.op = 4 -> Adds(a, b, 0) [] insn.op = 5 -> Adds(a, b, Carry)
    [] insn.op = 6 -> Adds(a, Complement(b), Carry) [] insn.op = 7 -> Adds(Complement(a), b, Carry)
    [] insn.op = 12 -> Bitwise2(a, b, LAMBDA x, y : IF x + y > 0 THEN 1 ELSE 0)
    [] insn.op = 13 -> b
    [] insn.op = 14 -> Bitwise2(a, b, LAMBDA x, y : x * (1 - y)) [] OTHER -> Complement(b)

\* Conditions come in pairs, the odd one the negation of the even one.
Passes ==
  LET base == CASE insn.cond \div 2 = 0 -> cpsr.z [] insn.cond \div 2 = 1 -> cpsr.c
                [] insn.cond \div 2 = 2 -> cpsr.n [] insn.cond \div 2 = 3 -> cpsr.v
                [] insn.cond \div 2 = 4 -> cpsr.c /\ ~cpsr.z [] insn.cond \div 2 = 5 -> cpsr.n = cpsr.v
                [] insn.cond \div 2 = 6 -> cpsr.n = cpsr.v /\ ~cpsr.z [] OTHER -> TRUE
  IN IF insn.cond % 2 = 0 THEN base ELSE ~base

\* LDM loads its registers upwards from the lowest address.
Block ==
  LET size == 4 * insn.list
      low == CASE insn.up /\ ~insn.pre -> reg(insn.rn) [] insn.up -> reg(insn.rn) + 4
               [] insn.pre -> reg(insn.rn) - size [] OTHER -> reg(insn.rn) - size + 4
  IN [k \in 1 .. insn.list |-> Word(low + 4 * (k - 1))]

\* Where it goes on, and in which state: bit 0 of a register given to BX, and of
\* a word that LDR or LDM loads into pc (ARMv5TE), enters Thumb; data processing
\* stays in ARM state.
InArm(a) == [at |-> a, thumb |-> FALSE]
Interworks(a) == [at |-> a, thumb |-> a % 2 = 1]
Executes ==
  IF ~Passes THEN InArm(Word(regs.pc + 4))
  ELSE CASE insn.class = "b" -> InArm(Word(regs.pc + 8 + insn.off))
         [] insn.class = "bx" -> Interworks(reg(insn.rm))
         [] insn.class = "ldr" ->
              LET off == IF insn.imm THEN insn.val ELSE Operand
              IN Interworks(Stored(CASE ~insn.pre -> reg(insn.rn) [] insn.up -> Adds(reg(insn.rn), off, 0)
                                     [] OTHER -> Adds(reg(insn.rn), Complement(off), 1)))
         [] insn.class = "ldm" -> Interworks(Stored(Block[insn.list]))
         [] insn.class = "dp" /\ insn.op \notin 8 .. 11 ->
              InArm(Alu(reg(insn.rn), IF insn.imm THEN Shifts(insn.val, 3, insn.amount) ELSE Operand))
         [] OTHER -> InArm(Word(regs.pc + 4))
LoadsThumb == insn.class \in {"ldr", "ldm"} /\ Executes.thumb

-----------------------------------------------------------------------------
\* Each part of the decoder with the inputs it looks at.
Base_ == [class |-> "other", cond |-> 14, off |-> 0, rm |-> 0, rn |-> 13, imm |-> FALSE, val |-> 0, type |-> 0,
          amount |-> 0, pre |-> TRUE, up |-> TRUE, list |-> 1, op |-> 0]

Branches == {[Base_ EXCEPT !.class = c, !.cond = k, !.off = o_, !.rm = m] :
               c \in {"b", "bx", "other"}, k \in 0 .. 15, o_ \in {-8, 0, 4}, m \in {0, 14, 15}}
Loads == {[Base_ EXCEPT !.class = "ldr", !.imm = i, !.val = v, !.type = t, !.amount = a, !.pre = p, !.up = u, !.rn = n] :
            i \in BOOLEAN, v \in {4}, t \in 0 .. 3, a \in {0, 1, 2}, p \in BOOLEAN, u \in BOOLEAN, n \in {13, 15}}
Blocks == {[Base_ EXCEPT !.class = "ldm", !.list = l, !.pre = p, !.up = u] :
             l \in 1 .. 3, p \in BOOLEAN, u \in BOOLEAN}
Data == {[Base_ EXCEPT !.class = "dp", !.op = x, !.imm = i, !.val = v, !.type = t, !.amount = a, !.rn = n] :
           x \in 0 .. 15, i \in BOOLEAN, v \in {5}, t \in 0 .. 3, a \in Bits, n \in {13, 15}}

Flags == [n : BOOLEAN, z : BOOLEAN, c : BOOLEAN, v : BOOLEAN, t : {FALSE}]
OneCarry == [n : {FALSE}, z : {FALSE}, c : BOOLEAN, v : {FALSE}, t : {FALSE}]

StepInit ==
  /\ \/ insn \in Branches /\ (cpsr \in Flags \/ cpsr = [n |-> FALSE, z |-> FALSE, c |-> FALSE, v |-> FALSE, t |-> TRUE])
     \/ insn \in Loads \cup Blocks \cup Data /\ cpsr \in OneCarry
  /\ regs \in [r0 : RegValues, sp : RegValues, lr : {2^W - 4}, pc : {8}]
  /\ step = Undecided

StepNext == Decode
StepSpec == StepInit /\ [][StepNext]_step_vars

(* A step lands where the processor goes: for every instruction that       *)
(* arm_next_pc decides, every condition and every shift, the address that  *)
(* do_step patches is the next one that is executed, as an ARM             *)
(* instruction.  A load that enters Thumb is the exception, which          *)
(* ThumbIsUndecided is about: arm_next_pc masks bit 0 off what it loads.   *)
NextIsExecuted ==
  step.ok /\ ~LoadsThumb => ~Executes.thumb /\ step.next = Aligned(Executes.at)

(* A step into Thumb is an error, as step.c and the README of gdbstub say: *)
(* arm_next_pc decides nothing when the next instruction is a Thumb one.   *)
(* It is so for BX; a load of pc is decided, and the patch of four bytes   *)
(* is put over Thumb code.                                                 *)
ThumbIsUndecided == step.ok => ~Executes.thumb
=============================================================================
