------------------------------ MODULE Processor ------------------------------
(***************************************************************************)
(* The data of the running program.  Module Machine has where control goes *)
(* and what kind of thing each stack cell holds, and lets a conditional    *)
(* jump go either way; here each of its steps also computes, in 64 bits    *)
(* that no number of the runs fills, and the flags decide.                 *)
(***************************************************************************)
EXTENDS Backend, Meaning
LOCAL INSTANCE Bitwise
LOCAL INSTANCE SequencesExt

READ_SIZE == 32     \* bytes read_num asks for

ASSUME RequestAssumption == \A i \in 1..Len(Input) : Len(Input[i]) \in 1..READ_SIZE

VARIABLES
  program,    \* history: the program that was compiled
  meaning,    \* history: what it means
  data        \* registers, stack cells (as in `stack`), globals, what was compared last,
              \* what is left of stdin, the texts that were printed

dataVars == <<program, meaning, data>>

\* What was there before anything was stored.
Garbage == 7777

\* RSP and RBP hold addresses: the variables `stack` and `rbp` of Machine.
DataInit ==
  /\ program = cursor
  /\ meaning = MeaningOf(program)
  /\ data = [regs |-> [r \in ir_reg |-> Garbage], cells |-> <<>>, globals |-> <<>>,
             compared |-> <<0, 0>>, input |-> Input, printed |-> <<>>]

TopValue == data.cells[Len(data.cells)]
CellOf(operand) == rbp - operand.immediate \div SLOT
IsFrameSlot(operand) == operand.flags = {"MEM", "IMM", "REG"}

ReadOperand(operand) ==
  CASE operand.flags = {"REG"} -> data.regs[operand.reg]
    [] operand.flags = {"IMM"} -> operand.immediate
    [] operand = operand_top   -> TopValue
    [] IsFrameSlot(operand)    -> data.cells[CellOf(operand)]
    [] OTHER -> IF operand.immediate \in DOMAIN data.globals
                  THEN data.globals[operand.immediate] ELSE Garbage

Written(d, operand, value) ==
  CASE operand.flags = {"REG"} -> [d EXCEPT !.regs[operand.reg] = value]
    [] operand = operand_top   -> [d EXCEPT !.cells[Len(d.cells)] = value]
    [] IsFrameSlot(operand)    -> [d EXCEPT !.cells[CellOf(operand)] = value]
    [] OTHER                   -> [d EXCEPT !.globals = (operand.immediate :> value) @@ @]

Pushed(d, value) == [d EXCEPT !.cells = Append(@, value)]
Popped(d, n) == [d EXCEPT !.cells = SubSeq(@, 1, Len(@) - n)]

\* Operands are compared as signed numbers.
Holds(cond) ==
  LET a == data.compared[1]
      b == data.compared[2]
  IN  CASE cond = "NONE"        -> TRUE
        [] cond = "LESS"        -> a < b
        [] cond = "NOT_LESS"    -> a >= b
        [] cond = "GREATER"     -> a > b
        [] cond = "NOT_GREATER" -> a <= b
        [] cond = "EQUAL"       -> a = b
        [] cond = "NOT_EQUAL"   -> a # b

\* Two's complement: the lowest bit of a number is its remainder by two.
Computed(op, a, b) ==
  CASE op = "MOV" -> b
    [] op = "ADD" -> a + b
    [] op = "SUB" -> a - b
    [] op = "MUL" -> a * b
    [] op = "NEG" -> - a
    [] op = "NOT" -> - a - 1
    [] op = "AND" -> IF b = 1 THEN a % 2 ELSE a & b
    [] op = "OR"  -> a | b
    [] op = "XOR" -> IF a = b THEN 0 ELSE a ^^ b

\* cqo and idiv: the dividend is RAX with its sign, whatever RDX was.
Divided(d, divisor) ==
  LET q == Quotient(d.regs["RAX"], divisor)
  IN  [d EXCEPT !.regs["RAX"] = q, !.regs["RDX"] = d.regs["RAX"] - q * divisor]

-----------------------------------------------------------------------------
(* The standard library.                                                   *)

\* A function leaves its result; nobody looks at what is in the other registers.
Returning(d, result) ==
  [d EXCEPT !.regs = [r \in ir_reg |-> IF r = "RAX" THEN result ELSE Garbage]]

\* The loop .fill_chars: digits from the last to the first, at least one.
RECURSIVE fill_chars(_)
fill_chars(n) ==
  (IF n < 10 THEN <<>> ELSE fill_chars(n \div 10)) \o <<ZERO + (n % 10)>>

\* One write; what it returns, the number of bytes, is left in RAX.
print_num(d) ==
  LET value == TopValue
      text  == (IF value < 0 THEN <<MINUS>> ELSE <<>>) \o fill_chars(Abs(value)) \o <<NEWLINE>>
  IN  [Returning(d, Len(text)) EXCEPT !.printed = Append(@, text)]

\* What one read system call gives: nothing at the end of stdin.
Received(d) == IF d.input = <<>> THEN <<>> ELSE Head(d.input)

Signed(bytes) == Len(bytes) > 1 /\ Head(bytes) = MINUS

\* The last byte is taken for a newline and not looked at.  One byte alone is
\* zero; of none, or of a sign alone, the loop would convert minus one, or
\* no bytes, and does not find its end.
ReadingRunsOff(bytes) == bytes = <<>> \/ (Signed(bytes) /\ Len(bytes) = 2)

\* The loop .convert_num: whatever the byte is, it counts as a digit of 8 bits.
convert_num(bytes) ==
  FoldLeft(LAMBDA number, byte : 10 * number + ((byte - ZERO) % 256), 0, bytes)

read_num(d) ==
  LET bytes  == Received(d)
      number == IF Signed(bytes) THEN - convert_num(Tail(Front(bytes)))
                ELSE convert_num(Front(bytes))
  IN  [Returning(d, number) EXCEPT !.input = Tail(@)]

\* vcvtpd2qq rounds to the nearest integer, here to that of 1000 sqrt(x / 1000),
\* and makes of what is no number the least one: here Garbage, nothing to go on with.
sqrt(d) ==
  LET x    == TopValue
      root == CHOOSE r \in 0..(x + 1000) :
                /\ r = 0 \/ (2 * r - 1) * (2 * r - 1) <= 4000 * x
                /\ 4000 * x < (2 * r + 1) * (2 * r + 1)
  IN  Returning(d, IF x < 0 THEN Garbage ELSE root)

Library(d, address) ==
  CASE address = E!STDLIB_ADDR[2] -> print_num(d)
    [] address = M!READ_ADDR      -> read_num(d)
    [] OTHER                      -> sqrt(d)

-----------------------------------------------------------------------------
(* The instructions.                                                       *)

Effect(node) ==
  LET op == node.operation
      a  == ReadOperand(node.operand1)
      b  == ReadOperand(node.operand2)
  IN  CASE op = "PUSH" -> Pushed(data, a)
        [] op = "POP"  -> Written(Popped(data, 1), node.operand1, TopValue)
        [] op = "CALL" -> IF M!IsLibraryAddress(M!JumpPc) THEN Library(data, M!JumpPc)
                          ELSE Pushed(data, Garbage)
        [] op = "RET"  -> Popped(data, 1)
        [] op = "SUB" /\ M!OnRsp ->
             [data EXCEPT !.cells = @ \o [i \in 1..M!AmountOf(node) |-> Garbage]]
        [] op = "ADD" /\ M!OnRsp -> Popped(data, M!AmountOf(node))
        [] op = "CMP"  -> [data EXCEPT !.compared = <<a, b>>]
        [] op = "TEST" -> [data EXCEPT !.compared = <<a, 0>>]
        [] op = "CMOV" -> IF Holds(node.flags) THEN Written(data, node.operand1, b) ELSE data
        [] op = "DIV"  -> Divided(data, a)
        [] op \in {"NOP", "JMP"} -> data
        [] OTHER       -> Written(data, node.operand1, Computed(op, a, b))

\* An instruction does not end: the divisor is zero, or read finds no number.
Faults ==
  \/ M!Executing("DIV") /\ ReadOperand(M!Instr.operand1) = 0
  \/ M!Executing("CALL") /\ M!JumpPc = M!READ_ADDR /\ ReadingRunsOff(Received(data))

\* A step of the machine, with the jump the flags ask for, and a fault exactly
\* when the data ask for one.
Compute ==
  /\ RunProgram
  /\ M!Executing("JMP")
       => pc' = IF Holds(M!Instr.flags) THEN M!JumpPc ELSE M!NextPc
  /\ status' \in {"running", "fault"} => (status' = "fault" <=> Faults)
  /\ data' = IF status = "running" /\ status' = "running" THEN Effect(M!Instr) ELSE data
  /\ UNCHANGED <<program, meaning>>

Compile == (Generate \/ EncodeList) /\ UNCHANGED dataVars

processorVars == <<backendVars, dataVars>>

ProcessorInit == BackendInit /\ DataInit
ProcessorNext == Compile \/ Compute \/ (Ended /\ UNCHANGED dataVars)

\* The compiler and the processor keep going.
ProcessorSpec ==
  ProcessorInit /\ [][ProcessorNext]_processorVars /\ WF_processorVars(Compile \/ Compute)

-----------------------------------------------------------------------------

\* The result of the compiled program is that of the source: each text it has
\* printed is a line with the number that was to be printed.
ResultsAgree ==
  meaning.outcome # "undefined" =>
    /\ Len(data.printed) = Len(meaning.printed)
    /\ \A i \in 1..Len(data.printed) :
         IsNumeral(data.printed[i]) /\ NumberIn(data.printed[i]) = meaning.printed[i]
    /\ IF meaning.outcome = "stopped" THEN status = "fault"
       ELSE status = "exited" /\ data.regs["RDI"] = meaning.value

Answers == INSTANCE Verdict WITH
  Accepts <- LAMBDA p : TRUE,
  verdict <- CASE phase # "failed" /\ status \in {"off", "running"} -> "none"
               [] phase # "failed" /\ ResultsAgree -> "done"
               [] OTHER -> "failed"

\* A program is compiled, the compiled program ends, and it has printed and
\* returned what the source says: operands in their order, numbers scaled,
\* conditions and jumps the right way round, each variable in its own place.
ComputesMeaning == Answers!VerdictSpec
=============================================================================
