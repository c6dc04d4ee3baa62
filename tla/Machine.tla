------------------------------- MODULE Machine -------------------------------
(***************************************************************************)
(* The processor that runs the generated code, as far as control and the   *)
(* stack go.  Instructions are fetched by the address the encoder gave     *)
(* them and jump by the displacement it wrote.  A stack cell has a kind:   *)
(* what was pushed there.  Data are left out, so a conditional jump may go *)
(* either way, and a standard library function just returns or, if it is   *)
(* read, may run off the stack.  The processor checks nothing it takes     *)
(* from the stack: where the code finds another cell than it counts on,    *)
(* the program has gone astray, and the model follows it no further.       *)
(***************************************************************************)
EXTENDS IntermediateRepr

CONSTANT MaxStack           \* cells after which the process runs out of stack

VARIABLES
  heap, list, addr, encoded_length, patched,  \* the encoded program
  status,                   \* "off", "running", "exited", "fault", "overflow" or "astray"
  pc, rbp, stack            \* the stack grows to the right; rbp is an index

machineVars == <<status, pc, rbp, stack>>

Value       == [kind |-> "value", saved |-> 0]
FrameCell   == [kind |-> "frame", saved |-> 0]
SavedRbp(v) == [kind |-> "rbp", saved |-> v]
ReturnTo(a) == [kind |-> "return", saved |-> a]

Fetch == list[CHOOSE i \in 1..Len(list) : addr[list[i]] = pc]
Instr == heap[Fetch]
NextPc == pc + encoded_length[Fetch]
JumpPc == NextPc + patched[Fetch].value

StackTop == stack[Len(stack)]
Dropped(n) == SubSeq(stack, 1, Len(stack) - n)
Cells(n) == [i \in 1..n |-> FrameCell]

OnRsp == Instr.operand1 = operand_reg("RSP")
OnRbp == Instr.operand1 = operand_reg("RBP")
AmountOf(node) == node.operand2.immediate \div 8

MachineInit == status = "off" /\ pc = 0 /\ rbp = 0 /\ stack = <<>>

\* The loader jumps to e_entry, the address of ir_head.
boot ==
  /\ status = "off"
  /\ status' = "running"
  /\ pc' = addr[list[1]]
  /\ UNCHANGED <<rbp, stack>>

Executing(op) == status = "running" /\ Instr.operation = op

Step(new_pc, new_stack) ==
  /\ pc' = new_pc
  /\ stack' = new_stack
  /\ UNCHANGED <<status, rbp>>

Halt(reason) == status' = reason /\ UNCHANGED <<pc, rbp, stack>>

exec_push ==
  /\ Executing("PUSH")
  /\ Len(stack) < MaxStack
  /\ Step(NextPc, Append(stack, IF OnRbp THEN SavedRbp(rbp) ELSE Value))

exec_pop ==
  /\ Executing("POP")
  /\ stack # <<>>
  /\ IF OnRbp
       THEN /\ StackTop.kind = "rbp"
            /\ rbp' = StackTop.saved
            /\ pc' = NextPc
            /\ stack' = Dropped(1)
            /\ UNCHANGED status
       ELSE Step(NextPc, Dropped(1))

exec_enter_frame ==
  /\ Executing("MOV")
  /\ OnRbp
  /\ rbp' = Len(stack)
  /\ pc' = NextPc
  /\ UNCHANGED <<status, stack>>

exec_reserve ==
  /\ Executing("SUB")
  /\ OnRsp
  /\ Len(stack) + AmountOf(Instr) <= MaxStack
  /\ Step(NextPc, stack \o Cells(AmountOf(Instr)))

exec_release ==
  /\ Executing("ADD")
  /\ OnRsp
  /\ AmountOf(Instr) <= Len(stack)
  /\ Step(NextPc, Dropped(AmountOf(Instr)))

IsProgramAddress(a) == \E i \in 1..Len(list) : addr[list[i]] = a

READ_ADDR == addr[3]        \* the third node of the library: state_ctor

\* An address the encoder knows of a node that is not in the list.
IsLibraryAddress(a) ==
  \E id \in DOMAIN addr : addr[id] = a /\ \A i \in 1..Len(list) : list[i] # id

exec_call ==
  /\ Executing("CALL")
  /\ ~ IsLibraryAddress(JumpPc)
  /\ Len(stack) < MaxStack
  /\ Step(JumpPc, Append(stack, ReturnTo(NextPc)))

\* print, read and sqrt leave the stack as it was when they return.
exec_call_stdlib ==
  /\ Executing("CALL")
  /\ IsLibraryAddress(JumpPc)
  /\ Len(stack) < MaxStack
  /\ Step(NextPc, stack)

\* read_num converts bytes until its counter is zero, which it is not any
\* more when the system call gave no byte, or one that is a sign and no digit
\* behind it: it goes on behind the end of the stack.  What stdin has is data.
read_fault ==
  /\ Executing("CALL")
  /\ JumpPc = READ_ADDR
  /\ Len(stack) < MaxStack
  /\ Halt("fault")

exec_ret ==
  /\ Executing("RET")
  /\ stack # <<>>
  /\ StackTop.kind = "return"
  /\ Step(StackTop.saved, Dropped(1))

exec_jmp ==
  /\ Executing("JMP")
  /\ Step(JumpPc, stack)

exec_no_jmp ==
  /\ Executing("JMP")
  /\ Instr.flags # "NONE"
  /\ Step(NextPc, stack)

\* Registers, flags and the cell on top of the stack: no change of control.
exec_data ==
  /\ status = "running"
  /\ Instr.operation \notin {"PUSH", "POP", "CALL", "RET", "JMP", "SYSCALL"}
  /\ ~ OnRsp
  /\ ~ (Instr.operation = "MOV" /\ OnRbp)
  /\ Step(NextPc, stack)

\* Whether the divisor is zero is data.
trap ==
  /\ Executing("DIV")
  /\ Halt("fault")

exec_exit ==
  /\ Executing("SYSCALL")
  /\ Halt("exited")

\* A return to a cell that holds no return address, an RBP that is no saved
\* one, or a pop from below the first cell of the program: pop rbp and ret take
\* whatever number is there, and from then on nothing is known of control.
stray ==
  /\ \/ Executing("POP") /\ stack = <<>>
     \/ Executing("POP") /\ OnRbp /\ stack # <<>> /\ StackTop.kind # "rbp"
     \/ Executing("ADD") /\ OnRsp /\ AmountOf(Instr) > Len(stack)
     \/ Executing("RET") /\ (stack = <<>> \/ StackTop.kind # "return")
  /\ Halt("astray")

overflow ==
  /\ \/ (Executing("PUSH") \/ Executing("CALL")) /\ Len(stack) = MaxStack
     \/ Executing("SUB") /\ OnRsp /\ Len(stack) + AmountOf(Instr) > MaxStack
  /\ Halt("overflow")

Execute ==
  \/ boot
  \/ exec_push \/ exec_pop \/ exec_enter_frame \/ exec_reserve \/ exec_release
  \/ exec_call \/ exec_call_stdlib \/ exec_ret \/ exec_jmp \/ exec_no_jmp
  \/ exec_data \/ trap \/ read_fault \/ exec_exit \/ stray \/ overflow
=============================================================================
