------------------------------- MODULE Backend -------------------------------
(***************************************************************************)
(* compiler_tree_to_asm from end to end, and a run of the program it made: *)
(* the code generator, then the encoder, then the image and the processor. *)
(***************************************************************************)
EXTENDS CodeGenProps

CONSTANT MaxStack           \* bounds the recursion of the generated program

VARIABLES pass, at, cur_addr, addr, encoded_length, patched
VARIABLES status, pc, rbp, stack

E == INSTANCE Encoder
M == INSTANCE Machine

encoderVars == <<pass, at, cur_addr, addr, encoded_length, patched>>
machineVars == <<status, pc, rbp, stack>>
backendVars == <<vars, encoderVars, machineVars>>

BackendInit == Init /\ E!EncoderInit /\ M!MachineInit

Generate == CodeGenStep /\ UNCHANGED <<encoderVars, machineVars>>

EncodeList == phase = "done" /\ E!Encode /\ UNCHANGED <<vars, machineVars>>

RunProgram == pass = "encoded" /\ M!Execute /\ UNCHANGED <<vars, encoderVars>>

Ended ==
  /\ phase = "failed" \/ status \in {"exited", "fault", "overflow", "astray"}
  /\ UNCHANGED backendVars

BackendNext == Generate \/ EncodeList \/ RunProgram \/ Ended

BackendSpec == BackendInit /\ [][BackendNext]_backendVars

\* The compiler and the processor keep going; a conditional jump that can be
\* taken again and again is not forced either way.
FairBackendSpec == BackendSpec /\ WF_backendVars(Generate \/ EncodeList \/ RunProgram)

-----------------------------------------------------------------------------
(* The encoded list.                                                       *)

\* The encoder is done and the program has not been started: what holds of the
\* list and of the file now holds from now on, for nothing changes them.
Linked == pass = "encoded" /\ status = "off"

\* Every displacement leads from the end of its instruction to the node the
\* code generator meant, forwards or backwards, and it is written over the
\* last four bytes of the instruction and no others.
JumpsLand ==
  Linked =>
    \A i \in 1..Len(list) :
      At(i).operation \in {"JMP", "CALL"} =>
        LET jump == patched[list[i]]
            end  == addr[list[i]] + encoded_length[list[i]]
        IN  /\ E!AddrOf(At(i).jump_target) # 0
            /\ end + jump.value = E!AddrOf(At(i).jump_target)
            /\ jump.start + 4 = encoded_length[list[i]]

ELF == INSTANCE Image WITH code_end <- cur_addr

\* The program only uses memory the image gives it: instructions lie in the
\* executable segment, global variables in the writable one, and the segments
\* do not overlap while the code is smaller than a page.  README.md:536: the
\* first segment contains the binary code; it has all of it exactly as long as
\* it ends before the section names, which have a fixed place in the file.
ImageHoldsProgram ==
  Linked =>
    /\ \A i \in 1..Len(list) :
         /\ ELF!Maps(ELF!load_exec, addr[list[i]])
         /\ IsGlobalAccess(At(i)) =>
              \A byte \in 0..(SLOT - 1) :
                ELF!Maps(ELF!load_write, At(i).operand1.immediate + byte)
         /\ ELF!code_size <= ELF!PAGE => ~ ELF!Maps(ELF!load_write, addr[list[i]])
    /\ (\A i \in 1..Len(list) :
          ELF!MemoryAt(ELF!load_exec, addr[list[i]] + encoded_length[list[i]] - 1) = "code")
         <=> ELF!code_size <= ELF!PAGE

-----------------------------------------------------------------------------
(* The running program.                                                    *)

Running == status = "running"

\* A loop whose condition or body is a bare call drives the stack out of
\* balance (CallValuesDiscarded, below).  Tidy: no function has such a loop.
LooseLoop[n \in Node \cup {NULL}] ==
  /\ n # NULL
  /\ \/ n.type = "WHILE" /\ "CALL" \in {TypeOf(n.left), TypeOf(n.right)}
     \/ LooseLoop[n.left]
     \/ LooseLoop[n.right]

\* Trees are finite: a tree is loose if it or one of its parts is.
ASSUME LooseAssumption ==
  \A n \in Node :
    LooseLoop[n] <=> \/ n.type = "WHILE" /\ "CALL" \in {TypeOf(n.left), TypeOf(n.right)}
                     \/ n.left # NULL /\ LooseLoop[n.left]
                     \/ n.right # NULL /\ LooseLoop[n.right]

LooseTrees == {n \in Node : LooseLoop[n]}

Tidy == \A i \in 1..Len(functions) : functions[i].node \notin LooseTrees

\* Control of a tidy program never leaves the emitted instructions or lands
\* inside one: no jump or call leads anywhere else, and no pop rbp or ret of
\* the epilogue, which check nothing, takes anything but what was saved there.
ControlStaysInCode ==
  Tidy => /\ status # "astray"
          /\ Running => M!IsProgramAddress(pc)

ConsumesTop(node) ==
  \/ node.operation = "POP" /\ node.operand1 # operand_reg("RBP")
  \/ node.operand1 = operand_top

\* An operand is popped only where an operand was pushed: no pop of a tidy
\* program reaches into the frame, the saved RBP or the return address.
OperandsAreTemporaries ==
  Running /\ Tidy /\ ConsumesTop(M!Instr) => stack # <<>> /\ M!StackTop.kind = "value"

\* A variable's slot is a cell of the running function's own frame.
LocalsAreInFrame ==
  Running /\ Tidy /\ IsLocalAccess(M!Instr) =>
    LET cell == rbp + SlotOf(M!Instr) \div SLOT
    IN  cell \in 1..Len(stack) /\ stack[cell].kind = "frame"

\* However a function of a tidy program was left and whatever its calls and
\* loops pushed, at the end of the epilogue the stack is what it was on entry:
\* RBP is restored from where it was saved and RET finds the return address.
\* When the program exits nothing is left on the stack.
ReturnsBalanced ==
  Tidy =>
    /\ Running /\ M!Instr = new_pop_reg("RBP") => Len(stack) = rbp
    /\ Running /\ M!Instr = new_ret => stack # <<>> /\ M!StackTop.kind = "return"
    /\ status = "exited" => stack = <<>>

\* The addresses to return to, each by the depth of its cell.
ReturnAddresses ==
  [d \in {i \in 1..Len(stack) : stack[i].kind = "return"} |-> stack[d].saved]

Calls == INSTANCE CallStack WITH
  next  <- IF Running THEN M!NextPc ELSE 0,
  calls <- IF Tidy THEN ReturnAddresses ELSE <<>>

\* The calls and returns of a tidy program are a stack discipline.
ImplementsCallStack == Calls!CallStackSpec

\* README.md:264: a call used as a statement discards its value.  Whenever a
\* loop starts over, the frame of the running function is all that lies above
\* its saved RBP: no operand is left behind and none is missing.
LoopStart(id) ==
  \E i \in 1..Len(list) :
    /\ At(i).operation = "JMP"
    /\ At(i).jump_target = id
    /\ \E j \in 1..i : list[j] = id

CallValuesDiscarded ==
  Running /\ LoopStart(M!Fetch) =>
    /\ rbp <= Len(stack)
    /\ \A i \in (rbp + 1)..Len(stack) : stack[i].kind = "frame"

-----------------------------------------------------------------------------
(* The inductive invariants: what the encoder and the image rely on in the *)
(* list, what the encoder has written, and where the processor is.         *)

\* A change of RSP is by a number of bytes that is not negative, and a global
\* variable is one of those that were counted.
Sound(node) ==
  /\ node.operation \in {"ADD", "SUB"} /\ node.operand1 = operand_reg("RSP") =>
       node.operand2.immediate \in Nat
  /\ IsGlobalAccess(node) =>
       node.operand1.immediate \in GLOBAL_BASE..(GLOBAL_BASE + SLOT * (global_var_cnt - 1))

\* The functions that have no tree are those whose addresses are known.
LibraryKnown ==
  /\ \A k \in 1..Len(functions) :
       functions[k].node = NULL => functions[k].ir_list_head \in DOMAIN E!STDLIB_ADDR
  /\ \A id \in DOMAIN E!STDLIB_ADDR : \E k \in 1..Len(functions) :
       functions[k].node = NULL /\ functions[k].ir_list_head = id

GlobalsCounted ==
  /\ name_scope[1].offset = GLOBAL_BASE
  /\ Len(name_scope[1].vars) <= global_var_cnt

\* Behind the entry code, and behind every function, control never goes on.
CodeEnds ==
  phase \in {"functions", "done"} =>
    /\ walk # <<>> => walk[1].node.type = "NFUN"
    /\ walk = <<>> \/ walk[1].stage = COMPILING_LEFT =>
         At(Len(list)).operation \in {"RET", "SYSCALL"}

LinkInv ==
  /\ LibraryKnown
  /\ GlobalsCounted
  /\ CodeEnds
  /\ \A i \in 1..Len(list) : Sound(At(i))

\* How many nodes have been encoded, and how many have been passed again.
Encoded == CASE pass = "idle"    -> 0
             [] pass = "opcodes" -> at - 1
             [] OTHER            -> Len(list)
Passed  == CASE pass \in {"idle", "opcodes"} -> 0
             [] pass = "jumps"              -> at - 1
             [] pass = "encoded"            -> Len(list)

Begins(i) == addr[list[i]]
EndOf(i)  == addr[list[i]] + encoded_length[list[i]]

\* Instructions lie one behind the other, from the end of the library on.
AddressesGiven ==
  /\ DOMAIN addr = DOMAIN E!STDLIB_ADDR \cup {list[i] : i \in 1..Encoded}
  /\ DOMAIN encoded_length = {list[i] : i \in 1..Encoded}
  /\ \A id \in DOMAIN E!STDLIB_ADDR : addr[id] = E!STDLIB_ADDR[id]
  /\ pass # "idle" => cur_addr = IF Encoded = 0 THEN E!BASE_OFFSET ELSE EndOf(Encoded)
  /\ \A i \in 1..Encoded :
       /\ encoded_length[list[i]] = E!length_of(At(i))
       /\ Begins(i) = IF i = 1 THEN E!BASE_OFFSET ELSE EndOf(i - 1)
       /\ Begins(i) \in E!BASE_OFFSET..cur_addr
       /\ EndOf(i) <= cur_addr

\* Every jump and call passed again has its displacement.
DisplacementsGiven ==
  \A i \in 1..Passed : At(i).operation \in {"JMP", "CALL"} =>
    /\ list[i] \in DOMAIN patched
    /\ patched[list[i]].start = E!opcode_length(At(i))
    /\ patched[list[i]].value = E!displacement(list[i], At(i).jump_target)

EncoderInv ==
  /\ pass \in {"idle", "opcodes", "jumps", "encoded"}
  /\ pass # "idle" => phase = "done"
  /\ pass \in {"opcodes", "jumps"} => at \in 1..(Len(list) + 1)
  /\ AddressesGiven
  /\ DisplacementsGiven

Cell == [kind : {"value", "frame", "rbp", "return"}, saved : Int]

\* The processor is at an instruction, unless it has gone astray, and so is
\* what it will return to.
MachineInv ==
  /\ status \in {"off", "running", "exited", "fault", "overflow", "astray"}
  /\ status = "off" => stack = <<>>
  /\ status # "off" => pass = "encoded"
  /\ pc \in Int /\ rbp \in Int
  /\ stack \in Seq(Cell)
  /\ Running => M!IsProgramAddress(pc)
  /\ \A i \in 1..Len(stack) :
       stack[i].kind = "return" => M!IsProgramAddress(stack[i].saved)

BackendInv == LinkInv /\ EncoderInv /\ MachineInv
=============================================================================
