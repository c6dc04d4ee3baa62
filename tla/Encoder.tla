------------------------------- MODULE Encoder -------------------------------
(***************************************************************************)
(* The encoder of the backend (ir_bin_cvt.cpp): two passes over the list.  *)
(* The first encodes each node and gives it an address; the second, when   *)
(* all addresses are known, writes the displacements of jumps and calls.   *)
(* Of the bytes themselves only their number is modelled.                  *)
(***************************************************************************)
EXTENDS IntermediateRepr

VARIABLES
  heap, list,       \* the code generator's result: only read here
  pass,             \* "idle", "opcodes", "jumps" or "encoded"
  at,               \* the position of the node `current` in the list
  cur_addr,         \* ir_fill_opcodes: address of the next node
  addr,             \* addresses given so far; a node without one has 0
  encoded_length,   \* lengths of the nodes encoded so far
  patched           \* displacements written: value and where it starts

encoderVars == <<pass, at, cur_addr, addr, encoded_length, patched>>

BASE_OFFSET == 4194563      \* 0x400103: the standard library is linked before

STDLIB_ADDR ==
  [id \in 2..4 |-> CASE id = 2 -> 4194304 [] id = 3 -> 4194412 [] id = 4 -> 4194506]

\* A field of one more node is written.
With(field, id, value) ==
  [node \in DOMAIN field \cup {id} |-> IF node = id THEN value ELSE field[node]]

AddrOf(id) == IF id \in DOMAIN addr THEN addr[id] ELSE 0

IsReg(operand) == operand.flags = {"REG"}
IsImm(operand) == operand.flags = {"IMM"}
IsMem(operand) == "MEM" \in operand.flags

\* ADD, SUB, AND, OR, XOR, CMP and TEST: the same forms, the same lengths.
two_operand_length(dst, src) ==
  IF IsImm(src) THEN (IF IsReg(dst) THEN 7 ELSE 12)
  ELSE IF IsReg(dst) /\ IsReg(src) THEN 3 ELSE 8

mov_length(dst, src) ==
  IF IsImm(src) THEN (IF IsReg(dst) THEN 10 ELSE 16)
  ELSE IF IsReg(dst) /\ IsReg(src) THEN 3 ELSE 8

mul_length(dst, src) ==
  IF IsMem(dst) THEN 1
  ELSE IF IsImm(src) THEN 7
  ELSE IF IsReg(dst) /\ IsReg(src) THEN 4 ELSE 8

cmov_length(dst, src) == IF IsReg(dst) /\ IsReg(src) THEN 4 ELSE 9

push_length(dst) == IF IsReg(dst) THEN 2 ELSE 8     \* and POP
neg_length(dst)  == IF IsReg(dst) THEN 3 ELSE 8     \* and NOT
div_length(dst)  == IF IsReg(dst) THEN 5 ELSE 10    \* cqo, then idiv

control_length(op, cond) ==
  CASE op = "RET"     -> 1
    [] op = "SYSCALL" -> 2
    [] op = "CALL"    -> 5
    [] op = "JMP"     -> IF cond = "NONE" THEN 5 ELSE 6

length_of(node) ==
  LET op  == node.operation
      dst == node.operand1
      src == node.operand2
  IN  CASE op = "NOP"              -> 1
        [] op \in {"RET", "SYSCALL", "CALL", "JMP"} -> control_length(op, node.flags)
        [] op \in {"PUSH", "POP"}  -> push_length(dst)
        [] op \in {"NEG", "NOT"}   -> neg_length(dst)
        [] op = "DIV"              -> div_length(dst)
        [] op = "MOV"              -> mov_length(dst, src)
        [] op = "CMOV"             -> cmov_length(dst, src)
        [] op = "MUL"              -> mul_length(dst, src)
        [] OTHER                   -> two_operand_length(dst, src)

current == list[at]

EncoderInit ==
  /\ pass = "idle"
  /\ at = 0
  /\ cur_addr = 0
  /\ addr = STDLIB_ADDR
  /\ encoded_length = <<>>
  /\ patched = <<>>

\* ir_to_binary is called.
start_encoding ==
  /\ pass = "idle"
  /\ pass' = "opcodes"
  /\ at' = 1
  /\ cur_addr' = BASE_OFFSET
  /\ UNCHANGED <<addr, encoded_length, patched>>

\* One iteration of ir_fill_opcodes.
fill_opcode ==
  /\ pass = "opcodes"
  /\ at <= Len(list)
  /\ encoded_length' = With(encoded_length, current, length_of(heap[current]))
  /\ addr' = With(addr, current, cur_addr)
  /\ cur_addr' = cur_addr + length_of(heap[current])
  /\ at' = at + 1
  /\ UNCHANGED <<pass, patched>>

start_jumps ==
  /\ pass = "opcodes"
  /\ at > Len(list)
  /\ pass' = "jumps"
  /\ at' = 1
  /\ UNCHANGED <<cur_addr, addr, encoded_length, patched>>

\* Mutant: conditional jumps are taken to have an opcode of one byte too.
opcode_length_of_jmp(node) == 1

\* Where the displacement of a jump or call starts in its bytes.
opcode_length(node) == IF node.operation = "JMP" /\ node.flags # "NONE" THEN 2 ELSE 1

\* Mutant: the displacement counts from the start of the instruction.
displacement_from_start(id, target) == - (addr[id] - AddrOf(target))

displacement(id, target) == - (addr[id] + encoded_length[id] - AddrOf(target))

\* One iteration of ir_update_jumps.
update_jump ==
  /\ pass = "jumps"
  /\ at <= Len(list)
  /\ LET node   == heap[current]
         offset == IF node.jump_target = NIL
                     THEN 0 ELSE displacement(current, node.jump_target)
     IN  patched' = IF node.operation \in {"JMP", "CALL"}
                      THEN With(patched, current,
                                [start |-> opcode_length(node), value |-> offset])
                      ELSE patched
  /\ at' = at + 1
  /\ UNCHANGED <<pass, cur_addr, addr, encoded_length>>

jumps_updated ==
  /\ pass = "jumps"
  /\ at > Len(list)
  /\ pass' = "encoded"
  /\ UNCHANGED <<at, cur_addr, addr, encoded_length, patched>>

Encode == start_encoding \/ fill_opcode \/ start_jumps \/ update_jump \/ jumps_updated
=============================================================================
