-------------------------- MODULE IntermediateRepr --------------------------
(***************************************************************************)
(* The intermediate representation (ir.h, ir_dsl.h).  An ir_node lives in  *)
(* a heap, a sequence that grows with each calloc; a pointer is an index   *)
(* into it and 0 is the null pointer.  Only the fields the code generator  *)
(* writes are here: the encoder's (addr, encoded_length, bytes) are the    *)
(* variables of module Encoder.                                            *)
(***************************************************************************)
EXTENDS Integers, Sequences

NIL == 0

ir_op == {"NOP", "MOV", "CMOV", "PUSH", "POP", "ADD", "SUB", "MUL", "DIV",
          "NEG", "AND", "OR", "XOR", "NOT", "CMP", "TEST", "JMP", "CALL",
          "RET", "SYSCALL"}
ir_cond_flags == {"NONE", "GREATER", "NOT_GREATER", "LESS", "NOT_LESS",
                  "EQUAL", "NOT_EQUAL"}
ir_reg == {"NONE", "RAX", "RBX", "RDX", "RDI", "RSP", "RBP"}

ir_operand == [flags : SUBSET {"IMM", "REG", "MEM"}, reg : ir_reg, immediate : Int]

operand_none   == [flags |-> {}, reg |-> "NONE", immediate |-> 0]
operand_reg(r) == [flags |-> {"REG"}, reg |-> r, immediate |-> 0]
operand_imm(i) == [flags |-> {"IMM"}, reg |-> "NONE", immediate |-> i]
operand_abs(a) == [flags |-> {"MEM", "IMM"}, reg |-> "NONE", immediate |-> a]
operand_rbp(d) == [flags |-> {"MEM", "IMM", "REG"}, reg |-> "RBP", immediate |-> d]
operand_top    == [flags |-> {"MEM", "REG"}, reg |-> "RSP", immediate |-> 0]

IrNode == [operation : ir_op, operand1 : ir_operand, operand2 : ir_operand,
           flags : ir_cond_flags, jump_target : Nat]

instruction(op, dst, src, cond, target) ==
  [operation |-> op, operand1 |-> dst, operand2 |-> src,
   flags |-> cond, jump_target |-> target]

new_empty             == instruction("NOP", operand_none, operand_none, "NONE", NIL)
new_binary(op, d, s)  == instruction(op, d, s, "NONE", NIL)
new_unary(op, d)      == new_binary(op, d, operand_none)
new_push_reg(r)       == new_unary("PUSH", operand_reg(r))
new_pop_reg(r)        == new_unary("POP", operand_reg(r))
new_jmp(cond, target) == instruction("JMP", operand_none, operand_none, cond, target)
new_call(function)    == instruction("CALL", operand_none, operand_none, "NONE", function)
new_ret               == new_unary("RET", operand_none)
new_syscall           == new_unary("SYSCALL", operand_none)

\* A push or pop whose operand is a slot of the current frame, and the
\* distance of that slot below RBP.
IsLocalAccess(node) ==
  node.operand1.flags = {"MEM", "IMM", "REG"} /\ node.operand1.reg = "RBP"
SlotOf(node) == - node.operand1.immediate
IsGlobalAccess(node) == node.operand1.flags = {"MEM", "IMM"}

\* Mutant: the node is put in front of the other.
insert_after_before(list, old, new) ==
  LET at == CHOOSE i \in 1..Len(list) : list[i] = old
  IN  SubSeq(list, 1, at - 1) \o <<new>> \o SubSeq(list, at, Len(list))

\* The list of the nodes that follow `head`, in order; ir_list_insert_after
\* puts a node behind one that is already in it.
insert_after(list, old, new) ==
  LET at == CHOOSE i \in 1..Len(list) : list[i] = old
  IN  SubSeq(list, 1, at) \o <<new>> \o SubSeq(list, at + 1, Len(list))
=============================================================================
