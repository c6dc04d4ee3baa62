------------------------------ MODULE CodeGenInv ------------------------------
(***************************************************************************)
(* The inductive invariants of the code generator: what relates the        *)
(* recursion of compile_node to the state its handlers share (IInv), to    *)
(* the code they have emitted (CodeInv), and to where in the list the code *)
(* of each function lies (RegionInv).                                      *)
(***************************************************************************)
EXTENDS CodeGenProps

(* The trees.                                                              *)

ExpressionPart == Expression \cup {"PAR"}
BodyPart       == Statement \cup Expression \cup {"SEQ", "BRANCH", "PAR"}

\* Where a recursion can be: in the initializer of a global variable, among
\* the parameters of a function, or in its body, which is a block.
WalkShape ==
  walk # <<>> =>
    /\ walk[1].node.type \in {"NVAR", "NFUN"}
    /\ walk[1].node.type = "NVAR" =>
         \A i \in 2..Len(walk) : walk[i].node.type \in ExpressionPart
    /\ walk[1].node.type = "NFUN" /\ Len(walk) > 1 =>
         \/ /\ walk[1].stage = COMPILED_LEFT
            /\ \A i \in 2..Len(walk) : walk[i].node.type = "ARG"
         \/ /\ walk[1].stage = COMPILED_RIGHT
            /\ walk[2].node.type = "BLOCK"
            /\ \A i \in 2..Len(walk) : walk[i].node.type \in BodyPart

\* What is declared is a function of the tree, with a node to jump to.
FunctionTable ==
  /\ cursor # NULL => cursor.type = "DEFS"
  /\ \A i \in 1..Len(functions) :
       /\ functions[i].ir_list_head \in 1..Len(heap)
       /\ functions[i].node # NULL =>
            /\ functions[i].node.type = "NFUN"
            /\ functions[i].node.value = functions[i].name

\* The function being compiled: its return node is there until the epilogue,
\* and by then its body has been a block and made the frame at least a slot.
CurrentFunction ==
  walk # <<>> /\ walk[1].node.type = "NFUN" =>
    /\ Defined(walk[1].node.value)
    /\ walk[1].stage > COMPILING_LEFT => func_return # NIL
    /\ walk[1].stage = COMPILED_RIGHT /\ Len(walk) = 1 => stack_frame_size >= SLOT

\* The number of nodes waiting to be patched is what the open constructs need,
\* and each of them is linked.
PatchStack ==
  /\ Len(ir_stack) = Cardinality(Open("NFUN", COMPILED_LEFT))
                       + Cardinality(Open("WHILE", COMPILED_LEFT))
                       + Cardinality(Open("WHILE", COMPILING_RIGHT))
                       + Cardinality(Open("BRANCH", COMPILED_LEFT))
  /\ \A i \in 1..Len(ir_stack) : \E j \in 1..Len(list) : list[j] = ir_stack[i]

\* The global table, then a parameter table without variables, then the local
\* tables, each behind the end of those outside it.
LaidOut(tables) ==
  /\ tables[1].is_global
  /\ \A t \in 2..Len(tables) : ~ tables[t].is_global
  /\ Len(tables) >= 2 => tables[2].vars = <<>>
  /\ \A t \in 3..Len(tables) :
       /\ tables[t].offset >= SLOT
       /\ \A u \in (t + 1)..Len(tables) : TableEnd(tables[t]) <= tables[u].offset

ScopeLayout == LaidOut(name_scope)

IInv ==
  /\ TypeOK
  /\ list # <<>>
  /\ WalkShape
  /\ FunctionTable
  /\ CurrentFunction
  /\ ScopesMatchWalk
  /\ PatchStack
  /\ ScopeLayout

-----------------------------------------------------------------------------
(* The list of nodes and those that are not in it yet.                     *)

\* Each activation of compile_node was called by the one below it.
WalkLinked ==
  \A i \in 1..(Len(walk) - 1) :
    \/ walk[i].stage = COMPILED_LEFT /\ walk[i + 1].node = walk[i].node.left
    \/ walk[i].stage = COMPILED_RIGHT /\ walk[i + 1].node = walk[i].node.right

\* Functions have names and heads of their own and are compiled in their order.
FunctionOrder ==
  /\ \A i, j \in 1..Len(functions) :
       \/ functions[i].name = functions[j].name
       \/ functions[i].ir_list_head = functions[j].ir_list_head
       => i = j
  /\ phase = "declarations" => next_func = 1
  /\ phase = "done" => walk = <<>> /\ next_func > Len(functions)
  /\ walk # <<>> /\ walk[1].node.type = "NVAR" => next_func = 1
  /\ walk # <<>> /\ walk[1].node.type = "NFUN" =>
       /\ next_func - 1 \in 1..Len(functions)
       /\ walk[1].node = functions[next_func - 1].node

\* The code of function k has not been begun, and never will be if k is of the
\* standard library.
Waiting(k) ==
  \/ functions[k].node = NULL
  \/ k >= next_func
  \/ k = next_func - 1 /\ walk # <<>> /\ walk[1].stage = COMPILING_LEFT

\* A node is linked once; the heads of functions and the node returns jump to
\* are allocated early, are not in the list until their code is, and are
\* empty until then.
ListInv ==
  /\ \A i, j \in 1..Len(list) : list[i] = list[j] => i = j
  /\ \A k \in 1..Len(functions) :
       Waiting(k) => /\ ~ Listed(functions[k].ir_list_head)
                     /\ heap[functions[k].ir_list_head] = new_empty
  /\ func_return # NIL =>
       /\ ~ Listed(func_return)
       /\ heap[func_return] = new_empty
       /\ \A k \in 1..Len(functions) : functions[k].ir_list_head # func_return

\* A call was the subtree just compiled: its value was pushed last.
CallCompiled ==
  /\ walk # <<>>
  /\ \/ Top.stage = COMPILED_LEFT /\ TypeOf(Top.node.left) = "CALL"
     \/ Top.stage = COMPILED_RIGHT /\ TypeOf(Top.node.right) = "CALL"

CallAtTail ==
  CallCompiled =>
    /\ Len(list) >= 2
    /\ ErasedCall(heap[ir_tail], heap[list[Len(list) - 1]], new_empty)

CodeInv ==
  /\ WalkLinked
  /\ FunctionOrder
  /\ ListInv
  /\ CallAtTail
  /\ PatchStackMatchesWalk

-----------------------------------------------------------------------------
(* Where the code of each function lies in the list.                       *)

InFunction ==
  walk # <<>> /\ walk[1].node.type = "NFUN" /\ walk[1].stage > COMPILING_LEFT

\* The bytes the locals met so far need, and a slot more.
FrameSoFar ==
  IF Len(name_scope) >= 4
    THEN max_long(stack_frame_size, get_next_offset(name_scope)) ELSE stack_frame_size

\* The complete code of function k: one return, at its end, jumps within it,
\* and a frame for the locals it uses that is made and dropped.
Region(k, first, last) ==
  /\ first + 5 <= last
  /\ list[first] = functions[k].ir_list_head
  /\ At(last).operation = "RET"
  /\ \A i \in first..(last - 1) : At(i).operation # "RET"
  /\ \A i \in first..last : At(i).operation = "JMP" =>
       \E j \in first..last : list[j] = At(i).jump_target
  /\ \A i \in first..last : IsLocalAccess(At(i)) => SlotOf(At(i)) \in SLOT..FrameAt(first)
  /\ FrameAt(first) > 0 =>
       At(last - 2) = new_binary("ADD", operand_reg("RSP"), operand_imm(FrameAt(first)))

\* Region(k, first, last) for some first and last below start.
Placed(k, start, i) ==
  \E last \in 1..(start - 1) : \E first \in 1..last :
    i \in first..last /\ Region(k, first, last)

\* What may stand in the code of the function being compiled, from start on:
\* jumps wait for their target, go to the node all returns go to, or have it.
Unfinished(node, id, start) ==
  /\ node.operation # "RET"
  /\ node.operation = "SUB" => node.operand1 # operand_reg("RSP")
  /\ IsLocalAccess(node) => SlotOf(node) \in SLOT..(FrameSoFar - SLOT)
  /\ node.operation = "JMP" =>
       \/ node.jump_target = NIL /\ \E e \in 1..Len(ir_stack) : ir_stack[e] = id
       \/ node.jump_target = func_return
       \/ \E j \in start..Len(list) : list[j] = node.jump_target

\* The code that has been begun: its head and its prologue, which waits for the
\* frame, and every node to be patched.
Begun(start) ==
  /\ InFunction =>
       /\ start + 2 <= Len(list)
       /\ list[start] = functions[next_func - 1].ir_list_head
       /\ At(start + 2).operation = "MOV"
       /\ \E e \in 1..Len(ir_stack) : ir_stack[e] = list[start + 2]
  /\ ~ InFunction => start = Len(list) + 1
  /\ \A i \in start..Len(list) : Unfinished(At(i), list[i], start)
  /\ \A e \in 1..Len(ir_stack) : \E j \in start..Len(list) : list[j] = ir_stack[e]

\* The code of the functions that are compiled, and only theirs has jumps.
Finished(start) ==
  /\ \A k \in Compiled : \E i \in 1..(start - 1) : Placed(k, start, i)
  /\ \A i \in 1..(start - 1) : At(i).operation = "JMP" =>
       \E k \in Compiled : Placed(k, start, i)

\* The code of the function being compiled, if one is, is the end of the list,
\* from start on.
CodeFrom(start) == Begun(start) /\ Finished(start)

CallsLead ==
  \A i \in 1..Len(list) : At(i).operation = "CALL" =>
    \E k \in 1..Len(functions) : At(i).jump_target = functions[k].ir_list_head

RegionInv ==
  /\ CallsLead
  /\ \E start \in 1..(Len(list) + 1) : CodeFrom(start)
=============================================================================
