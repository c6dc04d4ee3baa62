------------------------------- MODULE CodeGen -------------------------------
(***************************************************************************)
(* The code generator of the backend (compiler.cpp).  compile_node walks   *)
(* the syntax tree recursively and calls a handler of the node's type at   *)
(* four stages: before and after its left subtree, before and after its    *)
(* right one.  The handlers share one compilation_state: the scope stack,  *)
(* the stack of nodes still to be patched, the list of emitted nodes and   *)
(* its tail.  A step of this module is one call of one handler; the C call *)
(* stack of compile_node is the variable `walk`.                           *)
(***************************************************************************)
EXTENDS Ast, NameScopes, IntermediateRepr, FiniteSets

CONSTANT
  Program   \* the trees the backend may be given: DEFS nodes

ASSUME ProgramAssumption == \A p \in Program : p \in Node /\ p.type = "DEFS"

ASSUME NameAssumption == {"main", "print", "read", "sqrt"} \subseteq Name

\* (long)(num * 1000): a conversion to an integer truncates towards zero.
to_fixed(num) ==
  IF ~ num.inexact THEN num.milli
  ELSE IF num.milli > 0 THEN num.milli - 1 ELSE num.milli + 1

-----------------------------------------------------------------------------

VARIABLES
  phase,            \* what compiler_tree_to_asm is doing
  error,            \* the assertion that failed, or "none"
  cursor,           \* extract_declarations: the next DEFS node
  next_func,        \* compiler_tree_to_asm: the next function to compile
  walk,             \* activations of compile_node: node and stage to run next
  functions,        \* func_array: declared functions, stdlib first
  name_scope,       \* table_stack
  block_depth, has_return, global_var_cnt, stack_frame_size,
  func_return,      \* node every return of the current function jumps to
  ir_stack,         \* nodes an open construct has yet to patch or insert at
  heap,             \* every ir_node allocated so far
  list              \* the list from ir_head to ir_tail, as heap indices

control == <<phase, error, cursor, next_func, functions>>
scoping == <<name_scope, block_depth, global_var_cnt, stack_frame_size>>
returns == <<has_return, func_return>>
code    == <<heap, list>>
vars    == <<control, walk, scoping, returns, ir_stack, code>>

\* enum compilation_stage
COMPILING_LEFT  == 0
COMPILED_LEFT   == 1
COMPILING_RIGHT == 2
COMPILED_RIGHT  == 3

Frame == [node : Node, stage : COMPILING_LEFT..COMPILED_RIGHT]

Top  == walk[Len(walk)]
ir_tail == list[Len(list)]

-----------------------------------------------------------------------------
(* compile_node: running a handler, then entering a child or returning.    *)

Enter(frames, node) ==
  IF node = NULL
    THEN frames
    ELSE Append(frames, [node |-> node, stage |-> COMPILING_LEFT])

Handling(type, stage) ==
  /\ phase \in {"declarations", "functions"}
  /\ walk # <<>>
  /\ Top.node.type = type
  /\ Top.stage = stage

Resumed == [walk EXCEPT ![Len(walk)].stage = @ + 1]

Proceed ==
  walk' = CASE Top.stage = COMPILING_LEFT  -> Enter(Resumed, Top.node.left)
            [] Top.stage = COMPILED_LEFT   -> Resumed
            [] Top.stage = COMPILING_RIGHT -> Enter(Resumed, Top.node.right)
            [] Top.stage = COMPILED_RIGHT  -> SubSeq(walk, 1, Len(walk) - 1)

\* A failed LOG_ASSERT unwinds every activation; the state is destroyed.
Fail(reason) ==
  /\ phase' = "failed"
  /\ error' = reason
  /\ UNCHANGED <<cursor, next_func, functions, walk, scoping, returns, ir_stack, code>>

-----------------------------------------------------------------------------
(* Emitting nodes.                                                         *)

\* Append nodes at the tail; h is the heap before them.
EmitTo(h, nodes) ==
  /\ heap' = h \o nodes
  /\ list' = list \o [i \in 1..Len(nodes) |-> Len(h) + i]

Emit(nodes) == EmitTo(heap, nodes)

\* Mutant: whatever the subtree was, the tail is erased.
Discarding_always(child) == [heap EXCEPT ![ir_tail] = new_empty]

\* Mutant: the value of a bare call stays on the stack.
Discarding_never(child) == heap

\* memset(ir_tail, 0, ...) when the subtree just compiled was a bare call:
\* its `push rax` becomes an empty node.
Discarding(child) ==
  IF TypeOf(child) = "CALL" THEN [heap EXCEPT ![ir_tail] = new_empty] ELSE heap

\* Mutant: the pending jump is not patched.
Patch_forgotten(h, jump, target) == h

Patch(h, jump, target) == [h EXCEPT ![jump].jump_target = target]

LastPending == ir_stack[Len(ir_stack)]

\* Mutant: the jump is made before the test, and the handler keeps the wrong node.
test_code_reordered ==
  << new_pop_reg("RAX"),
     new_jmp("EQUAL", NIL),
     new_binary("TEST", operand_reg("RAX"), operand_reg("RAX")) >>

\* Jump away when the value on top of the stack is zero.
test_code ==
  << new_pop_reg("RAX"),
     new_binary("TEST", operand_reg("RAX"), operand_reg("RAX")),
     new_jmp("EQUAL", NIL) >>

\* Mutant: locals are addressed upwards from RBP.
variable_operand_upwards(tables, name) ==
  LET var == find_var(tables, name)
  IN  IF var.is_global THEN operand_abs(var.addr) ELSE operand_rbp(var.addr)

\* The memory operand of a variable.
variable_operand(tables, name) ==
  LET var == find_var(tables, name)
  IN  IF var.is_global THEN operand_abs(var.addr) ELSE operand_rbp(- var.addr)

\* Mutant: less is less or equal.
cmp_flags_inclusive == [LT |-> "NOT_GREATER", GT |-> "GREATER", LEQ |-> "NOT_GREATER",
                        GEQ |-> "NOT_LESS", EQ |-> "EQUAL", NEQ |-> "NOT_EQUAL"]

cmp_flags == [LT |-> "LESS", GT |-> "GREATER", LEQ |-> "NOT_GREATER",
              GEQ |-> "NOT_LESS", EQ |-> "EQUAL", NEQ |-> "NOT_EQUAL"]

cmp_code(op) ==
  << new_binary("XOR", operand_reg("RDX"), operand_reg("RDX")),
     new_binary("CMP", operand_reg("RAX"), operand_reg("RBX")),
     new_binary("MOV", operand_reg("RAX"), operand_imm(1)),
     instruction("CMOV", operand_reg("RDX"), operand_reg("RAX"), cmp_flags[op], NIL),
     new_binary("MOV", operand_reg("RAX"), operand_reg("RDX")) >>

div_code ==
  << new_binary("XOR", operand_reg("RDX"), operand_reg("RDX")),
     new_unary("DIV", operand_reg("RBX")) >>

binary_code(op) ==
  << new_pop_reg("RBX"), new_pop_reg("RAX") >>
  \o (CASE op \in DOMAIN cmp_flags -> cmp_code(op)
        [] op \in {"ADD", "SUB", "AND", "OR"} ->
             << new_binary(op, operand_reg("RAX"), operand_reg("RBX")) >>
        [] op = "MUL" ->
             << new_binary("MUL", operand_reg("RAX"), operand_reg("RBX")),
                new_binary("MOV", operand_reg("RBX"), operand_imm(1000)) >> \o div_code
        [] op = "DIV" -> div_code)
  \o << new_push_reg("RAX") >>

\* Mutant: the operand is popped and the result is not pushed.
unary_code_unpushed(op) ==
  << new_pop_reg("RAX") >>
  \o (IF op = "NEG" THEN << new_unary("NEG", operand_reg("RAX")) >>
      ELSE << new_unary("NOT", operand_reg("RAX")) >>)

unary_code(op) ==
  IF op = "NEG"
    THEN << new_unary("NEG", operand_top) >>
    ELSE << new_unary("NOT", operand_top),
            new_binary("AND", operand_top, operand_imm(1)) >>

-----------------------------------------------------------------------------
(* The handlers, one action per node type and stage that does something.   *)

\* A declaration enters the innermost table, then stores like an assignment.
compile_NVAR ==
  /\ Handling("NVAR", COMPILED_RIGHT)
  /\ name_scope' = add_var(name_scope, Top.node.value)
  /\ global_var_cnt' = IF is_at_global_scope(name_scope)
                         THEN global_var_cnt + 1 ELSE global_var_cnt
  /\ Emit(<< new_unary("POP", variable_operand(name_scope', Top.node.value)) >>)
  /\ Proceed
  /\ UNCHANGED <<control, block_depth, stack_frame_size, returns, ir_stack>>

compile_ASS ==
  /\ Handling("ASS", COMPILED_RIGHT)
  /\ Visible(name_scope, Top.node.value)
  /\ Emit(<< new_unary("POP", variable_operand(name_scope, Top.node.value)) >>)
  /\ Proceed
  /\ UNCHANGED <<control, scoping, returns, ir_stack>>

compile_VAR ==
  /\ Handling("VAR", COMPILED_RIGHT)
  /\ Visible(name_scope, Top.node.value)
  /\ Emit(<< new_unary("PUSH", variable_operand(name_scope, Top.node.value)) >>)
  /\ Proceed
  /\ UNCHANGED <<control, scoping, returns, ir_stack>>

UndefinedVariable ==
  /\ Handling("ASS", COMPILED_RIGHT) \/ Handling("VAR", COMPILED_RIGHT)
  /\ ~ Visible(name_scope, Top.node.value)
  /\ Fail("undefined variable")

compile_CONST ==
  /\ Handling("CONST", COMPILED_RIGHT)
  /\ Emit(<< new_binary("MOV", operand_reg("RAX"), operand_imm(to_fixed(Top.node.num))),
             new_push_reg("RAX") >>)
  /\ Proceed
  /\ UNCHANGED <<control, scoping, returns, ir_stack>>

\* The dividend is scaled before the divisor is evaluated.
compile_OP_dividend ==
  /\ Handling("OP", COMPILED_LEFT)
  /\ Top.node.value = "DIV"
  /\ Emit(<< new_pop_reg("RAX"),
             new_binary("MUL", operand_reg("RAX"), operand_imm(1000)),
             new_push_reg("RAX") >>)
  /\ Proceed
  /\ UNCHANGED <<control, scoping, returns, ir_stack>>

compile_OP ==
  /\ Handling("OP", COMPILED_RIGHT)
  /\ Emit(IF Top.node.value \in {"NOT", "NEG"}
            THEN unary_code(Top.node.value) ELSE binary_code(Top.node.value))
  /\ Proceed
  /\ UNCHANGED <<control, scoping, returns, ir_stack>>

\* func_array_find_func: the first function of that name.
Defined(name) == \E i \in 1..Len(functions) : functions[i].name = name

func_array_find_func(name) ==
  functions[CHOOSE i \in 1..Len(functions) :
              /\ functions[i].name = name
              /\ \A j \in 1..(i - 1) : functions[j].name # name]

\* Mutant: an argument is taken to fill two slots.
free_arguments_twice(args) ==
  IF args > 0
    THEN << new_binary("ADD", operand_reg("RSP"), operand_imm(2 * SLOT * args)) >>
    ELSE <<>>

\* The caller drops what it pushed for the callee.
free_arguments(args) ==
  IF args > 0
    THEN << new_binary("ADD", operand_reg("RSP"), operand_imm(SLOT * args)) >>
    ELSE <<>>

compile_CALL ==
  /\ Handling("CALL", COMPILED_RIGHT)
  /\ Defined(Top.node.value)
  /\ LET func == func_array_find_func(Top.node.value)
         args == ChainOf(Top.node.right)
     IN  /\ func.arg_cnt = args
         /\ Emit(<< new_call(func.ir_list_head) >> \o free_arguments(args)
                 \o << new_push_reg("RAX") >>)
  /\ Proceed
  /\ UNCHANGED <<control, scoping, returns, ir_stack>>

UndefinedFunction ==
  /\ Handling("CALL", COMPILED_RIGHT)
  /\ ~ Defined(Top.node.value)
  /\ Fail("undefined function")

WrongArgumentCount ==
  /\ Handling("CALL", COMPILED_RIGHT)
  /\ Defined(Top.node.value)
  /\ func_array_find_func(Top.node.value).arg_cnt # ChainOf(Top.node.right)
  /\ Fail("argument count")

\* Mutant: a return counts however deep it stands.
compile_RET_anywhere ==
  /\ Handling("RET", COMPILED_RIGHT)
  /\ has_return' = TRUE
  /\ Emit(<< new_pop_reg("RAX"), new_jmp("NONE", func_return) >>)
  /\ Proceed
  /\ UNCHANGED <<control, scoping, func_return, ir_stack>>

\* A return counts as the function's own when it stands at block depth 1.
compile_RET ==
  /\ Handling("RET", COMPILED_RIGHT)
  /\ has_return' = (has_return \/ block_depth = 1)
  /\ Emit(<< new_pop_reg("RAX"), new_jmp("NONE", func_return) >>)
  /\ Proceed
  /\ UNCHANGED <<control, scoping, func_return, ir_stack>>

compile_SEQ ==
  /\ Handling("SEQ", COMPILED_LEFT)
  /\ EmitTo(Discarding(Top.node.left), <<>>)
  /\ Proceed
  /\ UNCHANGED <<control, scoping, returns, ir_stack>>

compile_BLOCK_begin ==
  /\ Handling("BLOCK", COMPILING_RIGHT)
  /\ block_depth' = block_depth + 1
  /\ name_scope' = add_table(name_scope, get_next_offset(name_scope))
  /\ Proceed
  /\ UNCHANGED <<control, global_var_cnt, stack_frame_size, returns, ir_stack, code>>

\* Mutants: the frame shrinks to the smallest block, or is that of the last one.
max_long_smallest(a, b) == IF a > b THEN b ELSE a
max_long_last(a, b) == b

max_long(a, b) == IF a > b THEN a ELSE b

compile_BLOCK_end ==
  /\ Handling("BLOCK", COMPILED_RIGHT)
  /\ block_depth' = block_depth - 1
  /\ stack_frame_size' = max_long(stack_frame_size, get_next_offset(name_scope))
  /\ name_scope' = pop_table(name_scope)
  /\ Proceed
  /\ UNCHANGED <<control, global_var_cnt, returns, ir_stack, code>>

\* The start of the loop: the node the body will jump back to.
compile_WHILE_start ==
  /\ Handling("WHILE", COMPILING_LEFT)
  /\ Emit(<< new_empty >>)
  /\ ir_stack' = Append(ir_stack, Len(heap) + 1)
  /\ Proceed
  /\ UNCHANGED <<control, scoping, returns>>

compile_WHILE_test ==
  /\ Handling("WHILE", COMPILED_LEFT)
  /\ EmitTo(Discarding(Top.node.left), test_code)
  /\ ir_stack' = Append(ir_stack, Len(heap) + 3)
  /\ Proceed
  /\ UNCHANGED <<control, scoping, returns>>

\* end_node is allocated first, linked last.
compile_WHILE_end ==
  /\ Handling("WHILE", COMPILED_RIGHT)
  /\ LET end   == Len(heap) + 1
         start == ir_stack[Len(ir_stack) - 1]
     IN  /\ heap' = Patch(heap, LastPending, end) \o << new_empty, new_jmp("NONE", start) >>
         /\ list' = list \o << end + 1, end >>
  /\ ir_stack' = SubSeq(ir_stack, 1, Len(ir_stack) - 2)
  /\ Proceed
  /\ UNCHANGED <<control, scoping, returns>>

\* The condition was compiled as the left subtree of the IF above.
compile_BRANCH_test ==
  /\ Handling("BRANCH", COMPILING_LEFT)
  /\ Emit(test_code)
  /\ ir_stack' = Append(ir_stack, Len(heap) + 3)
  /\ Proceed
  /\ UNCHANGED <<control, scoping, returns>>

compile_BRANCH_else ==
  /\ Handling("BRANCH", COMPILED_LEFT)
  /\ LET else == Len(heap) + 1
     IN  /\ heap' = Patch(Discarding(Top.node.left), LastPending, else)
                      \o << new_empty, new_jmp("NONE", NIL) >>
         /\ list' = list \o << else + 1, else >>
         /\ ir_stack' = [ir_stack EXCEPT ![Len(ir_stack)] = else + 1]
  /\ Proceed
  /\ UNCHANGED <<control, scoping, returns>>

compile_BRANCH_end ==
  /\ Handling("BRANCH", COMPILED_RIGHT)
  /\ EmitTo(Patch(Discarding(Top.node.right), LastPending, Len(heap) + 1), << new_empty >>)
  /\ ir_stack' = SubSeq(ir_stack, 1, Len(ir_stack) - 1)
  /\ Proceed
  /\ UNCHANGED <<control, scoping, returns>>

\* Prologue.  self->ir_list_head was allocated when the function was declared;
\* func_return is allocated now and linked when the body is compiled.
compile_NFUN_begin ==
  /\ Handling("NFUN", COMPILING_LEFT)
  /\ LET self == func_array_find_func(Top.node.value)
         push == Len(heap) + 1
         mov  == Len(heap) + 2
     IN  /\ name_scope' = add_table(name_scope, - SLOT - SLOT * self.arg_cnt)
         /\ heap' = heap \o << new_push_reg("RBP"),
                               new_binary("MOV", operand_reg("RBP"), operand_reg("RSP")),
                               new_empty >>
         /\ list' = list \o << self.ir_list_head, push, mov >>
         /\ ir_stack' = Append(ir_stack, mov)
         /\ func_return' = mov + 1
  /\ has_return' = FALSE
  /\ stack_frame_size' = 0
  /\ Proceed
  /\ UNCHANGED <<control, block_depth, global_var_cnt>>

compile_NFUN_body ==
  /\ Handling("NFUN", COMPILED_LEFT)
  /\ name_scope' = add_table(name_scope, SLOT)
  /\ Proceed
  /\ UNCHANGED <<control, block_depth, global_var_cnt, stack_frame_size, returns,
                 ir_stack, code>>

\* Epilogue.  The frame is made behind the prologue, in the middle of the
\* list, now that its size is known.
compile_NFUN_end ==
  /\ Handling("NFUN", COMPILED_RIGHT)
  /\ has_return
  /\ LET frame   == stack_frame_size - SLOT
         create  == new_binary("SUB", operand_reg("RSP"), operand_imm(frame))
         destroy == new_binary("ADD", operand_reg("RSP"), operand_imm(frame))
         leave   == << new_pop_reg("RBP"), new_ret >>
         n       == Len(heap)
     IN  /\ stack_frame_size' = frame
         /\ IF frame > 0
              THEN /\ heap' = heap \o << create, destroy >> \o leave
                   /\ list' = insert_after(Append(list, func_return), LastPending, n + 1)
                                \o << n + 2, n + 3, n + 4 >>
              ELSE /\ heap' = heap \o leave
                   /\ list' = list \o << func_return, n + 1, n + 2 >>
  /\ has_return' = FALSE
  /\ func_return' = NIL
  /\ name_scope' = pop_table(pop_table(name_scope))
  /\ ir_stack' = SubSeq(ir_stack, 1, Len(ir_stack) - 1)
  /\ Proceed
  /\ UNCHANGED <<control, block_depth, global_var_cnt>>

MissingReturn ==
  /\ Handling("NFUN", COMPILED_RIGHT)
  /\ ~ has_return
  /\ Fail("no return")

\* The pairs of a node and a stage at which the handler has work to do.
Acts(node, stage) ==
  \/ /\ node.type \in {"NVAR", "ASS", "VAR", "CONST", "CALL", "RET", "OP", "BLOCK"}
     /\ stage = COMPILED_RIGHT
  \/ node.type = "OP" /\ node.value = "DIV" /\ stage = COMPILED_LEFT
  \/ node.type = "SEQ" /\ stage = COMPILED_LEFT
  \/ node.type = "BLOCK" /\ stage = COMPILING_RIGHT
  \/ node.type \in {"WHILE", "BRANCH", "NFUN"} /\ stage # COMPILING_RIGHT

\* The other handlers return true at once.  compile_ARG is one of them: it
\* calls compile_NVAR with the stage COMPILING_RIGHT, where that does nothing.
compile_nothing ==
  /\ phase \in {"declarations", "functions"}
  /\ walk # <<>>
  /\ ~ Acts(Top.node, Top.stage)
  /\ Proceed
  /\ UNCHANGED <<control, scoping, returns, ir_stack, code>>

-----------------------------------------------------------------------------
(* compiler_tree_to_asm: declarations, entry code, then every function.    *)

\* Mutant: a function starts at the node allocated before its own.
function_at_previous(node, head, name, args) ==
  [node |-> node, ir_list_head |-> head - 1, name |-> name, arg_cnt |-> args]

function(node, head, name, args) ==
  [node |-> node, ir_list_head |-> head, name |-> name, arg_cnt |-> args]

\* state_ctor: heap nodes 1..4 are the list `stdlib`; the list that starts at
\* ir_head is linked behind them.
Init ==
  /\ phase = "declarations"
  /\ error = "none"
  /\ cursor \in Program
  /\ next_func = 1
  /\ walk = <<>>
  /\ functions = << function(NULL, 2, "print", 1), function(NULL, 3, "read", 0),
                    function(NULL, 4, "sqrt", 1) >>
  /\ name_scope = table_stack_ctor
  /\ block_depth = 0
  /\ has_return = FALSE
  /\ global_var_cnt = 0
  /\ stack_frame_size = 0
  /\ func_return = NIL
  /\ ir_stack = <<>>
  /\ heap = [i \in 1..5 |-> new_empty]
  /\ list = << 5 >>

Extracting == phase = "declarations" /\ walk = <<>>

\* A global variable is compiled where it stands; its initializer sees the
\* functions declared so far.
extract_variable ==
  /\ Extracting
  /\ cursor # NULL
  /\ cursor.left.type = "NVAR"
  /\ walk' = Enter(walk, cursor.left)
  /\ cursor' = cursor.right
  /\ UNCHANGED <<phase, error, next_func, functions, scoping, returns, ir_stack, code>>

\* func_array_add_func
extract_function ==
  /\ Extracting
  /\ cursor # NULL
  /\ cursor.left.type = "NFUN"
  /\ ~ Defined(cursor.left.value)
  /\ heap' = Append(heap, new_empty)
  /\ functions' = Append(functions, function(cursor.left, Len(heap) + 1,
                                             cursor.left.value, ChainOf(cursor.left.left)))
  /\ cursor' = cursor.right
  /\ UNCHANGED <<phase, error, next_func, walk, scoping, returns, ir_stack, list>>

Redefinition ==
  /\ Extracting
  /\ cursor # NULL
  /\ cursor.left.type = "NFUN"
  /\ Defined(cursor.left.value)
  /\ Fail("redefinition")

\* The program starts by running its initializers, then calls main and exits.
emit_entry ==
  /\ Extracting
  /\ cursor = NULL
  /\ Defined("main")
  /\ Emit(<< new_call(func_array_find_func("main").ir_list_head),
             new_binary("MOV", operand_reg("RDI"), operand_reg("RAX")),
             new_binary("MOV", operand_reg("RAX"), operand_imm(60)),
             new_syscall >>)
  /\ phase' = "functions"
  /\ UNCHANGED <<error, cursor, next_func, functions, walk, scoping, returns, ir_stack>>

MissingMain ==
  /\ Extracting
  /\ cursor = NULL
  /\ ~ Defined("main")
  /\ Fail("no main")

\* Standard library functions have no node: they are passed over.
compile_next_function ==
  /\ phase = "functions"
  /\ walk = <<>>
  /\ next_func <= Len(functions)
  /\ walk' = Enter(walk, functions[next_func].node)
  /\ next_func' = next_func + 1
  /\ UNCHANGED <<phase, error, cursor, functions, scoping, returns, ir_stack, code>>

all_compiled ==
  /\ phase = "functions"
  /\ walk = <<>>
  /\ next_func > Len(functions)
  /\ phase' = "done"
  /\ UNCHANGED <<error, cursor, next_func, functions, walk, scoping, returns, ir_stack, code>>

HandleNode ==
  \/ compile_NVAR \/ compile_ASS \/ compile_VAR \/ compile_CONST
  \/ compile_OP_dividend \/ compile_OP
  \/ compile_CALL \/ compile_RET \/ compile_SEQ
  \/ compile_BLOCK_begin \/ compile_BLOCK_end
  \/ compile_WHILE_start \/ compile_WHILE_test \/ compile_WHILE_end
  \/ compile_BRANCH_test \/ compile_BRANCH_else \/ compile_BRANCH_end
  \/ compile_NFUN_begin \/ compile_NFUN_body \/ compile_NFUN_end
  \/ compile_nothing

Driver ==
  \/ extract_variable \/ extract_function \/ emit_entry
  \/ compile_next_function \/ all_compiled

Failure ==
  \/ UndefinedVariable \/ UndefinedFunction \/ WrongArgumentCount
  \/ MissingReturn \/ Redefinition \/ MissingMain

CodeGenStep == HandleNode \/ Driver \/ Failure

\* The generator has returned to its caller.
Returned == phase \in {"done", "failed"} /\ UNCHANGED vars

Next == CodeGenStep \/ Returned

Spec == Init /\ [][Next]_vars

\* One thread runs the compiler: it keeps taking steps.
FairSpec == Spec /\ WF_vars(CodeGenStep)
=============================================================================
