---------------------------- MODULE Backend_proofs ----------------------------
(***************************************************************************)
(* Proofs about the whole backend and the program it makes: BackendInv is  *)
(* inductive on top of the code generator's invariants, and with it the    *)
(* displacements are right, control stays in the code, and the image holds *)
(* the program.                                                            *)
(***************************************************************************)
EXTENDS CodeList_proofs, Backend

(* The code generator within the backend.                                  *)

\* A behaviour of the backend is one of the code generator, which is done
\* before the encoder starts.
LEMMA BackendRefines ==
  /\ BackendInit => Init
  /\ [BackendNext]_backendVars => [Next]_vars
<1>1. BackendInit => Init
  BY DEF BackendInit
<1>2. Generate => [Next]_vars
  BY DEF Generate, Next
<1>3. EncodeList => UNCHANGED vars
  BY DEF EncodeList
<1>4. RunProgram => UNCHANGED vars
  BY DEF RunProgram
<1>5. Ended \/ UNCHANGED backendVars => UNCHANGED vars
  BY DEF Ended, backendVars
<1> QED BY <1>1, <1>2, <1>3, <1>4, <1>5 DEF BackendNext

\* The code generator's invariants hold of the backend.
LEMMA GeneratorInvariance == BackendSpec => [](IInv /\ CodeInv /\ RegionInv)
<1>1. BackendSpec => Spec
  BY BackendRefines, PTL DEF BackendSpec, Spec
<1> QED BY <1>1, RegionInvariance, PTL

-----------------------------------------------------------------------------
(* What the encoder and the image rely on in the list.                     *)

\* The nodes of the library are 2, 3 and 4.
LEMMA LibraryNodes == DOMAIN E!STDLIB_ADDR = 2..4
BY DEF E!STDLIB_ADDR

\* A function that is declared by the program has a tree.
LEMMA LibraryKept ==
  ASSUME IInv, LibraryKnown, [Next]_vars
  PROVE  LibraryKnown'
<1>1. CASE functions' = functions
  BY <1>1, LibraryNodes DEF LibraryKnown
<1>2. CASE extract_function
  <2> DEFINE new == function(cursor.left, Len(heap) + 1, cursor.left.value, ChainOf(cursor.left.left))
             n == Len(functions)
  <2>1. functions' = Append(functions, new) /\ functions \in Seq(Function)
        /\ cursor # NULL /\ cursor.left.type = "NFUN"
    BY <1>2 DEF extract_function, IInv, TypeOK
  <2>2. cursor \in Node /\ cursor.type = "DEFS"
    BY <2>1 DEF IInv, TypeOK, FunctionTable
  <2>3. cursor.left # NULL
    <3>1. TypeOf(cursor.left) \in LeftChild("DEFS")
      BY <2>2, NodeFields
    <3> QED BY <3>1 DEF TypeOf, LeftChild
  <2>4. new.node # NULL
    BY <2>3 DEF function
  <2> HIDE DEF new
  <2>5. /\ n \in Nat /\ Len(functions') = n + 1
        /\ functions'[n + 1] = new
        /\ \A k \in 1..n : functions'[k] = functions[k]
    BY <2>1
  <2> HIDE DEF n
  <2>6. \A k \in 1..(n + 1) : k \in 1..n \/ k = n + 1
    BY <2>5
  <2>7. \A k \in 1..n : k \in 1..(n + 1)
    BY <2>5
  <2>8. ASSUME NEW k \in 1..Len(functions'), functions'[k].node = NULL
        PROVE  functions'[k].ir_list_head \in 2..4
    <3>1. k \in 1..n
      BY <2>4, <2>5, <2>6, <2>8
    <3> QED BY <2>5, <2>8, <3>1, LibraryNodes DEF LibraryKnown, n
  <2>9. ASSUME NEW id \in 2..4
        PROVE  \E k \in 1..Len(functions') :
                 functions'[k].node = NULL /\ functions'[k].ir_list_head = id
    <3>1. PICK k \in 1..n : functions[k].node = NULL /\ functions[k].ir_list_head = id
      BY LibraryNodes DEF LibraryKnown, n
    <3> QED BY <2>5, <2>7, <3>1
  <2> QED BY <2>8, <2>9, LibraryNodes DEF LibraryKnown
<1>3. functions' = functions \/ extract_function
  <2>1. CASE HandleNode
    BY <2>1, HandlerProceeds DEF control
  <2>2. CASE Driver
    BY <2>2 DEF Driver, extract_variable, emit_entry, compile_next_function, all_compiled
  <2>3. CASE Failure
    BY <2>3 DEF Failure, UndefinedVariable, UndefinedFunction, WrongArgumentCount,
                MissingReturn, Redefinition, MissingMain, Fail
  <2>4. CASE UNCHANGED vars
    BY <2>4 DEF vars, control
  <2> QED BY <2>1, <2>2, <2>3, <2>4 DEF Next, CodeGenStep, Returned
<1> QED BY <1>1, <1>2, <1>3

\* A declaration adds at most one variable to the innermost table.
LEMMA AddVarCounts ==
  ASSUME NEW tables \in Seq(VarTable), tables # <<>>, NEW name \in Name
  PROVE  Len(add_var(tables, name)[Len(tables)].vars) <= Len(tables[Len(tables)].vars) + 1
<1> DEFINE n == Len(tables)
<1>1. n \in Nat /\ n \in 1..n /\ tables[n] \in VarTable
  OBVIOUS
<1>2. tables[n].vars \in Seq(Name)
  BY <1>1 DEF VarTable
<1>3. Len(tables[n].vars) \in Nat /\ Len(Append(tables[n].vars, name)) = Len(tables[n].vars) + 1
  BY <1>2
<1>4. CASE Declares(Innermost(tables), name)
  <2>1. add_var(tables, name) = tables
    BY <1>4 DEF add_var
  <2> QED BY <1>3, <2>1
<1>5. CASE ~ Declares(Innermost(tables), name)
  <2>1. add_var(tables, name)[n].vars = Append(tables[n].vars, name)
    BY <1>1, <1>5 DEF add_var, VarTable
  <2> QED BY <1>3, <2>1
<1> QED BY <1>4, <1>5

\* The table of the globals is the bottom one and only a declaration outside
\* all functions enters it, which is counted.
LEMMA GlobalsKept ==
  ASSUME IInv, IInv', GlobalsCounted, [Next]_vars
  PROVE  GlobalsCounted' /\ global_var_cnt <= global_var_cnt'
<1> DEFINE n == Len(name_scope)
<1>1. /\ name_scope \in Seq(VarTable) /\ name_scope # <<>> /\ n \in Nat \ {0}
      /\ global_var_cnt \in Nat /\ walk \in Seq(Frame)
  <2>1. name_scope \in Seq(VarTable) /\ name_scope # <<>> /\ walk \in Seq(Frame)
    BY HandlerState
  <2>2. global_var_cnt \in Nat
    BY DEF IInv, TypeOK
  <2> QED BY <2>1, <2>2
<1>2. Len(name_scope[1].vars) \in Nat
  BY <1>1, TablesTyped
<1>3. ASSUME UNCHANGED global_var_cnt, name_scope'[1] = name_scope[1]
      PROVE  GlobalsCounted' /\ global_var_cnt <= global_var_cnt'
  BY <1>1, <1>3 DEF GlobalsCounted
<1>4. CASE compile_NVAR
  <2> DEFINE name == Top.node.value
  <2>1. /\ name_scope' = add_var(name_scope, name)
        /\ global_var_cnt' = IF is_at_global_scope(name_scope)
                               THEN global_var_cnt + 1 ELSE global_var_cnt
        /\ walk # <<>> /\ Top.node.type = "NVAR"
    BY <1>4 DEF compile_NVAR, Handling
  <2>2. name \in Name
    <3>1. Top.node \in Node
      BY <1>1, <2>1, TopTyped
    <3> QED BY <2>1, <3>1, NodeFields DEF Named
  <2>3. /\ \A t \in 1..(n - 1) : name_scope'[t] = name_scope[t]
        /\ name_scope'[n].offset = name_scope[n].offset
    BY <1>1, <2>1, <2>2, AddVar
  <2>4. Len(name_scope'[n].vars) <= Len(name_scope[n].vars) + 1
    BY <1>1, <2>1, <2>2, AddVarCounts
  <2>5. CASE n = 1
    <3>1. is_at_global_scope(name_scope)
      <4>1. name_scope[1].is_global
        BY DEF IInv, ScopeLayout, LaidOut
      <4> QED BY <2>5, <4>1 DEF is_at_global_scope, Innermost
    <3>2. Len(name_scope'[1].vars) \in Nat
      <4>1. add_var(name_scope, name) \in Seq(VarTable) /\ Len(add_var(name_scope, name)) = n
        BY <1>1, <2>2, AddVar
      <4>2. 1 \in 1..Len(add_var(name_scope, name))
        BY <2>5, <4>1
      <4> QED BY <2>1, <4>1, <4>2, TablesTyped
    <3> HIDE DEF n
    <3> QED BY <1>1, <1>2, <2>1, <2>3, <2>4, <2>5, <3>1, <3>2 DEF GlobalsCounted, n
  <2>6. CASE n # 1
    <3>1. n \in 2..n /\ 1 \in 1..(n - 1)
      <4> HIDE DEF n
      <4> QED BY <1>1, <2>6
    <3>2. ~ is_at_global_scope(name_scope)
      BY <3>1 DEF IInv, ScopeLayout, LaidOut, is_at_global_scope, Innermost
    <3> QED BY <1>3, <2>1, <2>3, <3>1, <3>2
  <2> QED BY <2>5, <2>6
<1>5. CASE compile_BLOCK_begin \/ compile_NFUN_begin \/ compile_NFUN_body
  <2>1. PICK offset : name_scope' = add_table(name_scope, offset) /\ UNCHANGED global_var_cnt
    BY <1>5 DEF compile_BLOCK_begin, compile_NFUN_begin, compile_NFUN_body
  <2>2. name_scope'[1] = name_scope[1]
    <3>1. PICK new : name_scope' = Append(name_scope, new)
      BY <2>1 DEF add_table
    <3>2. name_scope \in Seq(VarTable \cup {new}) /\ new \in VarTable \cup {new}
      BY <1>1
    <3> QED BY <1>1, <3>1, <3>2
  <2> QED BY <1>3, <2>1, <2>2
<1>6. CASE compile_BLOCK_end
  <2>1. name_scope' = pop_table(name_scope) /\ UNCHANGED global_var_cnt
        /\ walk # <<>> /\ Top.node.type = "BLOCK"
    BY <1>6 DEF compile_BLOCK_end, Handling
  <2>2. n >= 2
    <3>1. ScopeLayout' /\ ScopesMatchWalk /\ WalkShape
      BY DEF IInv
    <3>2. walk[1].node.type = "NFUN"
      <4>1. CASE walk[1].node.type = "NVAR"
        <5> DEFINE w == Len(walk)
        <5>1. w \in Nat \ {0} /\ Top = walk[w]
          BY <1>1, <2>1 DEF Top
        <5>2. w \in 2..w
          <6>1. w # 1
            BY <2>1, <4>1, <5>1
          <6> HIDE DEF w
          <6> QED BY <5>1, <6>1
        <5>3. walk[w].node.type \in ExpressionPart
          BY <2>1, <3>1, <4>1, <5>2 DEF WalkShape
        <5> QED BY <2>1, <5>1, <5>3 DEF ExpressionPart, Expression
      <4> QED BY <2>1, <3>1, <4>1 DEF WalkShape
    <3>3. n >= 3 + Cardinality(OpenBlocks) /\ Cardinality(OpenBlocks) \in Nat
      <4>1. n >= 3 + Cardinality(OpenBlocks)
        BY <1>1, <2>1, <3>1, <3>2, InsideBody
      <4>2. Proceed
        BY <1>6 DEF compile_BLOCK_end
      <4> QED BY <1>1, <2>1, <4>1, <4>2, ScopesAfter
    <3> HIDE DEF n
    <3> QED BY <1>1, <3>3
  <2>3. name_scope'[1] = name_scope[1]
    <3>1. 1 \in 1..(n - 1)
      <4> HIDE DEF n
      <4> QED BY <1>1, <2>2
    <3> QED BY <1>1, <2>1, <3>1, PopTable
  <2> QED BY <1>3, <2>1, <2>3
<1>7. CASE compile_NFUN_end
  <2>1. /\ name_scope' = pop_table(pop_table(name_scope)) /\ UNCHANGED global_var_cnt
        /\ walk # <<>> /\ Top.node.type = "NFUN" /\ Top.stage = 3
    BY <1>7 DEF compile_NFUN_end, Handling, COMPILED_RIGHT
  <2>2. Len(name_scope) = 3
    <3>1. Top.stage \in {0, 1, 3} /\ Top.stage # 0 /\ Top.stage # 1
      BY <2>1
    <3> QED BY ONLY IInv, <2>1, <3>1, FunctionScopes
  <2>3. PICK once : once = pop_table(name_scope)
    OBVIOUS
  <2>4. once \in Seq(VarTable) /\ Len(once) = 2 /\ once[1] = name_scope[1]
    <3>1. /\ once \in Seq(VarTable) /\ Len(once) = Len(name_scope) - 1
          /\ \A t \in 1..(Len(name_scope) - 1) : once[t] = name_scope[t]
      BY <1>1, <2>3, PopTable
    <3> QED BY <2>2, <3>1
  <2>5. once # <<>> /\ 1 \in 1..(Len(once) - 1)
    BY <2>4
  <2>6. pop_table(once)[1] = once[1]
    BY <2>4, <2>5, PopTable
  <2> QED BY <1>3, <2>1, <2>3, <2>4, <2>6
<1>8. CASE UNCHANGED <<name_scope, global_var_cnt>>
  BY <1>3, <1>8
<1>9. \/ compile_NVAR \/ compile_BLOCK_begin \/ compile_NFUN_begin \/ compile_NFUN_body
      \/ compile_BLOCK_end \/ compile_NFUN_end \/ UNCHANGED <<name_scope, global_var_cnt>>
  <2>1. CASE HandleNode
    BY <2>1 DEF HandleNode, compile_ASS, compile_VAR, compile_CONST, compile_OP_dividend,
       compile_OP, compile_CALL, compile_RET, compile_SEQ, compile_WHILE_start,
       compile_WHILE_test, compile_WHILE_end, compile_BRANCH_test, compile_BRANCH_else,
       compile_BRANCH_end, compile_nothing, scoping
  <2>2. CASE Driver
    BY <2>2 DEF Driver, extract_variable, extract_function, emit_entry,
       compile_next_function, all_compiled, scoping
  <2>3. CASE Failure
    BY <2>3 DEF Failure, UndefinedVariable, UndefinedFunction, WrongArgumentCount,
                MissingReturn, Redefinition, MissingMain, Fail, scoping
  <2>4. CASE UNCHANGED vars
    BY <2>4 DEF vars, scoping
  <2> QED BY <2>1, <2>2, <2>3, <2>4 DEF Next, CodeGenStep, Returned
<1> QED BY <1>4, <1>5, <1>6, <1>7, <1>8, <1>9

AllSound == \A i \in 1..Len(list) : Sound(At(i))

\* More variables take more addresses, the first ones the same.
LEMMA AddressesGrow ==
  ASSUME NEW base \in Int, NEW few \in Nat, NEW many \in Nat, few <= many
  PROVE  base..(base + SLOT * (few - 1)) \subseteq base..(base + SLOT * (many - 1))
BY DEF SLOT

\* What is sound stays so as more global variables are declared.
LEMMA SoundAfter ==
  ASSUME NEW node, global_var_cnt \in Nat, global_var_cnt' \in Nat,
         global_var_cnt <= global_var_cnt', Sound(node)
  PROVE  Sound(node)'
<1>1. GLOBAL_BASE \in Int
  BY DEF GLOBAL_BASE
<1>2. GLOBAL_BASE..(GLOBAL_BASE + SLOT * (global_var_cnt - 1))
        \subseteq GLOBAL_BASE..(GLOBAL_BASE + SLOT * (global_var_cnt' - 1))
  BY <1>1, AddressesGrow
<1> QED BY <1>2 DEF Sound

\* A node that touches neither RSP nor a global variable is sound, and so is a
\* change of RSP by a natural number.
LEMMA FixedSound ==
  /\ Sound(new_empty)' /\ Sound(new_ret)'
  /\ Sound(new_push_reg("RBP"))' /\ Sound(new_pop_reg("RBP"))'
  /\ Sound(new_binary("MOV", operand_reg("RBP"), operand_reg("RSP")))'
  /\ \A frame \in Nat : Sound(Create(frame))' /\ Sound(Destroy(frame))'
<1>1. "MEM" \in {"MEM", "IMM"} /\ "MEM" \notin {"REG"} /\ "MEM" \notin {}
  OBVIOUS
<1>2. ASSUME NEW node \in {new_empty, new_ret, new_push_reg("RBP"), new_pop_reg("RBP"),
                           new_binary("MOV", operand_reg("RBP"), operand_reg("RSP"))}
      PROVE  node.operation \notin {"ADD", "SUB"} /\ node.operand1.flags # {"MEM", "IMM"}
  BY <1>1 DEF new_empty, new_ret, new_push_reg, new_pop_reg, new_unary, new_binary, instruction,
              operand_none, operand_reg
<1>3. ASSUME NEW frame \in Nat, NEW node \in {Create(frame), Destroy(frame)}
      PROVE  node.operand2.immediate \in Nat /\ node.operand1.flags # {"MEM", "IMM"}
  BY <1>1 DEF Create, Destroy, new_binary, instruction, operand_reg, operand_imm
<1> QED BY <1>2, <1>3 DEF Sound, IsGlobalAccess

\* An ordinary node is sound: the global it accesses has been declared.
LEMMA OrdinarySound ==
  ASSUME IInv', GlobalsCounted', NEW node, Ordinary(node)
  PROVE  Sound(node)'
<1>1. /\ name_scope' \in Seq(VarTable) /\ global_var_cnt' \in Nat
      /\ \A t \in 2..Len(name_scope') : ~ name_scope'[t].is_global
  BY DEF IInv, TypeOK, ScopeLayout, LaidOut
<1>2. ASSUME IsGlobalAccess(node)
      PROVE  node.operand1.immediate \in GLOBAL_BASE..(GLOBAL_BASE + SLOT * (global_var_cnt' - 1))
  <2>1. PICK t \in 1..Len(name_scope') : \E i \in 1..Len(name_scope'[t].vars) :
               /\ name_scope'[t].is_global
               /\ node.operand1.immediate = name_scope'[t].offset + SLOT * (i - 1)
    BY <1>2 DEF Ordinary
  <2>2. t = 1
    BY <1>1, <2>1
  <2>3. PICK i \in 1..Len(name_scope'[1].vars) :
               node.operand1.immediate = name_scope'[1].offset + SLOT * (i - 1)
    BY <2>1, <2>2
  <2>4. /\ name_scope'[1].offset = GLOBAL_BASE
        /\ Len(name_scope'[1].vars) <= global_var_cnt'
    BY DEF GlobalsCounted
  <2>5. Len(name_scope'[1].vars) \in Nat
    BY <1>1, <2>1, <2>2, TablesTyped
  <2> DEFINE m == Len(name_scope'[1].vars)
  <2>6. m \in Nat /\ i \in 1..m /\ m <= global_var_cnt'
    BY <2>3, <2>4, <2>5
  <2> HIDE DEF m
  <2>7. i \in Int /\ 1 <= i /\ i <= global_var_cnt'
    BY <1>1, <2>6
  <2>8. node.operand1.immediate = GLOBAL_BASE + SLOT * (i - 1)
    BY <2>3, <2>4
  <2>9. GLOBAL_BASE \in Int
    BY DEF GLOBAL_BASE
  <2>10. PICK c : c = global_var_cnt'
    OBVIOUS
  <2>11. PICK b : b = GLOBAL_BASE
    OBVIOUS
  <2>12. c \in Nat /\ b \in Int /\ i \in Int /\ 1 <= i /\ i <= c
    BY <1>1, <2>7, <2>9, <2>10, <2>11
  <2>13. b + SLOT * (i - 1) \in b..(b + SLOT * (c - 1))
    BY ONLY <2>12 DEF SLOT
  <2> QED BY <2>8, <2>10, <2>11, <2>13
<1> QED BY <1>2 DEF Sound, Ordinary

\* The code of a function's body, or of an initializer, stays sound.
LEMMA BodySound ==
  ASSUME IInv, IInv', CodeInv, BodyHandler, AllSound, GlobalsCounted',
         global_var_cnt <= global_var_cnt'
  PROVE  AllSound'
<1>1. global_var_cnt \in Nat /\ global_var_cnt' \in Nat
  BY DEF IInv, TypeOK
<1>2. /\ Len(list) \in Nat /\ Len(list') \in Nat
      /\ \A i \in (Len(list) + 1)..Len(list') : list'[i] \in Fresh
      /\ NewNodes
  BY HandlersEmit, ListGrown DEF Emission
<1>3. ASSUME NEW i \in 1..Len(list') PROVE Sound(At(i))'
  <2>1. PICK node : node = At(i)'
    OBVIOUS
  <2>2. CASE i \in 1..Len(list)
    <3>1. PICK old : old = At(i)
      OBVIOUS
    <3>2. Sound(old)'
      <4>1. Sound(old)
        BY <2>2, <3>1 DEF AllSound
      <4> QED BY <1>1, <4>1, SoundAfter
    <3>3. \/ node = old
          \/ node = new_empty
          \/ \E target : node = [old EXCEPT !.jump_target = target]
      BY <2>1, <2>2, <3>1, OldNodes
    <3>4. CASE \E target : node = [old EXCEPT !.jump_target = target]
      <4>1. old \in IrNode
        <5>1. heap \in Seq(IrNode) /\ list \in Seq(1..Len(heap))
          BY HandlerState
        <5> QED BY <2>2, <3>1, <5>1 DEF At
      <4>2. node.operation = old.operation /\ node.operand1 = old.operand1
            /\ node.operand2 = old.operand2
        BY <3>4, <4>1 DEF IrNode
      <4> QED BY <2>1, <3>2, <4>2 DEF Sound, IsGlobalAccess
    <3> QED BY <2>1, <3>2, <3>3, <3>4, FixedSound
  <2>3. CASE i \notin 1..Len(list)
    <3>1. i \in (Len(list) + 1)..Len(list')
      BY <1>2, <2>3
    <3>2. list'[i] \in Fresh
      BY <1>2, <3>1
    <3>3. Ordinary(node)
      BY <1>2, <2>1, <3>2 DEF NewNodes, At
    <3>4. Sound(node)'
      BY <3>3, OrdinarySound
    <3> QED BY <2>1, <3>4
  <2> QED BY <2>2, <2>3
<1> QED BY <1>3 DEF AllSound

\* The nodes of a prologue are sound.
LEMMA PrologueSound ==
  ASSUME IInv, IInv', CodeInv, compile_NFUN_begin, AllSound, global_var_cnt <= global_var_cnt'
  PROVE  AllSound'
<1> DEFINE n == Len(list)
           h == Len(heap)
           head == functions[next_func - 1].ir_list_head
           mov == new_binary("MOV", operand_reg("RBP"), operand_reg("RSP"))
<1>1. /\ walk # <<>> /\ Top = walk[1]
      /\ Top.node.type = "NFUN" /\ Top.stage = COMPILING_LEFT
      /\ \A id \in 1..h : heap'[id] = heap[id]
      /\ heap'[h + 1] = new_push_reg("RBP") /\ heap'[h + 2] = mov
      /\ Len(list') = n + 3 /\ \A i \in 1..n : list'[i] = list[i]
      /\ list'[n + 1] = head /\ list'[n + 2] = h + 1 /\ list'[n + 3] = h + 2
  BY PrologueCode
<1>2. n \in Nat /\ h \in Nat /\ list \in Seq(1..h)
  BY HandlerState
<1>3. heap'[head] = new_empty
  <2>1. next_func - 1 \in 1..Len(functions) /\ head \in 1..h
    BY <1>1, FunctionCompiled
  <2>2. Waiting(next_func - 1)
    BY <1>1 DEF Waiting
  <2>3. heap[head] = new_empty
    BY <2>1, <2>2 DEF CodeInv, ListInv
  <2> QED BY <1>1, <2>1, <2>3
<1>4. global_var_cnt \in Nat /\ global_var_cnt' \in Nat
  BY DEF IInv, TypeOK
<1> HIDE DEF n, h, head
<1>5. ASSUME NEW i \in 1..Len(list') PROVE Sound(At(i))'
  <2>1. PICK node : node = At(i)'
    OBVIOUS
  <2>2. CASE i \in 1..n
    <3>1. list[i] \in 1..h
      BY <1>2, <2>2 DEF n
    <3>2. PICK old : old = At(i)
      OBVIOUS
    <3>3. node = old
      BY <1>1, <2>1, <2>2, <3>1, <3>2 DEF At
    <3>4. Sound(old)
      BY <2>2, <3>2 DEF AllSound, n
    <3>5. Sound(old)'
      BY <1>4, <3>4, SoundAfter
    <3> QED BY <2>1, <3>3, <3>5
  <2>3. CASE i \notin 1..n
    <3>1. i = n + 1 \/ i = n + 2 \/ i = n + 3
      BY <1>1, <1>2, <2>3
    <3>2. heap'[list'[i]] = new_empty \/ heap'[list'[i]] = new_push_reg("RBP")
          \/ heap'[list'[i]] = mov
      BY <1>1, <1>3, <3>1
    <3>3. node = new_empty \/ node = new_push_reg("RBP") \/ node = mov
      BY <2>1, <3>2 DEF At
    <3>4. Sound(node)'
      BY <3>3, FixedSound
    <3> QED BY <2>1, <3>4
  <2> QED BY <2>2, <2>3
<1> QED BY <1>5 DEF AllSound

\* The nodes of an epilogue, and the frame made behind the prologue, are sound.
LEMMA EpilogueSound ==
  ASSUME IInv, IInv', CodeInv, RegionInv, compile_NFUN_end, AllSound,
         global_var_cnt <= global_var_cnt'
  PROVE  AllSound'
<1>1. PICK last : last = Len(list')
  OBVIOUS
<1>2. PICK frame \in Nat : frame = stack_frame_size - SLOT
  BY EpilogueState
<1>3. PICK start \in 1..(Len(list) + 1) : CodeFrom(start)
  BY DEF RegionInv
<1>4. FunctionCode(start, frame, last)
  <2>1. Begun(start)
    BY <1>3 DEF CodeFrom
  <2> QED BY <1>1, <1>2, <2>1, EpilogueNodes
<1>5. Len(list) \in Nat /\ start \in Nat /\ start >= 1
  BY HandlerState
<1>6. global_var_cnt \in Nat /\ global_var_cnt' \in Nat
  BY DEF IInv, TypeOK
<1>7. ASSUME NEW i \in 1..Len(list') PROVE Sound(At(i))'
  <2>1. PICK node : node = At(i)'
    OBVIOUS
  <2>2. \/ \E j \in 1..Len(list) : node = At(j)
        \/ node \in {new_empty, new_pop_reg("RBP"), Create(frame), Destroy(frame), new_ret}
    <3>1. CASE i < start
      <4>1. i \in 1..(start - 1) /\ i \in 1..Len(list)
        BY <1>5, <3>1
      <4>2. list'[i] = list[i] /\ heap'[list[i]] = heap[list[i]]
        BY <1>4, <4>1 DEF FunctionCode, KeptBelow
      <4> QED BY <2>1, <4>1, <4>2 DEF At
    <3>2. CASE i >= start
      <4>1. i \in start..last
        BY <1>1, <1>5, <3>2
      <4>2. \/ \E j \in start..Len(list) : At(i)' = At(j)
            \/ At(i)' \in {new_empty, new_pop_reg("RBP"), Create(frame), Destroy(frame), new_ret}
        BY <1>4, <4>1 DEF FunctionCode
      <4>3. \A j \in start..Len(list) : j \in 1..Len(list)
        BY <1>5
      <4> QED BY <2>1, <4>2, <4>3
    <3> QED BY <1>5, <3>1, <3>2
  <2>3. CASE \E j \in 1..Len(list) : node = At(j)
    <3>1. Sound(node)
      BY <2>3 DEF AllSound
    <3>2. Sound(node)'
      BY <1>6, <3>1, SoundAfter
    <3> QED BY <2>1, <3>2
  <2>4. CASE node \in {new_empty, new_pop_reg("RBP"), Create(frame), Destroy(frame), new_ret}
    <3>1. Sound(node)'
      BY <2>4, FixedSound
    <3> QED BY <2>1, <3>1
  <2> QED BY <2>2, <2>3, <2>4
<1> QED BY <1>7 DEF AllSound

\* Between trees only the entry code is emitted, which is sound.
LEMMA DrivingSound ==
  ASSUME IInv, IInv', Driver, AllSound, global_var_cnt <= global_var_cnt'
  PROVE  AllSound'
<1>1. /\ list \in Seq(1..Len(heap)) /\ heap \in Seq(IrNode) /\ Len(heap) \in Nat
      /\ global_var_cnt \in Nat /\ global_var_cnt' \in Nat
  <2>1. global_var_cnt \in Nat /\ global_var_cnt' \in Nat
    BY DEF IInv, TypeOK
  <2> QED BY <2>1, HandlerState
<1>2. ASSUME NEW i \in 1..Len(list'), NEW j \in 1..Len(list), At(i)' = At(j)
      PROVE  Sound(At(i))'
  <2>1. PICK node : node = At(j)
    OBVIOUS
  <2>2. Sound(node)
    BY <2>1 DEF AllSound
  <2>3. Sound(node)'
    BY <1>1, <2>2, SoundAfter
  <2> QED BY <1>2, <2>1, <2>3
<1>3. CASE UNCHANGED code
  <2> SUFFICES ASSUME NEW i \in 1..Len(list') PROVE Sound(At(i))'
    BY DEF AllSound
  <2>1. i \in 1..Len(list) /\ At(i)' = At(i)
    BY <1>3 DEF code, At
  <2> QED BY <1>2, <2>1
<1>4. CASE extract_function
  <2> SUFFICES ASSUME NEW i \in 1..Len(list') PROVE Sound(At(i))'
    BY DEF AllSound
  <2>1. heap' = Append(heap, new_empty) /\ list' = list
    BY <1>4 DEF extract_function
  <2>2. i \in 1..Len(list) /\ list[i] \in 1..Len(heap)
    BY <1>1, <2>1
  <2>3. \A id \in 1..Len(heap) : heap'[id] = heap[id]
    BY <1>1, <2>1
  <2>4. At(i)' = At(i)
    BY <2>1, <2>2, <2>3 DEF At
  <2> QED BY <1>2, <2>2, <2>4
<1>5. CASE emit_entry
  <2> SUFFICES ASSUME NEW i \in 1..Len(list') PROVE Sound(At(i))'
    BY DEF AllSound
  <2>1. AppendsFresh
    BY <1>5, EntryCode
  <2>2. CASE i \in 1..Len(list)
    <3>1. list[i] \in 1..Len(heap) /\ list'[i] = list[i]
      BY <1>1, <2>1, <2>2, ListGrown
    <3>2. At(i)' = At(i)
      BY <1>5, <3>1, EntryCode DEF At
    <3> QED BY <1>2, <2>2, <3>2
  <2>3. CASE i \notin 1..Len(list)
    <3>1. i \in (Len(list) + 1)..Len(list')
      BY <2>1, <2>3, ListGrown
    <3>2. list'[i] \in Fresh
      BY <2>1, <3>1, ListGrown
    <3>3. PICK node : node = At(i)'
      OBVIOUS
    <3>4. node.operation \in {"CALL", "MOV", "SYSCALL"} /\ ~ IsGlobalAccess(node)
      BY <1>5, <3>2, <3>3, EntryCode DEF At
    <3>5. Sound(node)'
      BY <3>4 DEF Sound
    <3> QED BY <3>3, <3>5
  <2> QED BY <2>2, <2>3
<1>6. UNCHANGED code \/ extract_function \/ emit_entry
  BY DEF Driver, extract_variable, compile_next_function, all_compiled
<1> QED BY <1>3, <1>4, <1>5, <1>6

\* No step leaves the code with an end behind which control would go on.
LEMMA EndsKept ==
  ASSUME IInv, IInv', CodeInv, RegionInv, CodeEnds, [Next]_vars
  PROVE  CodeEnds'
<1> USE DEF COMPILING_LEFT, COMPILED_LEFT, COMPILING_RIGHT, COMPILED_RIGHT
<1>1. /\ walk \in Seq(Frame) /\ list \in Seq(1..Len(heap)) /\ Len(list) \in Nat /\ list # <<>>
      /\ heap \in Seq(IrNode)
  BY HandlerState
<1>2. CASE BodyHandler
  <2>1. walk # <<>> /\ phase' = phase
    BY <1>2, BodyUnchanged DEF control
  <2>2. CASE walk[1].node.type = "NFUN"
    <3>1. InFunction'
      BY <1>2, <2>2, BodyStays
    <3>2. walk' # <<>> /\ walk'[1].node.type = "NFUN" /\ walk'[1].stage > 0
      BY <3>1 DEF InFunction
    <3>3. walk'[1].stage # 0
      BY <3>2
    <3> QED BY <3>2, <3>3 DEF CodeEnds
  <2>3. CASE walk[1].node.type # "NFUN"
    BY <2>1, <2>3 DEF CodeEnds
  <2> QED BY <2>2, <2>3
<1>3. CASE compile_NFUN_begin
  <2>1. /\ walk # <<>> /\ Len(walk) = 1 /\ Top = walk[1] /\ Proceed
        /\ Top.node.type = "NFUN" /\ Top.stage = 0
    BY <1>3, PrologueCode
  <2>2. /\ Len(walk') \in {1, 2} /\ walk'[1].node.type = "NFUN" /\ walk'[1].stage = 1
    BY <1>1, <2>1, ProceedWalk
  <2>3. walk' # <<>>
    BY <2>2
  <2> QED BY <2>2, <2>3 DEF CodeEnds
<1>4. CASE compile_NFUN_end
  <2>1. walk' = <<>>
    BY <1>4, EpilogueState
  <2>2. heap'[list'[Len(list')]] = new_ret
    <3>1. PICK pos \in 1..Len(list), by \in {0, 1} :
             /\ Len(list') = Len(list) + by + by + 3
             /\ list'[Len(list) + by + by + 3] = Len(heap) + 2 * by + 2
             /\ heap'[Len(heap) + 2 * by + 2] = new_ret
      BY <1>4, EpilogueCode
    <3> QED BY <3>1
  <2>3. At(Len(list))'.operation = "RET"
    BY <2>2 DEF At, new_ret, new_unary, new_binary, instruction
  <2> QED BY <2>1, <2>3 DEF CodeEnds
<1>5. CASE extract_variable \/ extract_function
  BY <1>5 DEF extract_variable, extract_function, Extracting, CodeEnds
<1>6. CASE emit_entry
  <2>1. walk' = <<>>
    BY <1>6 DEF emit_entry, Extracting
  <2>2. At(Len(list))'.operation = "SYSCALL"
    BY <1>6, EntryCode DEF At
  <2> QED BY <2>1, <2>2 DEF CodeEnds
<1>7. CASE compile_next_function
  <2>1. /\ phase = "functions" /\ walk = <<>> /\ UNCHANGED <<phase, functions, code>>
        /\ next_func <= Len(functions) /\ walk' = Enter(walk, functions[next_func].node)
    BY <1>7 DEF compile_next_function
  <2>2. At(Len(list)).operation \in {"RET", "SYSCALL"}
    BY <2>1 DEF CodeEnds
  <2>3. At(Len(list))' = At(Len(list))
    BY <2>1 DEF code, At
  <2>4. CASE functions[next_func].node = NULL
    BY <2>1, <2>2, <2>3, <2>4 DEF Enter, CodeEnds
  <2>5. CASE functions[next_func].node # NULL
    <3>1. next_func \in 1..Len(functions)
      <4>1. next_func \in Nat \ {0} /\ functions \in Seq(Function)
        BY DEF IInv, TypeOK
      <4> QED BY <2>1, <4>1
    <3>2. functions[next_func].node.type = "NFUN"
      BY <2>5, <3>1 DEF IInv, FunctionTable
    <3>3. walk' = << [node |-> functions[next_func].node, stage |-> 0] >>
      BY <2>1, <2>5 DEF Enter
    <3>4. walk'[1].node.type = "NFUN"
      BY <3>2, <3>3
    <3> QED BY <2>2, <2>3, <3>4 DEF CodeEnds
  <2> QED BY <2>4, <2>5
<1>8. CASE all_compiled
  <2>1. phase = "functions" /\ walk = <<>> /\ walk' = <<>> /\ UNCHANGED code
    BY <1>8 DEF all_compiled
  <2>2. At(Len(list)).operation \in {"RET", "SYSCALL"}
    BY <2>1 DEF CodeEnds
  <2>3. At(Len(list))' = At(Len(list))
    BY <2>1 DEF code, At
  <2> QED BY <2>1, <2>2, <2>3 DEF CodeEnds
<1>9. CASE Failure
  <2>1. phase' = "failed"
    BY <1>9 DEF Failure, UndefinedVariable, UndefinedFunction, WrongArgumentCount,
                MissingReturn, Redefinition, MissingMain, Fail
  <2> QED BY <2>1 DEF CodeEnds
<1>10. CASE UNCHANGED vars
  BY <1>10 DEF vars, control, code, CodeEnds, At
<1>11. HandleNode => BodyHandler \/ compile_NFUN_begin \/ compile_NFUN_end
  BY DEF HandleNode, BodyHandler, Straight
<1> QED BY <1>2, <1>3, <1>4, <1>5, <1>6, <1>7, <1>8, <1>9, <1>10, <1>11
        DEF Next, CodeGenStep, Driver, Returned

\* What the encoder and the image rely on holds at first and is kept.
LEMMA InitialLink ==
  ASSUME Init
  PROVE  LinkInv
<1>1. /\ phase = "declarations" /\ name_scope = table_stack_ctor /\ global_var_cnt = 0
      /\ heap = [i \in 1..5 |-> new_empty] /\ list = << 5 >>
      /\ functions = << function(NULL, 2, "print", 1), function(NULL, 3, "read", 0),
                        function(NULL, 4, "sqrt", 1) >>
  BY DEF Init
<1>2. LibraryKnown
  <2>1. Len(functions) = 3
    BY <1>1
  <2>2. /\ functions[1] = function(NULL, 2, "print", 1)
        /\ functions[2] = function(NULL, 3, "read", 0)
        /\ functions[3] = function(NULL, 4, "sqrt", 1)
    BY <1>1
  <2>3. \A k \in {1, 2, 3} : functions[k].node = NULL /\ functions[k].ir_list_head = k + 1
    BY <2>2 DEF function
  <2>4. \A k \in 1..Len(functions) : k \in {1, 2, 3}
    BY <2>1
  <2>5. \A id \in 2..4 : \E k \in 1..Len(functions) : functions[k].ir_list_head = id
                                                       /\ functions[k].node = NULL
    <3> SUFFICES ASSUME NEW id \in 2..4
                 PROVE \E k \in 1..Len(functions) : functions[k].ir_list_head = id
                                                    /\ functions[k].node = NULL
      OBVIOUS
    <3>1. id - 1 \in 1..Len(functions) /\ id - 1 \in {1, 2, 3} /\ (id - 1) + 1 = id
      BY <2>1
    <3> QED BY <2>3, <3>1
  <2>6. \A k \in 1..Len(functions) : functions[k].ir_list_head \in 2..4
    <3>1. \A k \in {1, 2, 3} : k + 1 \in 2..4
      OBVIOUS
    <3> QED BY <2>3, <2>4, <3>1
  <2> QED BY <2>5, <2>6, LibraryNodes DEF LibraryKnown
<1>3. GlobalsCounted
  <2>1. name_scope[1] = var_table(GLOBAL_BASE, TRUE)
    BY <1>1 DEF table_stack_ctor
  <2>2. name_scope[1].offset = GLOBAL_BASE /\ name_scope[1].vars = <<>>
    BY <2>1 DEF var_table
  <2>3. Len(name_scope[1].vars) = 0
    BY <2>2
  <2> QED BY <1>1, <2>2, <2>3 DEF GlobalsCounted
<1>4. CodeEnds
  BY <1>1 DEF CodeEnds
<1>5. AllSound
  <2>1. \A i \in 1..Len(list) : list[i] = 5
    BY <1>1
  <2>2. heap[5] = new_empty
    BY <1>1
  <2>3. new_empty.operation = "NOP" /\ new_empty.operand1.flags = {}
    BY DEF new_empty, instruction, operand_none
  <2> QED BY <2>1, <2>2, <2>3 DEF AllSound, At, Sound, IsGlobalAccess
<1> QED BY <1>2, <1>3, <1>4, <1>5 DEF LinkInv, AllSound

\* Every step of the code generator keeps it.
LEMMA LinkStep ==
  ASSUME IInv, IInv', CodeInv, RegionInv, LinkInv, [Next]_vars
  PROVE  LinkInv'
<1>1. LibraryKnown' /\ CodeEnds'
  BY LibraryKept, EndsKept DEF LinkInv
<1>2. GlobalsCounted' /\ global_var_cnt <= global_var_cnt'
  BY GlobalsKept DEF LinkInv
<1>3. AllSound
  BY DEF LinkInv, AllSound
<1>4. AllSound'
  <2>1. CASE HandleNode
    <3>1. BodyHandler \/ compile_NFUN_begin \/ compile_NFUN_end
      BY <2>1 DEF HandleNode, BodyHandler, Straight
    <3> QED BY <1>2, <1>3, <3>1, BodySound, PrologueSound, EpilogueSound
  <2>2. CASE Driver
    BY <1>2, <1>3, <2>2, DrivingSound
  <2>3. CASE Failure \/ UNCHANGED vars
    <3>1. UNCHANGED <<heap, list, global_var_cnt>>
      BY <2>3 DEF Failure, UndefinedVariable, UndefinedFunction, WrongArgumentCount,
                  MissingReturn, Redefinition, MissingMain, Fail, vars, code, scoping
    <3> QED BY <1>3, <3>1 DEF AllSound, At, Sound
  <2> QED BY <2>1, <2>2, <2>3 DEF Next, CodeGenStep, Returned
<1> QED BY <1>1, <1>2, <1>4 DEF LinkInv, AllSound

-----------------------------------------------------------------------------
(* The encoder.                                                            *)

\* Every instruction has between one and sixteen bytes, and a displacement
\* fills its last four.
LEMMA Lengths ==
  ASSUME NEW node \in IrNode
  PROVE  /\ E!length_of(node) \in 1..16
         /\ node.operation \in {"JMP", "CALL"} =>
              E!opcode_length(node) + 4 = E!length_of(node)
<1> DEFINE op == node.operation
<1>1. op \in ir_op
  BY DEF IrNode
<1>2. CASE op = "NOP"
  BY <1>2 DEF E!length_of
<1>3. CASE op \in {"RET", "SYSCALL", "CALL", "JMP"}
  BY <1>3 DEF E!length_of, E!control_length, E!opcode_length
<1>4. CASE op \in {"PUSH", "POP"}
  BY <1>4 DEF E!length_of, E!push_length
<1>5. CASE op \in {"NEG", "NOT"}
  BY <1>5 DEF E!length_of, E!neg_length
<1>6. CASE op = "DIV"
  BY <1>6 DEF E!length_of, E!div_length
<1>7. CASE op = "MOV"
  BY <1>7 DEF E!length_of, E!mov_length
<1>8. CASE op = "CMOV"
  BY <1>8 DEF E!length_of, E!cmov_length
<1>9. CASE op = "MUL"
  BY <1>9 DEF E!length_of, E!mul_length
<1>10. CASE op \in {"ADD", "SUB", "AND", "OR", "XOR", "CMP", "TEST"}
  <2>1. E!length_of(node) = E!two_operand_length(node.operand1, node.operand2)
    BY <1>10 DEF E!length_of
  <2>2. E!two_operand_length(node.operand1, node.operand2) \in 1..16
    BY DEF E!two_operand_length
  <2> QED BY <1>10, <2>1, <2>2
<1> QED BY <1>1, <1>2, <1>3, <1>4, <1>5, <1>6, <1>7, <1>8, <1>9, <1>10 DEF ir_op

\* What the encoder finds in the list when the code generator is done.
LEMMA ListToEncode ==
  ASSUME IInv, CodeInv, LinkInv
  PROVE  /\ list \in Seq(1..Len(heap)) /\ Len(list) \in Nat \ {0} /\ heap \in Seq(IrNode)
         /\ \A i \in 1..Len(list) : At(i) \in IrNode /\ list[i] \notin 2..4
         /\ \A i, j \in 1..Len(list) : list[i] = list[j] => i = j
<1>1. /\ list \in Seq(1..Len(heap)) /\ list # <<>> /\ heap \in Seq(IrNode)
  BY HandlerState
<1>2. \A i, j \in 1..Len(list) : list[i] = list[j] => i = j
  BY DEF CodeInv, ListInv
<1>3. ASSUME NEW i \in 1..Len(list) PROVE At(i) \in IrNode /\ list[i] \notin 2..4
  <2>1. At(i) \in IrNode
    BY <1>1 DEF At
  <2>2. ASSUME list[i] \in 2..4 PROVE FALSE
    <3>1. PICK k \in 1..Len(functions) :
             functions[k].node = NULL /\ functions[k].ir_list_head = list[i]
      BY <2>2, LibraryNodes DEF LinkInv, LibraryKnown
    <3>2. ~ Listed(list[i])
      BY <3>1 DEF CodeInv, ListInv, Waiting
    <3> QED BY <3>2 DEF Listed
  <2> QED BY <2>1, <2>2
<1> QED BY <1>1, <1>2, <1>3

\* Every jump and call has a target: a node of the list or a function of the
\* library, and a jump a node of the list.
LEMMA Targets ==
  ASSUME IInv, CodeInv, RegionInv, phase = "done",
         NEW i \in 1..Len(list), At(i).operation \in {"JMP", "CALL"}
  PROVE  /\ At(i).jump_target \in 1..Len(heap)
         /\ \/ \E j \in 1..Len(list) : list[j] = At(i).jump_target
            \/ /\ At(i).operation = "CALL"
               /\ \E k \in 1..Len(functions) :
                    functions[k].node = NULL /\ functions[k].ir_list_head = At(i).jump_target
<1>1. ControlFlowClosed /\ list \in Seq(1..Len(heap))
  BY JumpsClosed, HandlerState
<1>2. CASE At(i).operation = "JMP"
  <2>1. PICK k \in Compiled : i \in Code(k)
    BY <1>1, <1>2 DEF ControlFlowClosed
  <2>2. PICK j \in Code(k) : list[j] = At(i).jump_target
    BY <1>1, <1>2, <2>1 DEF ControlFlowClosed
  <2>3. PICK last \in 1..Len(list) : \E first \in 1..last : Code(k) = first..last
    BY CompiledPlaced
  <2>4. PICK first \in 1..last : Code(k) = first..last
    BY <2>3
  <2>5. j \in 1..Len(list)
    BY <1>1, <2>2, <2>4
  <2> QED BY <1>1, <2>2, <2>5
<1>3. CASE At(i).operation = "CALL"
  <2>1. PICK k \in 1..Len(functions) : At(i).jump_target = functions[k].ir_list_head
    BY <1>1, <1>3 DEF ControlFlowClosed
  <2>2. functions[k].ir_list_head \in 1..Len(heap)
    BY DEF IInv, FunctionTable
  <2>3. functions[k].node = NULL \/ Listed(functions[k].ir_list_head)
    BY <1>1 DEF ControlFlowClosed
  <2> QED BY <1>3, <2>1, <2>2, <2>3 DEF Listed
<1> QED BY <1>2, <1>3

\* Before the encoder is called nothing is encoded.
LEMMA NothingEncoded ==
  ASSUME pass = "idle"
  PROVE  Encoded = 0 /\ Passed = 0
BY DEF Encoded, Passed

\* How far the encoder is, in each pass.
LEMMA Progress ==
  /\ pass = "opcodes" => Encoded = at - 1 /\ Passed = 0
  /\ pass = "jumps"   => Encoded = Len(list) /\ Passed = at - 1
  /\ pass = "encoded" => Encoded = Len(list) /\ Passed = Len(list)
BY DEF Encoded, Passed

\* The first address given is the one behind the library.
LEMMA EncodingStarts ==
  ASSUME EncoderInv, phase = "done", UNCHANGED vars, E!start_encoding, Len(list) \in Nat
  PROVE  EncoderInv'
<1>1. /\ pass = "idle" /\ pass' = "opcodes" /\ at' = 1 /\ cur_addr' = E!BASE_OFFSET
      /\ UNCHANGED <<addr, encoded_length, patched, list, heap, phase>>
  BY DEF E!start_encoding, vars, code, control
<1>2. Encoded = 0 /\ Passed = 0 /\ Encoded' = 0 /\ Passed' = 0
  BY <1>1, NothingEncoded DEF Encoded, Passed
<1>3. AddressesGiven'
  <2>1. AddressesGiven
    BY DEF EncoderInv
  <2> QED BY <1>1, <1>2, <2>1 DEF AddressesGiven
<1>4. DisplacementsGiven'
  BY <1>2 DEF DisplacementsGiven
<1> QED BY <1>1, <1>3, <1>4 DEF EncoderInv

\* What has been encoded lies below the next address.
LEMMA NextAddress ==
  ASSUME AddressesGiven, pass # "idle", Encoded \in Nat, cur_addr \in Int,
         \A i \in 1..Encoded : E!length_of(At(i)) \in 1..16
  PROVE  /\ cur_addr >= E!BASE_OFFSET
         /\ \A i \in 1..Encoded : Begins(i) \in Int /\ EndOf(i) = Begins(i) + E!length_of(At(i))
<1>1. E!BASE_OFFSET \in Int
  BY DEF E!BASE_OFFSET
<1>2. ASSUME NEW i \in 1..Encoded
      PROVE  /\ Begins(i) \in Int /\ EndOf(i) = Begins(i) + E!length_of(At(i))
             /\ cur_addr >= E!BASE_OFFSET
  <2>1. /\ encoded_length[list[i]] = E!length_of(At(i))
        /\ Begins(i) \in E!BASE_OFFSET..cur_addr
    BY DEF AddressesGiven
  <2> QED BY <1>1, <2>1 DEF EndOf, Begins
<1>3. CASE Encoded = 0
  BY <1>1, <1>2, <1>3 DEF AddressesGiven
<1>4. CASE Encoded # 0
  <2>1. 1 \in 1..Encoded
    BY <1>4
  <2> QED BY <1>2, <2>1
<1> QED BY <1>3, <1>4

\* One more node is encoded, behind the others; it was not encoded before.
LEMMA EncodingGoesOn ==
  ASSUME IInv, CodeInv, LinkInv, EncoderInv, UNCHANGED vars, E!fill_opcode
  PROVE  EncoderInv'
<1>1. PICK p : p = at
  OBVIOUS
<1> DEFINE id == list[p]
           len == E!length_of(At(p))
<1>2. /\ pass = "opcodes" /\ pass' = "opcodes" /\ p <= Len(list) /\ at' = p + 1
      /\ encoded_length' = E!With(encoded_length, id, len)
      /\ addr' = E!With(addr, id, cur_addr)
      /\ cur_addr' = cur_addr + len
      /\ UNCHANGED <<patched, list, heap, phase>>
  BY <1>1 DEF E!fill_opcode, E!current, vars, code, control, At
<1>3. /\ Len(list) \in Nat
      /\ \A i \in 1..Len(list) : At(i) \in IrNode /\ list[i] \notin 2..4
      /\ \A i, j \in 1..Len(list) : list[i] = list[j] => i = j
  BY ListToEncode
<1>4. p \in 1..Len(list) /\ phase = "done" /\ AddressesGiven
  BY <1>1, <1>2, <1>3 DEF EncoderInv
<1>5. Encoded = p - 1 /\ Encoded' = p /\ Passed' = 0
  <2>1. (p + 1) - 1 = p
    BY <1>3, <1>4
  <2> QED BY <1>1, <1>2, <2>1 DEF Encoded, Passed
<1>6. /\ p \in Nat /\ p >= 1 /\ p - 1 \in Nat /\ p \in 1..p
      /\ \A i \in 1..p : i \in 1..Len(list) /\ (i \in 1..(p - 1) \/ i = p)
      /\ \A i \in 1..(p - 1) : i \in 1..p /\ i # p /\ i \in 1..Len(list)
  BY <1>3, <1>4
<1>7. len \in 1..16 /\ \A i \in 1..(p - 1) : E!length_of(At(i)) \in 1..16
  <2>1. \A i \in 1..Len(list) : E!length_of(At(i)) \in 1..16
    BY <1>3, Lengths
  <2> QED BY <1>4, <1>6, <2>1
<1>8. E!BASE_OFFSET \in Int
  BY DEF E!BASE_OFFSET
<1>9. cur_addr = IF p = 1 THEN E!BASE_OFFSET ELSE EndOf(p - 1)
  <2>1. p - 1 = 0 <=> p = 1
    BY <1>6
  <2>2. cur_addr = IF Encoded = 0 THEN E!BASE_OFFSET ELSE EndOf(Encoded)
    BY <1>2, <1>4 DEF AddressesGiven
  <2> QED BY <1>5, <2>1, <2>2
<1>10. cur_addr \in Int /\ cur_addr >= E!BASE_OFFSET
  <2>1. CASE p = 1
    BY <1>8, <1>9, <2>1
  <2>2. CASE p # 1
    <3>1. p - 1 \in 1..(p - 1)
      BY <1>6, <2>2
    <3>2. /\ encoded_length[list[p - 1]] \in 1..16
          /\ Begins(p - 1) \in E!BASE_OFFSET..cur_addr
      BY <1>4, <1>5, <1>7, <3>1 DEF AddressesGiven
    <3>3. cur_addr = Begins(p - 1) + encoded_length[list[p - 1]]
      BY <1>9, <2>2 DEF EndOf, Begins
    <3> QED BY <1>8, <3>2, <3>3
  <2> QED BY <2>1, <2>2
<1>11. \A i \in 1..(p - 1) : Begins(i) \in Int /\ EndOf(i) = Begins(i) + E!length_of(At(i))
  <2>1. Encoded \in Nat /\ pass # "idle" /\ \A i \in 1..Encoded : E!length_of(At(i)) \in 1..16
    BY <1>2, <1>5, <1>6, <1>7
  <2>2. \A i \in 1..Encoded : Begins(i) \in Int /\ EndOf(i) = Begins(i) + E!length_of(At(i))
    BY <1>4, <1>10, <2>1, NextAddress
  <2> QED BY <1>5, <2>2
<1> HIDE DEF id, len
<1>12. /\ DOMAIN addr' = DOMAIN addr \cup {id} /\ addr'[id] = cur_addr
       /\ \A node \in DOMAIN addr : node # id => addr'[node] = addr[node]
       /\ DOMAIN encoded_length' = DOMAIN encoded_length \cup {id} /\ encoded_length'[id] = len
       /\ \A node \in DOMAIN encoded_length : node # id =>
            encoded_length'[node] = encoded_length[node]
  <2>1. addr' = E!With(addr, id, cur_addr) /\ encoded_length' = E!With(encoded_length, id, len)
    BY <1>2
  <2>2. /\ DOMAIN E!With(addr, id, cur_addr) = DOMAIN addr \cup {id}
        /\ E!With(addr, id, cur_addr)[id] = cur_addr
        /\ \A node \in DOMAIN addr :
             node # id => E!With(addr, id, cur_addr)[node] = addr[node]
    BY DEF E!With
  <2>3. /\ DOMAIN E!With(encoded_length, id, len) = DOMAIN encoded_length \cup {id}
        /\ E!With(encoded_length, id, len)[id] = len
        /\ \A node \in DOMAIN encoded_length :
             node # id => E!With(encoded_length, id, len)[node] = encoded_length[node]
    BY DEF E!With
  <2> QED BY ONLY <2>1, <2>2, <2>3
<1>13. /\ DOMAIN addr = 2..4 \cup {list[i] : i \in 1..(p - 1)}
       /\ DOMAIN encoded_length = {list[i] : i \in 1..(p - 1)}
       /\ \A node \in 2..4 : addr[node] = E!STDLIB_ADDR[node]
  BY <1>4, <1>5, LibraryNodes DEF AddressesGiven
<1>14. {list[i] : i \in 1..(p - 1)} \cup {id} = {list[i] : i \in 1..p}
  BY <1>6 DEF id
<1>15. \A i \in 1..(p - 1) : /\ list[i] # id
                            /\ addr'[list[i]] = addr[list[i]]
                            /\ encoded_length'[list[i]] = encoded_length[list[i]]
  <2> SUFFICES ASSUME NEW i \in 1..(p - 1)
               PROVE  /\ list[i] # id
                      /\ addr'[list[i]] = addr[list[i]]
                      /\ encoded_length'[list[i]] = encoded_length[list[i]]
    OBVIOUS
  <2>1. list[i] # id
    BY <1>3, <1>4, <1>6 DEF id
  <2>2. list[i] \in DOMAIN addr /\ list[i] \in DOMAIN encoded_length
    BY <1>13
  <2> QED BY <1>12, <2>1, <2>2
<1>16. /\ \A i \in 1..(p - 1) : Begins(i)' = Begins(i) /\ EndOf(i)' = EndOf(i)
       /\ \A i \in 1..p : At(i)' = At(i)
  BY <1>2, <1>15 DEF Begins, EndOf, At
<1>17. /\ Begins(p)' = cur_addr /\ EndOf(p)' = cur_addr + len
       /\ encoded_length'[list'[p]] = len
  BY <1>2, <1>12 DEF Begins, EndOf, id
<1>18. cur_addr' \in Int /\ cur_addr <= cur_addr' /\ cur_addr' = EndOf(p)'
  <2>1. cur_addr' = cur_addr + len
    BY <1>2
  <2> QED BY ONLY <1>7, <1>10, <1>17, <2>1
<1>19. ASSUME NEW i \in 1..p
       PROVE  /\ encoded_length'[list'[i]] = E!length_of(At(i))
              /\ Begins(i)' = IF i = 1 THEN E!BASE_OFFSET ELSE EndOf(i - 1)'
              /\ Begins(i)' \in E!BASE_OFFSET..cur_addr'
              /\ EndOf(i)' <= cur_addr'
  <2>1. CASE i = p
    <3>1. p = 1 \/ p - 1 \in 1..(p - 1)
      BY <1>6
    <3>2. Begins(p)' = IF p = 1 THEN E!BASE_OFFSET ELSE EndOf(p - 1)'
      BY <1>9, <1>16, <1>17, <3>1
    <3>3. Begins(p)' \in E!BASE_OFFSET..cur_addr' /\ EndOf(p)' <= cur_addr'
      BY <1>8, <1>10, <1>17, <1>18
    <3>4. len = E!length_of(At(p))
      BY DEF len
    <3> QED BY <1>17, <2>1, <3>2, <3>3, <3>4
  <2>2. CASE i # p
    <3>1. i \in 1..(p - 1)
      BY <1>6, <2>2
    <3>2. /\ encoded_length[list[i]] = E!length_of(At(i))
          /\ Begins(i) = IF i = 1 THEN E!BASE_OFFSET ELSE EndOf(i - 1)
          /\ Begins(i) \in E!BASE_OFFSET..cur_addr
          /\ EndOf(i) <= cur_addr
      BY <1>4, <1>5, <3>1 DEF AddressesGiven
    <3>3. i = 1 \/ i - 1 \in 1..(p - 1)
      BY <1>6, <3>1
    <3>4. Begins(i)' = IF i = 1 THEN E!BASE_OFFSET ELSE EndOf(i - 1)'
      BY <1>16, <3>1, <3>2, <3>3
    <3>5. encoded_length'[list'[i]] = E!length_of(At(i))
      BY <1>2, <1>15, <3>1, <3>2
    <3>6. EndOf(i) \in Int /\ EndOf(i)' = EndOf(i) /\ Begins(i)' = Begins(i)
      <4>1. E!length_of(At(i)) \in Int
        BY <1>7, <3>1
      <4> QED BY <1>11, <1>16, <3>1, <4>1
    <3>7. Begins(i)' \in E!BASE_OFFSET..cur_addr'
      BY <1>8, <1>10, <1>18, <3>2, <3>6
    <3>8. EndOf(i)' <= cur_addr'
      BY <1>10, <1>18, <3>2, <3>6
    <3> QED BY <3>4, <3>5, <3>7, <3>8
  <2> QED BY <2>1, <2>2
<1>20. AddressesGiven'
  <2>1. \A i \in 1..p : At(i)' = At(i)
    BY <1>16
  <2>2. p # 0
    BY <1>6
  <2>3. /\ DOMAIN addr' = 2..4 \cup {list[i] : i \in 1..p}
        /\ DOMAIN encoded_length' = {list[i] : i \in 1..p}
    BY <1>12, <1>13, <1>14
  <2>4. \A node \in 2..4 : addr'[node] = E!STDLIB_ADDR[node]
    <3>1. id \notin 2..4
      BY <1>3, <1>4 DEF id
    <3> QED BY <1>12, <1>13, <3>1
  <2>5. cur_addr' = IF Encoded' = 0 THEN E!BASE_OFFSET ELSE EndOf(p)'
    BY <1>5, <1>18, <2>2
  <2> QED BY <1>2, <1>5, <1>19, <2>1, <2>3, <2>4, <2>5, LibraryNodes DEF AddressesGiven
<1>21. DisplacementsGiven'
  BY <1>5 DEF DisplacementsGiven
<1>22. at' \in 1..(Len(list') + 1)
  BY <1>2, <1>3, <1>4
<1> QED BY <1>2, <1>4, <1>20, <1>21, <1>22 DEF EncoderInv

\* Nothing behind the first pass changes an address.
LEMMA AddressesKept ==
  ASSUME EncoderInv, UNCHANGED vars, UNCHANGED <<cur_addr, addr, encoded_length>>,
         pass # "idle", Encoded' = Encoded
  PROVE  AddressesGiven'
<1>1. UNCHANGED <<list, heap>> /\ AddressesGiven
  BY DEF vars, code, EncoderInv
<1> QED BY <1>1 DEF AddressesGiven, Begins, EndOf, At

\* The second pass starts when all nodes have their addresses.
LEMMA JumpsStart ==
  ASSUME EncoderInv, Len(list) \in Nat, UNCHANGED vars, E!start_jumps
  PROVE  EncoderInv'
<1>1. /\ pass = "opcodes" /\ pass' = "jumps" /\ at > Len(list) /\ at' = 1
      /\ UNCHANGED <<cur_addr, addr, encoded_length, patched, list, phase>>
  BY DEF E!start_jumps, vars, code, control
<1>2. at \in 1..(Len(list) + 1) /\ phase = "done"
  BY <1>1 DEF EncoderInv
<1>3. Encoded = Len(list) /\ Encoded' = Len(list) /\ Passed' = 0
  <2>1. at - 1 = Len(list)
    BY <1>1, <1>2
  <2> QED BY <1>1, <2>1 DEF Encoded, Passed
<1>4. AddressesGiven'
  BY <1>1, <1>3, AddressesKept
<1>5. DisplacementsGiven'
  BY <1>3 DEF DisplacementsGiven
<1> QED BY <1>1, <1>2, <1>4, <1>5 DEF EncoderInv

\* A jump or call is passed again: it has a target, whose address is known.
LEMMA JumpsGoOn ==
  ASSUME IInv, CodeInv, RegionInv, LinkInv, EncoderInv, UNCHANGED vars, E!update_jump
  PROVE  EncoderInv'
<1>1. PICK p : p = at
  OBVIOUS
<1> DEFINE id == list[p]
           node == At(p)
           value == IF node.jump_target = NIL THEN 0
                    ELSE E!displacement(id, node.jump_target)
           new == [start |-> E!opcode_length(node), value |-> value]
<1>2. /\ pass = "jumps" /\ pass' = "jumps" /\ p <= Len(list) /\ at' = p + 1
      /\ patched' = IF node.operation \in {"JMP", "CALL"} THEN E!With(patched, id, new)
                    ELSE patched
      /\ UNCHANGED <<cur_addr, addr, encoded_length, list, heap, phase>>
  BY <1>1 DEF E!update_jump, E!current, E!NIL, NIL, vars, code, control, At
<1>3. /\ Len(list) \in Nat
      /\ \A i, j \in 1..Len(list) : list[i] = list[j] => i = j
  BY ListToEncode
<1>4. p \in 1..Len(list) /\ phase = "done" /\ DisplacementsGiven
  BY <1>1, <1>2, <1>3 DEF EncoderInv
<1>5. /\ Encoded = Len(list) /\ Encoded' = Len(list)
      /\ Passed = p - 1 /\ Passed' = p
  <2>1. (p + 1) - 1 = p
    BY <1>3, <1>4
  <2> QED BY <1>1, <1>2, <2>1 DEF Encoded, Passed
<1>6. /\ \A i \in 1..p : i \in 1..Len(list) /\ (i \in 1..(p - 1) \/ i = p)
      /\ \A i \in 1..(p - 1) : i # p /\ i \in 1..Len(list)
  BY <1>3, <1>4
<1>7. AddressesGiven'
  BY <1>2, <1>5, AddressesKept
<1>8. ASSUME NEW i \in 1..p, At(i).operation \in {"JMP", "CALL"}
      PROVE  /\ list[i] \in DOMAIN patched'
             /\ patched'[list[i]].start = E!opcode_length(At(i))
             /\ patched'[list[i]].value = E!displacement(list[i], At(i).jump_target)
  <2>1. CASE i = p
    <3>1. node.jump_target # NIL
      <4>1. node.jump_target \in 1..Len(heap)
        BY <1>4, <1>8, <2>1, Targets
      <4>2. Len(heap) \in Nat
        BY HandlerState
      <4> QED BY <4>1, <4>2 DEF NIL
    <3>2. new.start = E!opcode_length(At(i)) /\ new.value = E!displacement(list[i], At(i).jump_target)
      BY <2>1, <3>1
    <3>3. patched' = E!With(patched, id, new)
      BY <1>2, <1>8, <2>1
    <3> HIDE DEF new
    <3>4. id \in DOMAIN patched' /\ patched'[id] = new
      BY <3>3 DEF E!With
    <3> QED BY <2>1, <3>2, <3>4
  <2>2. CASE i # p
    <3>1. i \in 1..(p - 1) /\ list[i] # id
      BY <1>3, <1>4, <1>6, <2>2
    <3>2. /\ list[i] \in DOMAIN patched
          /\ patched[list[i]].start = E!opcode_length(At(i))
          /\ patched[list[i]].value = E!displacement(list[i], At(i).jump_target)
      BY <1>4, <1>5, <1>8, <3>1 DEF DisplacementsGiven
    <3> HIDE DEF new, id, node
    <3>3. list[i] \in DOMAIN patched' /\ patched'[list[i]] = patched[list[i]]
      BY <1>2, <3>1, <3>2 DEF E!With
    <3> QED BY <3>2, <3>3
  <2> QED BY <2>1, <2>2
<1>9. DisplacementsGiven'
  <2>1. \A i \in 1..p : At(i)' = At(i) /\ list'[i] = list[i]
    BY <1>2 DEF At
  <2>2. \A a, b : E!displacement(a, b)' = E!displacement(a, b)
    BY <1>2 DEF E!displacement, E!AddrOf
  <2>3. \A i \in 1..p : E!opcode_length(At(i))' = E!opcode_length(At(i))
    BY <1>2 DEF E!opcode_length, At
  <2>4. \A i \in 1..p : E!displacement(list[i], At(i).jump_target)'
                          = E!displacement(list[i], At(i).jump_target)
    BY <1>2 DEF E!displacement, E!AddrOf, At
  <2> QED BY <1>2, <1>5, <1>8, <2>1, <2>3, <2>4 DEF DisplacementsGiven
<1>10. at' \in 1..(Len(list') + 1)
  BY <1>2, <1>3, <1>4
<1> QED BY <1>2, <1>4, <1>7, <1>9, <1>10 DEF EncoderInv

\* When all nodes have been passed again every jump has its displacement.
LEMMA JumpsEnd ==
  ASSUME EncoderInv, Len(list) \in Nat, UNCHANGED vars, E!jumps_updated
  PROVE  EncoderInv'
<1>1. /\ pass = "jumps" /\ pass' = "encoded" /\ at > Len(list)
      /\ UNCHANGED <<cur_addr, addr, encoded_length, patched, list, heap, phase>>
  BY DEF E!jumps_updated, vars, code, control
<1>2. at \in 1..(Len(list) + 1) /\ phase = "done"
  BY <1>1 DEF EncoderInv
<1>3. /\ Encoded = Len(list) /\ Encoded' = Len(list)
      /\ Passed = Len(list) /\ Passed' = Len(list)
  <2>1. at - 1 = Len(list)
    BY <1>1, <1>2
  <2> QED BY <1>1, <2>1 DEF Encoded, Passed
<1>4. AddressesGiven'
  BY <1>1, <1>3, AddressesKept
<1>5. DisplacementsGiven'
  <2>1. DisplacementsGiven
    BY DEF EncoderInv
  <2> QED BY <1>1, <1>3, <2>1 DEF DisplacementsGiven, E!displacement, E!AddrOf, At
<1> QED BY <1>1, <1>2, <1>4, <1>5 DEF EncoderInv

\* Everything else leaves the encoder alone, which has not been called while
\* the code generator works.
LEMMA EncoderIdle ==
  ASSUME EncoderInv, UNCHANGED encoderVars, CodeGenStep \/ UNCHANGED vars
  PROVE  EncoderInv'
<1>1. UNCHANGED <<pass, at, cur_addr, addr, encoded_length, patched>>
  BY DEF encoderVars
<1>2. CASE UNCHANGED vars
  <2>1. UNCHANGED <<list, heap, phase>>
    BY <1>2 DEF vars, code, control
  <2>2. Encoded' = Encoded /\ Passed' = Passed
    BY <1>1, <2>1 DEF Encoded, Passed
  <2>3. AddressesGiven'
    <3>1. AddressesGiven
      BY DEF EncoderInv
    <3> QED BY <1>1, <2>1, <2>2, <3>1 DEF AddressesGiven, Begins, EndOf, At
  <2>4. DisplacementsGiven'
    <3>1. DisplacementsGiven
      BY DEF EncoderInv
    <3> QED BY <1>1, <2>1, <2>2, <3>1 DEF DisplacementsGiven, At, E!displacement, E!AddrOf
  <2> QED BY <1>1, <2>1, <2>3, <2>4 DEF EncoderInv
<1>3. CASE CodeGenStep
  <2>1. phase # "done"
    BY <1>3 DEF CodeGenStep, HandleNode, Driver, Failure, Handling, Extracting,
       compile_NVAR, compile_ASS, compile_VAR, compile_CONST, compile_OP_dividend, compile_OP,
       compile_CALL, compile_RET, compile_SEQ, compile_BLOCK_begin, compile_BLOCK_end,
       compile_WHILE_start, compile_WHILE_test, compile_WHILE_end, compile_BRANCH_test,
       compile_BRANCH_else, compile_BRANCH_end, compile_NFUN_begin, compile_NFUN_body,
       compile_NFUN_end, compile_nothing, extract_variable, extract_function, emit_entry,
       compile_next_function, all_compiled, UndefinedVariable, UndefinedFunction,
       WrongArgumentCount, MissingReturn, Redefinition, MissingMain
  <2>2. pass = "idle"
    BY <2>1 DEF EncoderInv
  <2>3. Encoded = 0 /\ Passed = 0 /\ Encoded' = 0 /\ Passed' = 0
    BY <1>1, <2>2 DEF Encoded, Passed
  <2>4. AddressesGiven'
    <3>1. AddressesGiven
      BY DEF EncoderInv
    <3> QED BY <1>1, <2>2, <2>3, <3>1 DEF AddressesGiven
  <2>5. DisplacementsGiven'
    BY <2>3 DEF DisplacementsGiven
  <2> QED BY <1>1, <2>2, <2>4, <2>5 DEF EncoderInv
<1> QED BY <1>2, <1>3

\* At first only the library has addresses.
LEMMA InitialEncoder ==
  ASSUME E!EncoderInit
  PROVE  EncoderInv
<1>1. /\ pass = "idle" /\ addr = E!STDLIB_ADDR /\ encoded_length = <<>>
  BY DEF E!EncoderInit
<1>2. Encoded = 0 /\ Passed = 0
  BY <1>1, NothingEncoded
<1>3. AddressesGiven
  <2>1. DOMAIN encoded_length = {}
    BY <1>1
  <2>2. {list[i] : i \in 1..Encoded} = {} /\ 1..Encoded = {}
    BY <1>2
  <2>3. DOMAIN addr = DOMAIN E!STDLIB_ADDR \cup {list[i] : i \in 1..Encoded}
    BY <1>1, <2>2
  <2>4. \A id \in DOMAIN E!STDLIB_ADDR : addr[id] = E!STDLIB_ADDR[id]
    BY <1>1
  <2> QED BY <1>1, <2>1, <2>2, <2>3, <2>4 DEF AddressesGiven
<1>4. DisplacementsGiven
  BY <1>2 DEF DisplacementsGiven
<1> QED BY <1>1, <1>3, <1>4 DEF EncoderInv

\* Every step of the backend keeps what the encoder has written.
LEMMA EncoderStep ==
  ASSUME IInv, CodeInv, RegionInv, LinkInv, EncoderInv, [BackendNext]_backendVars
  PROVE  EncoderInv'
<1>1. CASE EncodeList
  <2>1. phase = "done" /\ E!Encode /\ UNCHANGED vars
    BY <1>1 DEF EncodeList
  <2>2. Len(list) \in Nat
    BY HandlerState
  <2> QED BY <2>1, <2>2, EncodingStarts, EncodingGoesOn, JumpsStart, JumpsGoOn, JumpsEnd
          DEF E!Encode
<1>2. CASE Generate
  BY <1>2, EncoderIdle DEF Generate
<1>3. CASE RunProgram \/ Ended \/ UNCHANGED backendVars
  BY <1>3, EncoderIdle DEF RunProgram, Ended, backendVars
<1> QED BY <1>1, <1>2, <1>3 DEF BackendNext

-----------------------------------------------------------------------------
(* The encoded program.                                                    *)

\* Where each instruction lies when all have been encoded.
Placement(i) ==
  /\ list[i] \in DOMAIN addr
  /\ encoded_length[list[i]] = E!length_of(At(i))
  /\ E!length_of(At(i)) \in 1..16
  /\ Begins(i) \in Int /\ Begins(i) >= E!BASE_OFFSET
  /\ EndOf(i) = Begins(i) + E!length_of(At(i))
  /\ EndOf(i) <= cur_addr
  /\ Begins(i) = IF i = 1 THEN E!BASE_OFFSET ELSE EndOf(i - 1)

\* The numbers in it.
LEMMA PlacementBounds ==
  ASSUME NEW i, Placement(i)
  PROVE  /\ Begins(i) \in Int /\ Begins(i) >= E!BASE_OFFSET
         /\ EndOf(i) \in Int /\ Begins(i) < EndOf(i) /\ EndOf(i) <= cur_addr
         /\ EndOf(i) <= Begins(i) + 16
         /\ Begins(i) = IF i = 1 THEN E!BASE_OFFSET ELSE EndOf(i - 1)
<1>1. PICK length : length = E!length_of(At(i))
  OBVIOUS
<1>2. /\ length \in 1..16
      /\ Begins(i) \in Int /\ Begins(i) >= E!BASE_OFFSET
      /\ EndOf(i) = Begins(i) + length
      /\ EndOf(i) <= cur_addr
      /\ Begins(i) = IF i = 1 THEN E!BASE_OFFSET ELSE EndOf(i - 1)
  BY <1>1, Zenon DEF Placement
<1>3. EndOf(i) \in Int /\ Begins(i) < EndOf(i) /\ EndOf(i) <= Begins(i) + 16
  BY ONLY <1>2
<1> QED BY <1>2, <1>3, Zenon

\* All instructions lie one behind the other, and cur_addr behind the last.
LEMMA Layout ==
  ASSUME IInv, CodeInv, LinkInv, EncoderInv, pass = "encoded"
  PROVE  /\ \A i \in 1..Len(list) : Placement(i)
         /\ cur_addr \in Int /\ cur_addr = EndOf(Len(list))
         /\ Len(list) \in Nat \ {0}
<1>1. Encoded = Len(list) /\ AddressesGiven
  BY Progress DEF EncoderInv
<1>2. Len(list) \in Nat \ {0} /\ \A i \in 1..Len(list) : At(i) \in IrNode
  BY ListToEncode
<1>3. E!BASE_OFFSET \in Int
  BY DEF E!BASE_OFFSET
<1>4. ASSUME NEW i \in 1..Len(list) PROVE Placement(i)
  <2>1. E!length_of(At(i)) \in 1..16
    BY <1>2, Lengths
  <2>2. /\ encoded_length[list[i]] = E!length_of(At(i))
        /\ Begins(i) = IF i = 1 THEN E!BASE_OFFSET ELSE EndOf(i - 1)
        /\ Begins(i) \in E!BASE_OFFSET..cur_addr
        /\ EndOf(i) <= cur_addr
    BY <1>1 DEF AddressesGiven
  <2>3. list[i] \in DOMAIN addr
    BY <1>1 DEF AddressesGiven
  <2>4. Begins(i) \in Int /\ Begins(i) >= E!BASE_OFFSET
    BY <1>3, <2>2
  <2>5. EndOf(i) = Begins(i) + E!length_of(At(i))
    BY <2>2 DEF EndOf, Begins
  <2> QED BY <2>1, <2>2, <2>3, <2>4, <2>5 DEF Placement
<1>5. cur_addr = EndOf(Len(list))
  BY <1>1, <1>2 DEF AddressesGiven
<1>6. cur_addr \in Int
  <2>1. Placement(Len(list))
    BY <1>2, <1>4
  <2> QED BY <1>5, <2>1 DEF Placement
<1> QED BY <1>2, <1>4, <1>5, <1>6

\* The address of a node of the list or of the library is known, and not zero.
LEMMA KnownAddress ==
  ASSUME IInv, CodeInv, LinkInv, EncoderInv, pass = "encoded",
         NEW id, (\E j \in 1..Len(list) : list[j] = id) \/ id \in 2..4
  PROVE  /\ id \in DOMAIN addr
         /\ E!AddrOf(id) = addr[id]
         /\ addr[id] \in Nat \ {0}
<1>1. CASE \E j \in 1..Len(list) : list[j] = id
  <2>1. PICK j \in 1..Len(list) : list[j] = id
    BY <1>1
  <2>2. Placement(j)
    BY Layout
  <2>3. E!BASE_OFFSET \in Nat \ {0}
    BY DEF E!BASE_OFFSET
  <2> QED BY <2>1, <2>2, <2>3 DEF Placement, Begins, E!AddrOf
<1>2. CASE id \in 2..4
  <2>1. id \in DOMAIN addr /\ addr[id] = E!STDLIB_ADDR[id]
    BY <1>2, LibraryNodes DEF EncoderInv, AddressesGiven
  <2>2. E!STDLIB_ADDR[id] \in Nat \ {0}
    BY <1>2 DEF E!STDLIB_ADDR
  <2> QED BY <2>1, <2>2 DEF E!AddrOf
<1> QED BY <1>1, <1>2

\* A jump or call leads to its target, a node of the list or of the library.
LEMMA Landing ==
  ASSUME IInv, CodeInv, RegionInv, LinkInv, EncoderInv, pass = "encoded",
         NEW i \in 1..Len(list), At(i).operation \in {"JMP", "CALL"}
  PROVE  /\ At(i).jump_target \in DOMAIN addr
         /\ E!AddrOf(At(i).jump_target) = addr[At(i).jump_target]
         /\ addr[At(i).jump_target] \in Nat \ {0}
         /\ EndOf(i) + patched[list[i]].value = addr[At(i).jump_target]
         /\ patched[list[i]].start + 4 = encoded_length[list[i]]
         /\ \/ \E j \in 1..Len(list) : list[j] = At(i).jump_target
            \/ /\ At(i).operation = "CALL"
               /\ \A j \in 1..Len(list) : list[j] # At(i).jump_target
<1>0. PICK target : target = At(i).jump_target
  OBVIOUS
<1>1. phase = "done" /\ DisplacementsGiven /\ Passed = Len(list)
  BY Progress DEF EncoderInv
<1>2. \/ \E j \in 1..Len(list) : list[j] = target
      \/ At(i).operation = "CALL" /\ target \in 2..4
  <2>1. \/ \E j \in 1..Len(list) : list[j] = target
        \/ /\ At(i).operation = "CALL"
           /\ \E k \in 1..Len(functions) :
                functions[k].node = NULL /\ functions[k].ir_list_head = target
    BY <1>0, <1>1, Targets
  <2> QED BY <2>1, LibraryNodes DEF LinkInv, LibraryKnown
<1>3. target \in DOMAIN addr /\ E!AddrOf(target) = addr[target] /\ addr[target] \in Nat \ {0}
  BY <1>2, KnownAddress
<1>4. /\ patched[list[i]].start = E!opcode_length(At(i))
      /\ patched[list[i]].value = E!displacement(list[i], target)
  BY <1>0, <1>1 DEF DisplacementsGiven
<1>5. Placement(i)
  BY Layout
<1>6. EndOf(i) + patched[list[i]].value = addr[target]
  <2>1. patched[list[i]].value = - (EndOf(i) - addr[target])
    <3>1. E!displacement(list[i], target)
            = - (addr[list[i]] + encoded_length[list[i]] - E!AddrOf(target))
      BY Zenon DEF E!displacement
    <3>2. EndOf(i) = addr[list[i]] + encoded_length[list[i]]
      BY DEF EndOf
    <3>3. E!AddrOf(target) = addr[target]
      BY <1>3
    <3>4. addr[list[i]] + encoded_length[list[i]] - E!AddrOf(target) = EndOf(i) - addr[target]
      <4>1. addr[list[i]] \in Int
        BY <1>5 DEF Placement, Begins
      <4>2. encoded_length[list[i]] \in Int
        BY <1>5 DEF Placement
      <4>3. addr[target] \in Int
        BY <1>3
      <4> QED BY <3>2, <3>3, <4>1, <4>2, <4>3
    <3>5. E!displacement(list[i], target) = - (EndOf(i) - addr[target])
      BY ONLY <3>1, <3>4, Zenon
    <3> QED BY ONLY <1>4, <3>5
  <2>2. EndOf(i) \in Int
    BY <1>5 DEF Placement
  <2>3. addr[target] \in Int
    BY <1>3
  <2> QED BY <2>1, <2>2, <2>3
<1>7. patched[list[i]].start + 4 = encoded_length[list[i]]
  <2>1. At(i) \in IrNode
    BY ListToEncode
  <2>2. E!opcode_length(At(i)) + 4 = E!length_of(At(i))
    BY <2>1, Lengths
  <2> QED BY <1>4, <1>5, <2>2 DEF Placement
<1>8. target \in 2..4 => \A j \in 1..Len(list) : list[j] # target
  BY ListToEncode
<1> QED BY <1>0, <1>2, <1>3, <1>6, <1>7, <1>8

\* What is proved of all encoded programs.
LEMMA DisplacementsLand ==
  ASSUME IInv, CodeInv, RegionInv, LinkInv, EncoderInv
  PROVE  JumpsLand
<1> SUFFICES ASSUME Linked, NEW i \in 1..Len(list), At(i).operation \in {"JMP", "CALL"}
             PROVE  /\ E!AddrOf(At(i).jump_target) # 0
                    /\ addr[list[i]] + encoded_length[list[i]] + patched[list[i]].value
                         = E!AddrOf(At(i).jump_target)
                    /\ patched[list[i]].start + 4 = encoded_length[list[i]]
  BY DEF JumpsLand
<1>1. pass = "encoded"
  BY DEF Linked
<1>2. /\ E!AddrOf(At(i).jump_target) = addr[At(i).jump_target]
      /\ addr[At(i).jump_target] \in Nat \ {0}
      /\ EndOf(i) + patched[list[i]].value = addr[At(i).jump_target]
      /\ patched[list[i]].start + 4 = encoded_length[list[i]]
  BY <1>1, Landing
<1> QED BY <1>2 DEF EndOf

-----------------------------------------------------------------------------
(* The running program.                                                    *)

\* Behind every instruction but the last lies the next one, and behind the
\* last control does not go on.
LEMMA NextInCode ==
  ASSUME IInv, CodeInv, LinkInv, EncoderInv, pass = "encoded",
         NEW c \in 1..Len(list), At(c).operation \notin {"RET", "SYSCALL"}
  PROVE  M!IsProgramAddress(EndOf(c))
<1>1. phase = "done"
  BY DEF EncoderInv
<1>2. walk = <<>>
  BY <1>1 DEF CodeInv, FunctionOrder
<1>3. At(Len(list)).operation \in {"RET", "SYSCALL"}
  BY <1>1, <1>2 DEF LinkInv, CodeEnds
<1>4. Len(list) \in Nat
  BY Layout
<1>5. c # Len(list)
  BY <1>3
<1>6. c + 1 \in 1..Len(list) /\ c + 1 # 1 /\ (c + 1) - 1 = c
  BY <1>4, <1>5
<1>7. Placement(c + 1)
  BY <1>6, Layout
<1>8. Begins(c + 1) = EndOf(c)
  BY <1>6, <1>7 DEF Placement
<1> QED BY <1>6, <1>8 DEF M!IsProgramAddress, Begins

\* The processor fetches an instruction of the list and sees its length.
LEMMA Fetched ==
  ASSUME IInv, CodeInv, LinkInv, EncoderInv, pass = "encoded", M!IsProgramAddress(pc)
  PROVE  \E c \in 1..Len(list) :
           /\ M!Fetch = list[c] /\ M!Instr = At(c)
           /\ M!NextPc = EndOf(c) /\ M!NextPc \in Int
           /\ Begins(c) = pc
<1>1. PICK c \in 1..Len(list) : M!Fetch = list[c] /\ addr[list[c]] = pc
  <2> DEFINE i == CHOOSE i \in 1..Len(list) : addr[list[i]] = pc
  <2>1. i \in 1..Len(list) /\ addr[list[i]] = pc
    BY DEF M!IsProgramAddress
  <2>2. M!Fetch = list[i]
    BY DEF M!Fetch
  <2> QED BY <2>1, <2>2
<1>2. M!Instr = At(c)
  BY <1>1 DEF M!Instr, At
<1>3. M!NextPc = EndOf(c)
  BY <1>1 DEF M!NextPc, EndOf
<1>4. EndOf(c) \in Int
  <2>1. Placement(c)
    BY Layout
  <2> QED BY <2>1, PlacementBounds, Zenon
<1>5. Begins(c) = pc
  BY <1>1 DEF Begins
<1> QED BY <1>1, <1>2, <1>3, <1>4, <1>5

\* A jump goes to an instruction; so does a call that is not of the library.
LEMMA JumpInCode ==
  ASSUME IInv, CodeInv, RegionInv, LinkInv, EncoderInv, pass = "encoded",
         M!IsProgramAddress(pc), M!Instr.operation \in {"JMP", "CALL"}
  PROVE  /\ M!JumpPc \in Int
         /\ \/ M!IsProgramAddress(M!JumpPc)
            \/ M!Instr.operation = "CALL" /\ M!IsLibraryAddress(M!JumpPc)
<1>1. PICK c \in 1..Len(list) :
        M!Fetch = list[c] /\ M!Instr = At(c) /\ M!NextPc = EndOf(c)
  BY Fetched
<1>2. PICK target : target = At(c).jump_target
  OBVIOUS
<1>3. At(c).operation \in {"JMP", "CALL"}
  BY <1>1
<1>4. /\ target \in DOMAIN addr /\ addr[target] \in Nat \ {0}
      /\ EndOf(c) + patched[list[c]].value = addr[target]
      /\ \/ \E j \in 1..Len(list) : list[j] = target
         \/ /\ At(c).operation = "CALL"
            /\ \A j \in 1..Len(list) : list[j] # target
  BY <1>2, <1>3, Landing
<1>5. M!JumpPc = addr[target]
  BY <1>1, <1>4 DEF M!JumpPc
<1>6. (\E j \in 1..Len(list) : list[j] = target) => M!IsProgramAddress(addr[target])
  BY DEF M!IsProgramAddress
<1>7. (\A j \in 1..Len(list) : list[j] # target) => M!IsLibraryAddress(addr[target])
  BY <1>4 DEF M!IsLibraryAddress
<1> QED BY <1>1, <1>4, <1>5, <1>6, <1>7

\* The addresses of the instructions, and a stack that holds no others to
\* return to.
ProgramAddresses == {addr[list[i]] : i \in 1..Len(list)}

SoundCells(cells, addresses) ==
  /\ cells \in Seq(Cell)
  /\ \A i \in 1..Len(cells) : cells[i].kind = "return" => cells[i].saved \in addresses

\* The addresses of the program, as the processor sees them.
LEMMA IsAddress ==
  ASSUME NEW a
  PROVE  M!IsProgramAddress(a) <=> a \in ProgramAddresses
BY DEF M!IsProgramAddress, ProgramAddresses

\* A cell may be pushed that returns nowhere or to an address of the program.
LEMMA PushedCell ==
  ASSUME NEW addresses, NEW cells, SoundCells(cells, addresses), NEW cell \in Cell,
         cell.kind = "return" => cell.saved \in addresses
  PROVE  SoundCells(Append(cells, cell), addresses)
<1>1. cells \in Seq(Cell) /\ Len(cells) \in Nat
  BY DEF SoundCells
<1>2. /\ Append(cells, cell) \in Seq(Cell)
      /\ Len(Append(cells, cell)) = Len(cells) + 1
      /\ \A i \in 1..(Len(cells) + 1) :
           Append(cells, cell)[i] = IF i = Len(cells) + 1 THEN cell ELSE cells[i]
  BY <1>1
<1>3. ASSUME NEW i \in 1..(Len(cells) + 1), Append(cells, cell)[i].kind = "return"
      PROVE  Append(cells, cell)[i].saved \in addresses
  <2>1. CASE i = Len(cells) + 1
    BY <1>2, <1>3, <2>1
  <2>2. CASE i # Len(cells) + 1
    <3>1. i \in 1..Len(cells)
      BY <1>1, <2>2
    <3> QED BY <1>2, <1>3, <2>2, <3>1 DEF SoundCells
  <2> QED BY <2>1, <2>2
<1> QED BY <1>2, <1>3 DEF SoundCells

\* What is dropped leaves the cells below.
LEMMA DroppedCells ==
  ASSUME NEW addresses, NEW cells, SoundCells(cells, addresses), NEW n \in Nat, n <= Len(cells)
  PROVE  SoundCells(SubSeq(cells, 1, Len(cells) - n), addresses)
<1>1. cells \in Seq(Cell) /\ Len(cells) \in Nat
  BY DEF SoundCells
<1>2. Len(cells) - n \in 0..Len(cells)
  BY <1>1
<1>3. /\ SubSeq(cells, 1, Len(cells) - n) \in Seq(Cell)
      /\ Len(SubSeq(cells, 1, Len(cells) - n)) = Len(cells) - n
      /\ \A i \in 1..(Len(cells) - n) : SubSeq(cells, 1, Len(cells) - n)[i] = cells[i]
  BY <1>1, <1>2
<1>4. 1..(Len(cells) - n) \subseteq 1..Len(cells)
  BY <1>1, <1>2
<1> QED BY <1>3, <1>4 DEF SoundCells

\* The cells of a frame return nowhere.
LEMMA ReservedCells ==
  ASSUME NEW addresses, NEW cells, SoundCells(cells, addresses), NEW n \in Nat
  PROVE  SoundCells(cells \o M!Cells(n), addresses)
<1>1. cells \in Seq(Cell) /\ Len(cells) \in Nat
  BY DEF SoundCells
<1>2. M!FrameCell \in Cell /\ M!FrameCell.kind # "return"
  BY DEF M!FrameCell, Cell
<1>3. /\ M!Cells(n) \in Seq(Cell) /\ Len(M!Cells(n)) = n
      /\ \A i \in 1..n : M!Cells(n)[i] = M!FrameCell
  <2>1. M!Cells(n) = [i \in 1..n |-> M!FrameCell]
    BY DEF M!Cells
  <2>2. [i \in 1..n |-> M!FrameCell] \in [1..n -> Cell]
    BY <1>2
  <2>3. M!Cells(n) \in Seq(Cell)
    BY <2>1, <2>2
  <2> QED BY <2>1, <2>3
<1>4. /\ cells \o M!Cells(n) \in Seq(Cell)
      /\ Len(cells \o M!Cells(n)) = Len(cells) + n
      /\ \A i \in 1..(Len(cells) + n) :
           (cells \o M!Cells(n))[i]
             = IF i <= Len(cells) THEN cells[i] ELSE M!Cells(n)[i - Len(cells)]
  BY <1>1, <1>3
<1>5. ASSUME NEW i \in 1..(Len(cells) + n), (cells \o M!Cells(n))[i].kind = "return"
      PROVE  (cells \o M!Cells(n))[i].saved \in addresses
  <2>1. CASE i <= Len(cells)
    <3>1. i \in 1..Len(cells)
      BY <1>1, <2>1
    <3> QED BY <1>4, <1>5, <2>1, <3>1 DEF SoundCells
  <2>2. CASE ~ (i <= Len(cells))
    <3>1. i - Len(cells) \in 1..n
      BY <1>1, <2>2
    <3> QED BY <1>2, <1>3, <1>4, <1>5, <2>2, <3>1
  <2> QED BY <2>1, <2>2
<1> QED BY <1>4, <1>5 DEF SoundCells

\* What a step of the processor has to show.
LEMMA MachineGoesOn ==
  ASSUME pass = "encoded", UNCHANGED <<vars, encoderVars>>,
         status' \in {"running", "exited", "fault", "overflow", "astray"},
         pc' \in Int, rbp' \in Int, SoundCells(stack', ProgramAddresses),
         status' = "running" => pc' \in ProgramAddresses
  PROVE  MachineInv'
<1>1. UNCHANGED <<list, addr, pass>>
  BY DEF vars, code, encoderVars
<1>2. ProgramAddresses = {addr'[list'[i]] : i \in 1..Len(list')}
  BY <1>1 DEF ProgramAddresses
<1>3. Running' => M!IsProgramAddress(pc)'
  BY <1>2 DEF Running, M!IsProgramAddress
<1>4. stack' \in Seq(Cell)
  BY DEF SoundCells
<1>5. ASSUME NEW i \in 1..Len(stack'), stack'[i].kind = "return"
      PROVE  \E j \in 1..Len(list') : addr'[list'[j]] = stack'[i].saved
  <2>1. stack'[i].saved \in ProgramAddresses
    BY <1>5 DEF SoundCells
  <2> QED BY <1>2, <2>1
<1>6. (\A i \in 1..Len(stack) :
         stack[i].kind = "return" => M!IsProgramAddress(stack[i].saved))'
  BY <1>5 DEF M!IsProgramAddress
<1> QED BY <1>1, <1>3, <1>4, <1>6 DEF MachineInv

\* A change of RSP is by a number of whole cells.
LEMMA AmountOfCells ==
  ASSUME IInv, CodeInv, LinkInv, NEW c \in 1..Len(list),
         At(c).operation \in {"ADD", "SUB"}, At(c).operand1 = operand_reg("RSP")
  PROVE  M!AmountOf(At(c)) \in Nat
<1>1. At(c).operand2.immediate \in Nat
  BY DEF LinkInv, Sound
<1> QED BY <1>1 DEF M!AmountOf

\* The processor takes a step of the encoded program.
LEMMA MachineStep ==
  ASSUME IInv, CodeInv, RegionInv, LinkInv, EncoderInv, MachineInv, pass = "encoded",
         M!Execute, UNCHANGED <<vars, encoderVars>>
  PROVE  MachineInv'
<1>1. /\ pc \in Int /\ rbp \in Int /\ SoundCells(stack, ProgramAddresses)
      /\ stack \in Seq(Cell) /\ Len(stack) \in Nat
      /\ status = "running" => pc \in ProgramAddresses
  BY IsAddress DEF MachineInv, SoundCells, Running
<1>2. CASE M!boot
  <2>1. status' = "running" /\ pc' = addr[list[1]] /\ rbp' = rbp /\ stack' = stack
    BY <1>2 DEF M!boot
  <2>2. 1 \in 1..Len(list)
    BY Layout
  <2>3. addr[list[1]] \in ProgramAddresses
    BY <2>2 DEF ProgramAddresses
  <2>4. addr[list[1]] \in Int
    <3>1. Placement(1)
      BY <2>2, Layout
    <3> QED BY <3>1 DEF Placement, Begins
  <2> QED BY <1>1, <2>1, <2>3, <2>4, MachineGoesOn
<1>3. ASSUME status = "running", ~ M!boot
      PROVE  MachineInv'
  <2>1. M!IsProgramAddress(pc)
    BY <1>1, <1>3, IsAddress
  <2>2. PICK c \in 1..Len(list) :
          /\ M!Fetch = list[c] /\ M!Instr = At(c)
          /\ M!NextPc = EndOf(c) /\ M!NextPc \in Int
    BY <2>1, Fetched
  <2>3. M!Instr.operation \notin {"RET", "SYSCALL"} => M!NextPc \in ProgramAddresses
    <3>1. At(c).operation \notin {"RET", "SYSCALL"} => M!IsProgramAddress(EndOf(c))
      BY NextInCode
    <3>2. M!IsProgramAddress(EndOf(c)) => EndOf(c) \in ProgramAddresses
      BY IsAddress
    <3> QED BY <2>2, <3>1, <3>2
  <2>4. ASSUME stack # <<>>
        PROVE  M!StackTop \in Cell /\ Len(stack) \in 1..Len(stack) /\ 1 <= Len(stack)
    BY <1>1, <2>4 DEF M!StackTop
  <2>5. stack # <<>> => SoundCells(M!Dropped(1), ProgramAddresses)
    <3>1. 1 \in Nat
      OBVIOUS
    <3> QED BY <1>1, <2>4, <3>1, DroppedCells DEF M!Dropped
  <2>6. CASE M!exec_push
    <3>1. /\ status' = "running" /\ rbp' = rbp /\ pc' = M!NextPc
          /\ stack' = Append(stack, IF M!OnRbp THEN M!SavedRbp(rbp) ELSE M!Value)
          /\ M!Instr.operation = "PUSH"
      BY <1>3, <2>6 DEF M!exec_push, M!Step, M!Executing
    <3>2. M!SavedRbp(rbp) \in Cell /\ M!SavedRbp(rbp).kind # "return"
      BY <1>1 DEF M!SavedRbp, Cell
    <3>3. M!Value \in Cell /\ M!Value.kind # "return"
      BY DEF M!Value, Cell
    <3>4. SoundCells(stack', ProgramAddresses)
      BY <1>1, <3>1, <3>2, <3>3, PushedCell
    <3> QED BY <1>1, <2>2, <2>3, <3>1, <3>4, MachineGoesOn
  <2>7. CASE M!exec_pop
    <3>1. /\ status' = "running" /\ pc' = M!NextPc /\ stack' = M!Dropped(1)
          /\ rbp' = rbp \/ rbp' = M!StackTop.saved
          /\ M!Instr.operation = "POP" /\ stack # <<>>
      BY <1>3, <2>7 DEF M!exec_pop, M!Step, M!Executing
    <3>2. rbp' \in Int
      BY <1>1, <2>4, <3>1 DEF Cell
    <3> QED BY <2>2, <2>3, <2>5, <3>1, <3>2, MachineGoesOn
  <2>8. CASE M!exec_enter_frame
    <3>1. /\ status' = "running" /\ pc' = M!NextPc /\ stack' = stack /\ rbp' = Len(stack)
          /\ M!Instr.operation = "MOV"
      BY <1>3, <2>8 DEF M!exec_enter_frame, M!Executing
    <3> QED BY <1>1, <2>2, <2>3, <3>1, MachineGoesOn
  <2>9. CASE M!exec_reserve
    <3>1. /\ status' = "running" /\ rbp' = rbp /\ pc' = M!NextPc
          /\ stack' = stack \o M!Cells(M!AmountOf(M!Instr))
          /\ M!Instr.operation = "SUB" /\ M!OnRsp
      BY <1>3, <2>9 DEF M!exec_reserve, M!Step, M!Executing
    <3>2. M!AmountOf(M!Instr) \in Nat
      BY <2>2, <3>1, AmountOfCells
         DEF M!OnRsp, M!operand_reg, operand_reg
    <3>3. SoundCells(stack', ProgramAddresses)
      BY <1>1, <3>1, <3>2, ReservedCells
    <3> QED BY <1>1, <2>2, <2>3, <3>1, <3>3, MachineGoesOn
  <2>10. CASE M!exec_release
    <3>1. /\ status' = "running" /\ rbp' = rbp /\ pc' = M!NextPc
          /\ stack' = M!Dropped(M!AmountOf(M!Instr))
          /\ M!AmountOf(M!Instr) <= Len(stack)
          /\ M!Instr.operation = "ADD" /\ M!OnRsp
      BY <1>3, <2>10 DEF M!exec_release, M!Step, M!Executing
    <3>2. M!AmountOf(M!Instr) \in Nat
      BY <2>2, <3>1, AmountOfCells
         DEF M!OnRsp, M!operand_reg, operand_reg
    <3>3. SoundCells(stack', ProgramAddresses)
      BY <1>1, <3>1, <3>2, DroppedCells DEF M!Dropped
    <3> QED BY <1>1, <2>2, <2>3, <3>1, <3>3, MachineGoesOn
  <2>11. CASE M!exec_call
    <3>1. /\ status' = "running" /\ rbp' = rbp /\ pc' = M!JumpPc
          /\ stack' = Append(stack, M!ReturnTo(M!NextPc))
          /\ ~ M!IsLibraryAddress(M!JumpPc)
          /\ M!Instr.operation = "CALL"
      BY <1>3, <2>11 DEF M!exec_call, M!Step, M!Executing
    <3>2. M!JumpPc \in Int /\ M!IsProgramAddress(M!JumpPc)
      BY <2>1, <3>1, JumpInCode
    <3>3. M!JumpPc \in ProgramAddresses
      BY <3>2, IsAddress
    <3>4. M!ReturnTo(M!NextPc) \in Cell /\ M!ReturnTo(M!NextPc).saved = M!NextPc
      BY <2>2 DEF M!ReturnTo, Cell
    <3>5. M!NextPc \in ProgramAddresses
      BY <2>3, <3>1
    <3>6. SoundCells(stack', ProgramAddresses)
      BY <1>1, <3>1, <3>4, <3>5, PushedCell
    <3> QED BY <1>1, <3>1, <3>2, <3>3, <3>6, MachineGoesOn
  <2>12. CASE M!exec_ret
    <3>1. /\ status' = "running" /\ rbp' = rbp /\ pc' = M!StackTop.saved
          /\ stack' = M!Dropped(1)
          /\ stack # <<>> /\ M!StackTop.kind = "return"
      BY <1>3, <2>12 DEF M!exec_ret, M!Step, M!Executing
    <3>2. M!StackTop.saved \in Int
      BY <2>4, <3>1 DEF Cell
    <3>3. M!StackTop.saved \in ProgramAddresses
      BY <1>1, <2>4, <3>1 DEF SoundCells, M!StackTop
    <3> QED BY <1>1, <2>5, <3>1, <3>2, <3>3, MachineGoesOn
  <2>13. CASE M!exec_jmp
    <3>1. /\ status' = "running" /\ rbp' = rbp /\ pc' = M!JumpPc /\ stack' = stack
          /\ M!Instr.operation = "JMP"
      BY <1>3, <2>13 DEF M!exec_jmp, M!Step, M!Executing
    <3>2. M!JumpPc \in Int /\ M!IsProgramAddress(M!JumpPc)
      BY <2>1, <3>1, JumpInCode
    <3>3. M!JumpPc \in ProgramAddresses
      BY <3>2, IsAddress
    <3> QED BY <1>1, <3>1, <3>2, <3>3, MachineGoesOn
  <2>14. CASE M!exec_call_stdlib \/ M!exec_no_jmp \/ M!exec_data
    <3>1. /\ status' = "running" /\ rbp' = rbp /\ pc' = M!NextPc /\ stack' = stack
          /\ M!Instr.operation \notin {"RET", "SYSCALL"}
      BY <1>3, <2>14 DEF M!exec_call_stdlib, M!exec_no_jmp, M!exec_data, M!Step, M!Executing
    <3> QED BY <1>1, <2>2, <2>3, <3>1, MachineGoesOn
  <2>15. CASE M!trap \/ M!read_fault \/ M!exec_exit \/ M!stray \/ M!overflow
    <3>1. /\ status' \in {"exited", "fault", "overflow", "astray"}
          /\ rbp' = rbp /\ pc' = pc /\ stack' = stack
      BY <2>15 DEF M!trap, M!read_fault, M!exec_exit, M!stray, M!overflow, M!Halt
    <3> QED BY <1>1, <3>1, MachineGoesOn
  <2> QED
    BY <1>3, <2>6, <2>7, <2>8, <2>9, <2>10, <2>11, <2>12, <2>13, <2>14, <2>15 DEF M!Execute
<1>4. status = "running" \/ M!boot
  BY DEF M!Execute, M!exec_push, M!exec_pop, M!exec_enter_frame, M!exec_reserve,
     M!exec_release, M!exec_call, M!exec_call_stdlib, M!exec_ret, M!exec_jmp, M!exec_no_jmp,
     M!exec_data, M!trap, M!read_fault, M!exec_exit, M!stray, M!overflow, M!Executing
<1> QED BY <1>2, <1>3, <1>4

\* The code generator and the encoder are at work before the program is encoded.
LEMMA NotEncoded ==
  ASSUME EncoderInv, CodeGenStep \/ E!Encode
  PROVE  pass # "encoded"
<1>1. CASE CodeGenStep
  <2>1. phase # "done"
    BY <1>1 DEF CodeGenStep, HandleNode, Driver, Failure, Handling, Extracting,
       compile_NVAR, compile_ASS, compile_VAR, compile_CONST, compile_OP_dividend, compile_OP,
       compile_CALL, compile_RET, compile_SEQ, compile_BLOCK_begin, compile_BLOCK_end,
       compile_WHILE_start, compile_WHILE_test, compile_WHILE_end, compile_BRANCH_test,
       compile_BRANCH_else, compile_BRANCH_end, compile_NFUN_begin, compile_NFUN_body,
       compile_NFUN_end, compile_nothing, extract_variable, extract_function, emit_entry,
       compile_next_function, all_compiled, UndefinedVariable, UndefinedFunction,
       WrongArgumentCount, MissingReturn, Redefinition, MissingMain
  <2> QED BY <2>1 DEF EncoderInv
<1>2. CASE E!Encode
  BY <1>2 DEF E!Encode, E!start_encoding, E!fill_opcode, E!start_jumps, E!update_jump,
     E!jumps_updated
<1> QED BY <1>1, <1>2

\* Nothing runs before that.
LEMMA NotStarted ==
  ASSUME EncoderInv, MachineInv, UNCHANGED machineVars,
         CodeGenStep \/ (E!Encode /\ UNCHANGED vars)
  PROVE  MachineInv'
<1>1. pass # "encoded"
  BY NotEncoded
<1>2. status = "off" /\ stack = <<>>
  BY <1>1 DEF MachineInv
<1>3. status' = "off" /\ stack' = <<>> /\ pc' \in Int /\ rbp' \in Int
  BY <1>2 DEF machineVars, MachineInv
<1>4. stack' \in Seq(Cell) /\ Len(stack') = 0
  BY <1>3
<1> QED BY <1>3, <1>4 DEF MachineInv, Running

\* The processor's invariant is kept when only time passes.
LEMMA MachineIdle ==
  ASSUME MachineInv, UNCHANGED backendVars
  PROVE  MachineInv'
<1>1. UNCHANGED <<list, addr, pass, status, pc, rbp, stack>>
  BY DEF backendVars, vars, code, encoderVars, machineVars
<1>2. (Running => M!IsProgramAddress(pc))'
  BY <1>1 DEF MachineInv, Running, M!IsProgramAddress
<1>3. (\A i \in 1..Len(stack) :
         stack[i].kind = "return" => M!IsProgramAddress(stack[i].saved))'
  BY <1>1 DEF MachineInv, M!IsProgramAddress
<1> QED BY <1>1, <1>2, <1>3 DEF MachineInv

\* At first nothing runs.
LEMMA InitialMachine ==
  ASSUME M!MachineInit
  PROVE  MachineInv
<1>1. status = "off" /\ pc = 0 /\ rbp = 0 /\ stack = <<>>
  BY DEF M!MachineInit
<1>2. stack \in Seq(Cell) /\ Len(stack) = 0
  BY <1>1
<1> QED BY <1>1, <1>2 DEF MachineInv, Running

\* Every step of the backend keeps the processor at an instruction.
LEMMA ProcessorStep ==
  ASSUME IInv, CodeInv, RegionInv, LinkInv, EncoderInv, MachineInv,
         [BackendNext]_backendVars
  PROVE  MachineInv'
<1>1. CASE Generate
  BY <1>1, NotStarted DEF Generate, encoderVars, machineVars
<1>2. CASE EncodeList
  BY <1>2, NotStarted DEF EncodeList, encoderVars, machineVars
<1>3. CASE RunProgram
  BY <1>3, MachineStep DEF RunProgram
<1>4. CASE Ended \/ UNCHANGED backendVars
  BY <1>4, MachineIdle DEF Ended
<1> QED BY <1>1, <1>2, <1>3, <1>4 DEF BackendNext

-----------------------------------------------------------------------------
(* What holds of every compilation and of every run of its program.        *)

\* The backend's inductive invariant: the list the encoder is given, the
\* addresses and displacements it has written, and the processor, which is
\* always at an instruction and has only such addresses to return to.
THEOREM BackendInvariance == BackendSpec => []BackendInv
<1>1. BackendInit => BackendInv
  BY InitialLink, InitialEncoder, InitialMachine, BackendRefines DEF BackendInit, BackendInv
<1>2. IInv /\ CodeInv /\ RegionInv /\ IInv' /\ BackendInv /\ [BackendNext]_backendVars
        => BackendInv'
  <2> SUFFICES ASSUME IInv, CodeInv, RegionInv, IInv', BackendInv, [BackendNext]_backendVars
               PROVE  BackendInv'
    OBVIOUS
  <2>1. LinkInv /\ EncoderInv /\ MachineInv
    BY DEF BackendInv
  <2>2. LinkInv'
    BY <2>1, BackendRefines, LinkStep
  <2>3. EncoderInv'
    BY <2>1, EncoderStep
  <2>4. MachineInv'
    BY <2>1, ProcessorStep
  <2> QED BY <2>2, <2>3, <2>4 DEF BackendInv
<1> QED BY <1>1, <1>2, GeneratorInvariance, PTL DEF BackendSpec

\* The displacements ir_update_jumps writes lead to the nodes compile_node
\* meant, over the last four bytes of the instruction.
THEOREM JumpsLandAlways == BackendSpec => []JumpsLand
<1>1. IInv /\ CodeInv /\ RegionInv /\ BackendInv => JumpsLand
  BY DisplacementsLand DEF BackendInv
<1> QED BY <1>1, GeneratorInvariance, BackendInvariance, PTL

-----------------------------------------------------------------------------
(* The image the loader makes of the file.                                 *)

\* What the four writes cover.
LEMMA Writes ==
  ASSUME ELF!code_size \in Int, NEW offset \in Int
  PROVE  /\ Len(ELF!writes) = 4
         /\ ELF!Covers(ELF!writes[1], offset) <=> offset \in 0..175
         /\ ELF!Covers(ELF!writes[2], offset) <=> offset \in 4096..(4096 + ELF!code_size - 1)
         /\ ELF!Covers(ELF!writes[3], offset) <=> offset \in 8192..8211
         /\ ELF!Covers(ELF!writes[4], offset) <=> offset \in 8212..8467
         /\ ELF!writes[2].what = "code" /\ ELF!writes[3].what = "strtab"
<1> HIDE DEF ELF!code_size
<1>1. /\ Len(ELF!writes) = 4
      /\ ELF!writes[1] = ELF!write("headers", 0, 176)
      /\ ELF!writes[2] = ELF!write("code", 4096, ELF!code_size)
      /\ ELF!writes[3] = ELF!write("strtab", 8192, 20)
      /\ ELF!writes[4] = ELF!write("sections", 8212, 256)
  BY SMT DEF ELF!writes, ELF!EHDR_SIZE, ELF!PHDR_SIZE, ELF!SHDR_SIZE, ELF!TEXT_OFFSET,
     ELF!DATA_OFFSET, ELF!PAGE, ELF!STRTAB_SIZE
<1>2. /\ ELF!Covers(ELF!writes[1], offset) <=> offset \in 0..175
      /\ ELF!Covers(ELF!writes[3], offset) <=> offset \in 8192..8211
      /\ ELF!Covers(ELF!writes[4], offset) <=> offset \in 8212..8467
  BY <1>1, SMT DEF ELF!Covers, ELF!write
<1>3. ELF!Covers(ELF!writes[2], offset) <=> offset \in 4096..(4096 + ELF!code_size - 1)
  BY <1>1, SMT DEF ELF!Covers, ELF!write
<1>4. ELF!writes[2].what = "code" /\ ELF!writes[3].what = "strtab"
  BY <1>1, SMT DEF ELF!write
<1> QED BY <1>1, <1>2, <1>3, <1>4

\* The writes that cover an offset, and the one of them that comes last.
Over(offset) == {i \in 1..Len(ELF!writes) : ELF!Covers(ELF!writes[i], offset)}
LastOver(offset) == CHOOSE i \in Over(offset) : \A j \in Over(offset) : j <= i

\* The file has what was written last.
LEMMA FileHolds ==
  ASSUME NEW offset, Over(offset) # {}
  PROVE  ELF!FileAt(offset) =
           IF ELF!writes[LastOver(offset)].what = "strtab"
              /\ offset - ELF!DATA_OFFSET \in ELF!STRTAB_ZEROS
           THEN "zero" ELSE ELF!writes[LastOver(offset)].what
BY Zenon DEF ELF!FileAt, Over, LastOver

\* The offsets of the code, as far as it does not reach the section names.
CodeOffset(offset) == offset \in 4096..8191 /\ offset <= 4096 + ELF!code_size - 1

\* The file has the code at these offsets.
LEMMA CodeInFile ==
  ASSUME ELF!code_size \in Int, NEW offset, CodeOffset(offset)
  PROVE  ELF!FileAt(offset) = "code"
<1>0. offset \in 4096..8191 /\ offset <= 4096 + ELF!code_size - 1
  BY DEF CodeOffset
<1>1. Over(offset) = {2}
  <2>1. /\ Len(ELF!writes) = 4
        /\ ~ ELF!Covers(ELF!writes[1], offset) /\ ELF!Covers(ELF!writes[2], offset)
        /\ ~ ELF!Covers(ELF!writes[3], offset) /\ ~ ELF!Covers(ELF!writes[4], offset)
    <3>1. /\ offset \in Int /\ offset \notin 0..175 /\ offset \notin 8192..8211
          /\ offset \notin 8212..8467 /\ offset \in 4096..(4096 + ELF!code_size - 1)
      BY <1>0, SMT
    <3> QED BY <3>1, Writes
  <2>2. \A i \in 1..4 : i = 1 \/ i = 2 \/ i = 3 \/ i = 4
    OBVIOUS
  <2>3. ASSUME NEW i \in Over(offset) PROVE i = 2
    BY <2>1, <2>2 DEF Over
  <2>4. 2 \in Over(offset)
    BY <2>1 DEF Over
  <2> QED BY <2>3, <2>4
<1>2. LastOver(offset) = 2
  BY <1>1 DEF LastOver
<1>3. ELF!writes[2].what = "code"
  BY Writes
<1> QED BY <1>1, <1>2, <1>3, FileHolds

\* The section names are in the file whatever else was written there.
LEMMA NamesInFile ==
  ASSUME ELF!code_size \in Int, NEW offset \in 8192..8211
  PROVE  ELF!FileAt(offset) # "code"
<1>1. 3 \in Over(offset) /\ \A i \in Over(offset) : i \in Int /\ i <= 3
  <2>1. /\ Len(ELF!writes) = 4
        /\ ELF!Covers(ELF!writes[3], offset) /\ ~ ELF!Covers(ELF!writes[4], offset)
    BY Writes, SMT
  <2> QED BY <2>1 DEF Over
<1>2. LastOver(offset) = 3
  <2>1. LastOver(offset) \in Over(offset) /\ \A j \in Over(offset) : j <= LastOver(offset)
    BY <1>1 DEF LastOver
  <2> QED BY <1>1, <2>1
<1>3. ELF!writes[3].what = "strtab"
  BY Writes
<1> QED BY <1>1, <1>2, <1>3, FileHolds

\* Where an instruction lies in memory, seen from the segments.
LEMMA InSegments ==
  ASSUME IInv, CodeInv, LinkInv, EncoderInv, pass = "encoded", NEW i \in 1..Len(list)
  PROVE  /\ ELF!code_size \in Int
         /\ ELF!Maps(ELF!load_exec, Begins(i))
         /\ ELF!code_size <= ELF!PAGE => ~ ELF!Maps(ELF!load_write, Begins(i))
<1>1. /\ Begins(i) \in Int /\ Begins(i) >= 4194563
      /\ EndOf(i) \in Int /\ Begins(i) < EndOf(i) /\ EndOf(i) <= cur_addr
  <2>1. Placement(i)
    BY Layout
  <2> HIDE DEF Begins, EndOf
  <2>2. /\ Begins(i) \in Int /\ Begins(i) >= E!BASE_OFFSET
        /\ EndOf(i) \in Int /\ Begins(i) < EndOf(i) /\ EndOf(i) <= cur_addr
    BY <2>1, PlacementBounds, Zenon
  <2>3. E!BASE_OFFSET = 4194563
    BY ONLY SMT DEF E!BASE_OFFSET
  <2> QED BY ONLY <2>2, <2>3, SMT
<1>2. cur_addr \in Int
  BY Layout
<1>3. ELF!code_size \in Int /\ ELF!code_size = cur_addr - 4194304
  BY <1>2, SMT DEF ELF!code_size, ELF!TEXT_BASE
<1>4. ELF!Maps(ELF!load_exec, Begins(i))
  <2>1. ELF!load_exec.vaddr = 4194304 /\ ELF!load_exec.memsz = ELF!code_size
    BY SMT DEF ELF!load_exec, ELF!segment, ELF!TEXT_BASE
  <2> HIDE DEF Begins, EndOf
  <2>2. Begins(i) \in 4194304..(4194304 + ELF!code_size - 1)
    BY <1>1, <1>2, <1>3, SMT
  <2> QED BY <2>1, <2>2, SMT DEF ELF!Maps
<1>5. ASSUME ELF!code_size <= ELF!PAGE
      PROVE  ~ ELF!Maps(ELF!load_write, Begins(i))
  <2>1. ELF!load_write.vaddr = 4198400
    BY SMT DEF ELF!load_write, ELF!segment, ELF!BSS_BASE
  <2>2. cur_addr <= 4198400
    BY <1>2, <1>3, <1>5, SMT DEF ELF!PAGE
  <2> HIDE DEF Begins, EndOf
  <2>3. Begins(i) < 4198400
    BY <1>1, <1>2, <2>2, SMT
  <2>4. \A memsz : Begins(i) \notin 4198400..memsz
    BY <1>1, <2>3, SMT
  <2> QED BY <2>1, <2>4, SMT DEF ELF!Maps
<1> QED BY <1>3, <1>4, <1>5

\* Where the code generator puts a global variable the segment has room.
LEMMA GlobalsInSegment ==
  ASSUME IInv, LinkInv, NEW i \in 1..Len(list), IsGlobalAccess(At(i)), NEW byte \in 0..(SLOT - 1)
  PROVE  ELF!Maps(ELF!load_write, At(i).operand1.immediate + byte)
<1>1. PICK address : address = At(i).operand1.immediate
  OBVIOUS
<1>2. address \in GLOBAL_BASE..(GLOBAL_BASE + SLOT * (global_var_cnt - 1))
  BY <1>1 DEF LinkInv, Sound
<1>3. global_var_cnt \in Nat
  BY DEF IInv, TypeOK
<1>4. ELF!load_write.vaddr = 4198400 /\ ELF!load_write.memsz = 8 * global_var_cnt + 20
  BY SMT DEF ELF!load_write, ELF!segment, ELF!BSS_BASE, ELF!STRTAB_SIZE
<1>5. address + byte \in 4198400..(4198400 + (8 * global_var_cnt + 20) - 1)
  BY <1>2, <1>3, SMT DEF GLOBAL_BASE, SLOT
<1>6. ELF!Maps(ELF!load_write, address + byte)
  BY <1>4, <1>5, SMT DEF ELF!Maps
<1> QED BY <1>1, <1>6

\* What is in memory at the last byte of an instruction.
LEMMA LastByte ==
  ASSUME IInv, CodeInv, LinkInv, EncoderInv, pass = "encoded", NEW i \in 1..Len(list)
  PROVE  /\ EndOf(i) - 1 - 4190208 \in Int
         /\ 4096 <= EndOf(i) - 1 - 4190208
         /\ EndOf(i) - 1 - 4190208 <= 4096 + ELF!code_size - 1
         /\ ELF!MemoryAt(ELF!load_exec, EndOf(i) - 1) = ELF!FileAt(EndOf(i) - 1 - 4190208)
<1>1. /\ EndOf(i) \in Int /\ EndOf(i) > 4194563 /\ EndOf(i) <= cur_addr
  <2>1. Placement(i)
    BY Layout
  <2> HIDE DEF Begins, EndOf
  <2>2. /\ Begins(i) \in Int /\ Begins(i) >= E!BASE_OFFSET
        /\ EndOf(i) \in Int /\ Begins(i) < EndOf(i) /\ EndOf(i) <= cur_addr
    BY <2>1, PlacementBounds, Zenon
  <2>3. E!BASE_OFFSET = 4194563
    BY ONLY SMT DEF E!BASE_OFFSET
  <2> QED BY ONLY <2>2, <2>3, SMT
<1>2. cur_addr \in Int
  BY Layout
<1>3. ELF!code_size \in Int /\ ELF!code_size = cur_addr - 4194304
  BY <1>2, SMT DEF ELF!code_size, ELF!TEXT_BASE
<1>4. /\ ELF!load_exec.vaddr = 4194304 /\ ELF!load_exec.filesz = ELF!code_size
      /\ ELF!load_exec.offset = 4096
  BY SMT DEF ELF!load_exec, ELF!segment, ELF!TEXT_BASE, ELF!TEXT_OFFSET, ELF!PAGE
<1> HIDE DEF EndOf
<1>5. PICK end : end = EndOf(i)
  OBVIOUS
<1>6. end - 1 - 4194304 < ELF!code_size /\ 4096 + (end - 1) - 4194304 = end - 1 - 4190208
  BY <1>1, <1>2, <1>3, <1>5, SMT
<1>7. ELF!MemoryAt(ELF!load_exec, end - 1) = ELF!FileAt(4096 + (end - 1) - 4194304)
  BY <1>4, <1>6, SMT DEF ELF!MemoryAt
<1> QED BY <1>1, <1>2, <1>3, <1>5, <1>6, <1>7, SMT

\* All the code is in the image exactly when it ends before the section names:
\* the first instruction behind that place has its last byte among them.
LEMMA CodeInImage ==
  ASSUME IInv, CodeInv, LinkInv, EncoderInv, pass = "encoded"
  PROVE  (\A i \in 1..Len(list) : ELF!MemoryAt(ELF!load_exec, EndOf(i) - 1) = "code")
           <=> ELF!code_size <= ELF!PAGE
<1>1. ELF!code_size \in Int /\ cur_addr \in Int /\ ELF!code_size = cur_addr - 4194304
  <2>1. cur_addr \in Int
    BY Layout
  <2> QED BY <2>1, SMT DEF ELF!code_size, ELF!TEXT_BASE
<1>2. ASSUME ELF!code_size <= ELF!PAGE, NEW i \in 1..Len(list)
      PROVE  ELF!MemoryAt(ELF!load_exec, EndOf(i) - 1) = "code"
  <2>1. PICK byte : byte = EndOf(i) - 1 - 4190208
    OBVIOUS
  <2>2. /\ byte \in Int /\ 4096 <= byte /\ byte <= 4096 + ELF!code_size - 1
        /\ ELF!MemoryAt(ELF!load_exec, EndOf(i) - 1) = ELF!FileAt(byte)
    BY <2>1, LastByte, SMT
  <2>3. ELF!code_size <= 4096
    BY <1>2 DEF ELF!PAGE
  <2>4. byte \in 4096..8191
    BY <1>1, <2>2, <2>3, SMT
  <2>5. ELF!FileAt(byte) = "code"
    <3>1. CodeOffset(byte)
      BY <2>2, <2>4, SMT DEF CodeOffset
    <3> QED BY <1>1, <3>1, CodeInFile
  <2> QED BY <2>2, <2>5
<1>3. ASSUME ~ (ELF!code_size <= ELF!PAGE)
      PROVE  \E i \in 1..Len(list) : ELF!MemoryAt(ELF!load_exec, EndOf(i) - 1) # "code"
  <2>0. PICK limit : limit = 4198400
    OBVIOUS
  <2> DEFINE T == {i \in 1..Len(list) : EndOf(i) > limit}
  <2>1. Len(list) \in Nat \ {0} /\ cur_addr = EndOf(Len(list))
    BY Layout
  <2>2. Len(list) \in T
    <3>1. cur_addr > limit
      BY <1>1, <1>3, <2>0, SMT DEF ELF!PAGE
    <3>2. Len(list) \in 1..Len(list)
      BY <2>1
    <3> QED BY <2>1, <3>1, <3>2
  <2>3. T \in SUBSET (1..Len(list)) /\ T # {}
    BY <2>2
  <2>4. PICK i \in T : \A j \in 1..(i - 1) : j \notin T
    <3> HIDE DEF T
    <3> QED BY <2>1, <2>3, FirstIndex
  <2>5. i \in 1..Len(list) /\ EndOf(i) > limit
    BY <2>4
  <2>6. /\ Begins(i) \in Int /\ EndOf(i) \in Int
        /\ EndOf(i) <= Begins(i) + 16
        /\ Begins(i) = IF i = 1 THEN 4194563 ELSE EndOf(i - 1)
    <3>1. Placement(i)
      BY <2>5, Layout
    <3> HIDE DEF Begins, EndOf
    <3>2. /\ Begins(i) \in Int /\ EndOf(i) \in Int
          /\ EndOf(i) <= Begins(i) + 16
          /\ Begins(i) = IF i = 1 THEN E!BASE_OFFSET ELSE EndOf(i - 1)
      BY <3>1, PlacementBounds, Zenon
    <3>3. E!BASE_OFFSET = 4194563
      BY ONLY SMT DEF E!BASE_OFFSET
    <3> QED BY ONLY <3>2, <3>3, SMT
  <2>7. Begins(i) <= limit
    <3>1. CASE i = 1
      BY <2>0, <2>6, <3>1, SMT
    <3>2. CASE i # 1
      <4>1. i - 1 \in 1..Len(list) /\ i - 1 \in 1..(i - 1)
        BY <2>1, <2>5, <3>2
      <4>2. ~ (EndOf(i - 1) > limit)
        BY <2>4, <4>1
      <4>3. Begins(i) = EndOf(i - 1)
        BY <2>6, <3>2
      <4> HIDE DEF Begins, EndOf
      <4> QED BY <2>0, <2>6, <4>2, <4>3, SMT
    <3> QED BY <3>1, <3>2
  <2>8. PICK byte : byte = EndOf(i) - 1 - 4190208
    OBVIOUS
  <2>9. byte \in 8192..8211
    <3>1. PICK end : end = EndOf(i)
      OBVIOUS
    <3>2. end \in Int /\ end > limit /\ end <= limit + 16
      <4> HIDE DEF Begins, EndOf
      <4> QED BY <2>0, <2>5, <2>6, <2>7, <3>1, SMT
    <3>3. byte = end - 1 - 4190208
      BY <2>8, <3>1, SMT
    <3> QED BY ONLY <2>0, <3>2, <3>3, SMT
  <2>10. ELF!MemoryAt(ELF!load_exec, EndOf(i) - 1) = ELF!FileAt(byte)
    BY <2>5, <2>8, LastByte, SMT
  <2>11. ELF!FileAt(byte) # "code"
    BY <1>1, <2>9, NamesInFile
  <2> QED BY <2>5, <2>10, <2>11
<1> QED BY <1>2, <1>3

\* What is proved of all images.
LEMMA ImageHolds ==
  ASSUME IInv, CodeInv, LinkInv, EncoderInv
  PROVE  ImageHoldsProgram
<1> SUFFICES ASSUME Linked PROVE ImageHoldsProgram
  BY DEF ImageHoldsProgram
<1>1. pass = "encoded"
  BY DEF Linked
<1>2. ASSUME NEW i \in 1..Len(list)
      PROVE  /\ ELF!Maps(ELF!load_exec, addr[list[i]])
             /\ IsGlobalAccess(At(i)) =>
                  \A byte \in 0..(SLOT - 1) :
                    ELF!Maps(ELF!load_write, At(i).operand1.immediate + byte)
             /\ ELF!code_size <= ELF!PAGE => ~ ELF!Maps(ELF!load_write, addr[list[i]])
  <2>1. /\ ELF!Maps(ELF!load_exec, addr[list[i]])
        /\ ELF!code_size <= ELF!PAGE => ~ ELF!Maps(ELF!load_write, addr[list[i]])
    BY <1>1, InSegments DEF Begins
  <2>2. IsGlobalAccess(At(i)) =>
          \A byte \in 0..(SLOT - 1) :
            ELF!Maps(ELF!load_write, At(i).operand1.immediate + byte)
    BY GlobalsInSegment
  <2> QED BY <2>1, <2>2
<1>3. (\A i \in 1..Len(list) :
         ELF!MemoryAt(ELF!load_exec, addr[list[i]] + encoded_length[list[i]] - 1) = "code")
        <=> ELF!code_size <= ELF!PAGE
  <2>1. \A i \in 1..Len(list) :
          EndOf(i) - 1 = addr[list[i]] + encoded_length[list[i]] - 1
    <3>1. ASSUME NEW i \in 1..Len(list)
          PROVE  EndOf(i) - 1 = addr[list[i]] + encoded_length[list[i]] - 1
      <4>1. addr[list[i]] \in Int /\ encoded_length[list[i]] \in Int
        <5>1. Placement(i)
          BY <1>1, Layout
        <5>2. Begins(i) \in Int
          BY <5>1, PlacementBounds, Zenon
        <5>3. encoded_length[list[i]] \in 1..16
          BY <5>1, Zenon DEF Placement
        <5> QED BY <5>2, <5>3 DEF Begins
      <4> QED BY <4>1 DEF EndOf
    <3> QED BY <3>1
  <2>2. (\A i \in 1..Len(list) : ELF!MemoryAt(ELF!load_exec, EndOf(i) - 1) = "code")
           <=> ELF!code_size <= ELF!PAGE
    BY <1>1, CodeInImage
  <2> QED BY <2>1, <2>2
<1> QED BY <1>2, <1>3 DEF ImageHoldsProgram

\* The program only uses the memory the image gives it, and finds all its code
\* there exactly when the code is smaller than a page.
THEOREM ImageHoldsAlways == BackendSpec => []ImageHoldsProgram
<1>1. IInv /\ CodeInv /\ BackendInv => ImageHoldsProgram
  BY ImageHolds DEF BackendInv
<1> QED BY <1>1, GeneratorInvariance, BackendInvariance, PTL
=============================================================================
