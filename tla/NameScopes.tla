----------------------------- MODULE NameScopes -----------------------------
(***************************************************************************)
(* The scope stack of the backend (table_stack.cpp, var_table.h): a stack  *)
(* of variable tables, each with the offset of its first slot.  The bottom *)
(* table is the global one, its offset an absolute address; the others are *)
(* local, their offsets counted downwards from RBP.                        *)
(***************************************************************************)
EXTENDS Integers, Sequences

GLOBAL_BASE == 4198400      \* 0x401000, where the .bss section is loaded
SLOT == 8                   \* bytes of one variable

var_table(offset, is_global) ==
  [offset |-> offset, vars |-> <<>>, is_global |-> is_global]

table_stack_ctor == << var_table(GLOBAL_BASE, TRUE) >>

Innermost(tables) == tables[Len(tables)]

is_at_global_scope(tables) == Innermost(tables).is_global

\* The slot after the last variable of a table.
TableEnd(table) == table.offset + SLOT * Len(table.vars)

\* Mutant: the variables the table already holds are forgotten.
get_next_offset_of_start(tables) ==
  IF Innermost(tables).offset <= 0 THEN 0 ELSE Innermost(tables).offset

\* The parameter table has a negative offset: the scope nested in it starts
\* from zero (its caller passes an offset of its own in that case).
get_next_offset(tables) ==
  IF Innermost(tables).offset <= 0 THEN 0 ELSE TableEnd(Innermost(tables))

add_table(tables, offset) == Append(tables, var_table(offset, FALSE))

\* Mutant: the first table above the globals is never popped.
pop_table_keeping_two(tables) ==
  IF Len(tables) <= 2 THEN tables ELSE SubSeq(tables, 1, Len(tables) - 1)

\* array_pop does nothing on an empty stack.
pop_table(tables) ==
  IF tables = <<>> THEN tables ELSE SubSeq(tables, 1, Len(tables) - 1)

Declares(table, name) == \E i \in 1..Len(table.vars) : table.vars[i] = name

\* The first index that holds the name, as var_table_find scans for it.
IndexOf(table, name) ==
  CHOOSE i \in 1..Len(table.vars) :
    /\ table.vars[i] = name
    /\ \A j \in 1..(i - 1) : table.vars[j] # name

\* A name the innermost table already has is not added a second time.
add_var(tables, name) ==
  IF Declares(Innermost(tables), name)
    THEN tables
    ELSE [tables EXCEPT ![Len(tables)].vars = Append(@, name)]

\* Mutant: only the innermost table is searched.
Visible_innermost(tables, name) == Declares(Innermost(tables), name)

Visible(tables, name) == \E i \in 1..Len(tables) : Declares(tables[i], name)

\* The innermost table that declares the name wins.
find_var(tables, name) ==
  LET depth == CHOOSE i \in 1..Len(tables) :
                 /\ Declares(tables[i], name)
                 /\ \A j \in (i + 1)..Len(tables) : ~ Declares(tables[j], name)
  IN  [is_global |-> tables[depth].is_global,
       addr |-> tables[depth].offset + SLOT * (IndexOf(tables[depth], name) - 1)]
=============================================================================
