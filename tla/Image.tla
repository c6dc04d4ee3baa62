-------------------------------- MODULE Image --------------------------------
(***************************************************************************)
(* The ELF file the backend writes and the memory the loader makes of it   *)
(* (compiler.cpp, add_elf_headers, add_elf_sections, link_stdlib).  The    *)
(* file is the result of five writes at fixed offsets, a later one over an *)
(* earlier one; a segment maps a range of it to memory.                    *)
(***************************************************************************)
EXTENDS Integers, Sequences

CONSTANTS
  code_end,         \* address behind the last instruction (tail addr + length)
  global_var_cnt

PAGE == 4096
TEXT_BASE   == 4194304          \* 0x400000
BSS_BASE    == 4198400          \* 0x401000
TEXT_OFFSET == PAGE             \* 0x1000
DATA_OFFSET == 2 * PAGE         \* 0x2000

EHDR_SIZE == 64                 \* sizeof(Elf64_Ehdr)
PHDR_SIZE == 56                 \* sizeof(Elf64_Phdr)
SHDR_SIZE == 64                 \* sizeof(Elf64_Shdr)

\* sect_name_table: "\0.text\0.bss\0.strtab\0"; the offsets of its NULs.
STRTAB_SIZE  == 20
STRTAB_ZEROS == {0, 6, 11, 19}

\* Mutant: the standard library is not counted.
code_size_of_list == code_end - (TEXT_BASE + 259)

code_size == code_end - TEXT_BASE

segment(offset, vaddr, filesz, memsz) ==
  [offset |-> offset, vaddr |-> vaddr, filesz |-> filesz, memsz |-> memsz]

load_exec  == segment(TEXT_OFFSET, TEXT_BASE, code_size, code_size)
load_write == segment(DATA_OFFSET, BSS_BASE, STRTAB_SIZE,
                      8 * global_var_cnt + STRTAB_SIZE)

write(what, offset, size) == [what |-> what, offset |-> offset, size |-> size]

\* The standard library and the list are written one behind the other.
writes ==
  << write("headers", 0, EHDR_SIZE + 2 * PHDR_SIZE),
     write("code", TEXT_OFFSET, code_size),
     write("strtab", DATA_OFFSET, STRTAB_SIZE),
     write("sections", DATA_OFFSET + STRTAB_SIZE, 4 * SHDR_SIZE) >>

Covers(w, offset) == offset \in w.offset..(w.offset + w.size - 1)

\* What the file holds at an offset; where nothing was written it has zeros.
FileAt(offset) ==
  LET over == {i \in 1..Len(writes) : Covers(writes[i], offset)}
  IN  IF over = {} THEN "zero"
      ELSE LET last == CHOOSE i \in over : \A j \in over : j <= i
           IN  IF writes[last].what = "strtab" /\ offset - DATA_OFFSET \in STRTAB_ZEROS
                 THEN "zero" ELSE writes[last].what

Maps(s, address) == address \in s.vaddr..(s.vaddr + s.memsz - 1)

\* What a segment puts at an address it maps.
MemoryAt(s, address) ==
  IF address - s.vaddr < s.filesz THEN FileAt(s.offset + address - s.vaddr) ELSE "zero"
=============================================================================
