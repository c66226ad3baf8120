----------------------------- MODULE ElfLister ------------------------------
(***************************************************************************)
(* The user-level ELF reader parse_elf/elf.c, which lists the symbols of   *)
(* an executable.  It is the program the kernel's parse_elf.c was made     *)
(* from; its error paths end the process.                                  *)
(***************************************************************************)
EXTENDS ElfFile

CONSTANT CallsFail   \* malloc(), fstat(), mmap() or munmap() may fail

VARIABLES
    exe,       \* the file that is listed
    lister,    \* "open", "list", "close", or how the process ended
    at,        \* the symbol the walk is at
    printed    \* the lines printed so far

vars == <<exe, lister, at, printed>>

Init == exe \in Executables /\ lister = "open" /\ at = 1 /\ printed = <<>>

elf_open ==
    /\ lister = "open" /\ exe.kind = "elf"
    /\ lister' = IF HasFirstsym(exe) THEN "list" ELSE "crash"
    /\ UNCHANGED <<exe, at, printed>>

elf_open_exits ==
    /\ lister = "open" /\ (exe.kind # "elf" \/ CallsFail)
    /\ lister' = "exit"
    /\ UNCHANGED <<exe, at, printed>>

(* Mutant: the walk stays on the last symbol. *)
ListLastAgain ==
    /\ lister = "list"
    /\ IF at = Len(FindSymtab(exe)) THEN UNCHANGED <<at, printed>>
       ELSE at' = at + 1 /\ printed' = Append(printed, FindSymtab(exe)[at])
    /\ UNCHANGED <<exe, lister>>

list_symbol ==
    /\ lister = "list"
    /\ printed' = Append(printed, FindSymtab(exe)[at])
    /\ at' = at + 1
    /\ lister' = IF at < Len(FindSymtab(exe)) THEN "list" ELSE "close"
    /\ UNCHANGED exe

elf_close ==
    /\ lister = "close"
    /\ \/ lister' = "done"
       \/ CallsFail /\ lister' = "exit"
    /\ UNCHANGED <<exe, at, printed>>

Next == elf_open \/ elf_open_exits \/ list_symbol \/ elf_close

Over == lister \in {"done", "exit", "crash"}
=============================================================================
