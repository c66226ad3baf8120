------------------------------ MODULE ElfFile -------------------------------
(***************************************************************************)
(* What kernel_probe/parse_elf.c and parse_elf/elf.c see of an executable: *)
(* the kind of file that is at the path, and the symbol tables among its   *)
(* sections, in the order of the section headers.                          *)
(***************************************************************************)
EXTENDS Integers, Sequences

CONSTANT Executables   \* what may be found at the path

Symbol  == [name : Nat, value : Nat, size : Nat]
Section == [type : {"symtab", "dynsym"}, syms : Seq(Symbol)]
Kinds   == {"missing", "short", "foreign", "elf"}

ASSUME ExecutableAssumption ==
    \A f \in Executables : /\ DOMAIN f = {"kind", "secs"} /\ f.kind \in Kinds
                           /\ f.secs \in Seq(Section)

(* Mutant: the dynamic table is taken as well. *)
AnyTable(f) == DOMAIN f.secs

(* The loop over the section headers: the last static table stays. *)
Statics(f)    == {n \in DOMAIN f.secs : f.secs[n].type = "symtab"}
FindSymtab(f) == f.secs[CHOOSE n \in Statics(f) : \A m \in Statics(f) : m <= n].syms

(* elf_firstsym() is read through without a look at the table: a file that has no       *)
(* static table leaves ep->symtab uninitialised, an empty one has no first symbol.      *)
HasFirstsym(f) == Statics(f) # {} /\ FindSymtab(f) # <<>>

Sized(s) == s.size # 0
=============================================================================
