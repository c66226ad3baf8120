---------------------------- MODULE MCSymbolMap -----------------------------
(***************************************************************************)
(* Executables for TLC to run both readers on: every static                *)
(* table of one to four symbols, where functions may be adjacent or        *)
(* overlap and some symbols have no size, before or after a dynamic one;   *)
(* two static tables; a stripped file, an empty table, and what is not ELF.*)
(***************************************************************************)
EXTENDS SymbolReaders

S(name, value, size) == [name |-> name, value |-> value, size |-> size]
Static(syms)  == [type |-> "symtab", syms |-> syms]
Dynamic(syms) == [type |-> "dynsym", syms |-> syms]
Elf(secs)     == [kind |-> "elf", secs |-> secs]

MCSymbolSet == {S(0, 0, 0), S(1, 0, 2), S(2, 2, 2), S(3, 1, 3)}
MCSymTabs   == UNION {[1 .. n -> MCSymbolSet] : n \in 1 .. 4}
MCDynamic   == Dynamic(<<S(4, 4, 1)>>)

MCExecutables ==
    {Elf(<<Static(t), MCDynamic>>) : t \in MCSymTabs}
        \cup {Elf(<<MCDynamic, Static(<<S(1, 0, 2)>>), Static(<<S(3, 1, 3), S(2, 2, 2)>>)>>),
              Elf(<<MCDynamic>>), Elf(<<Static(<<>>)>>), Elf(<<>>)}
        \cup {[kind |-> k, secs |-> <<>>] : k \in {"missing", "short", "foreign"}}
=============================================================================
