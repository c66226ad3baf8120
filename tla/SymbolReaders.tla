--------------------------- MODULE SymbolReaders ----------------------------
(***************************************************************************)
(* The kernel's reader, SymbolMap, and the user-level one it was made      *)
(* from, ElfLister, on the same executable.                                *)
(***************************************************************************)
EXTENDS SymbolMap

VARIABLES lister, at, printed

Lister == INSTANCE ElfLister WITH CallsFail <- AllocFails

lvars == <<lister, at, printed>>

BothInit == Init /\ Lister!Init

BothNext == \/ Next /\ UNCHANGED lvars
            \/ Lister!Next /\ UNCHANGED <<symtab, pc, heap, next, mapper, ep, sym, answer, fault>>

(* The first request runs in the kernel to its end, and nothing keeps the lister waiting. *)
BothSpec == BothInit /\ [][BothNext]_<<vars, lvars>> /\ WF_vars(Load) /\ WF_<<exe, lvars>>(Lister!Next)
-----------------------------------------------------------------------------
LastStatic(t) == \E n \in DOMAIN exe.secs :
                    /\ exe.secs[n] = [type |-> "symtab", syms |-> t]
                    /\ \A m \in n + 1 .. Len(exe.secs) : exe.secs[m].type = "dynsym"

SizedLines(n) == {m \in 1 .. n : Sized(printed[m])}

(* Both readers work on the same table, the last static one, and see it the same way:     *)
(* once the list is complete and the walk of parse() too, the kernel's map has exactly    *)
(* the printed symbols that have a size, in their order, and no dynamic symbol is in it.  *)
ListShowsMap ==
    (lister = "done") =>
        /\ LastStatic(printed)
        /\ (sym > 1 /\ sym > Len(symtab)) =>
              /\ Len(mapper.items) = Cardinality(SizedLines(Len(printed)))
              /\ \A n \in SizedLines(Len(printed)) :
                    LET item == mapper.items[Cardinality(SizedLines(n))]
                    IN  printed[n] = [name |-> item.func, value |-> item.ip, size |-> item.size]

(* The lister ends, whatever it is given. *)
ListerEnds == <>Lister!Over
=============================================================================
