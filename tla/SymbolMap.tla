----------------------------- MODULE SymbolMap ------------------------------
(***************************************************************************)
(* How the kernel module learns which function asks for protection: the    *)
(* symbol table of path_to_exe is read once (kernel_probe/parse_elf.c) and *)
(* every symbol with a size is put in a growable array                     *)
(* (kernel_probe/mapper.c) that get_func_name() then searches.             *)
(*                                                                         *)
(* The kernel heap is the set of blocks that kmalloc() has handed out and  *)
(* kfree() has not taken back; a block is a number, 0 is NULL.  The first  *)
(* element of the array carries cur and cap; cur is Len(mapper.items).     *)
(***************************************************************************)
EXTENDS ElfFile, FiniteSets

CONSTANTS
    Ips,         \* instruction pointers a caller may come from
    InitCap,     \* the capacity init_mapper() starts with
    AllocFails   \* kmalloc() may fail

ASSUME SymbolMapAssumption ==
    /\ Ips \subseteq Nat
    /\ InitCap \in Nat \ {0}
    /\ AllocFails \in BOOLEAN

VARIABLES
    exe,       \* the file that is at path_to_exe
    symtab,    \* ep->symtab .. ep->symtab_end
    pc,        \* where the first encrypt request is in building the map
    heap,      \* live blocks
    next,      \* the block kmalloc() hands out next
    mapper,    \* [blk, cap, items]; blk = 0 when init_mapper() failed
    ep,        \* the blocks of the Elf_obj and of the file image that elf_obj points to
    sym,       \* the symbol the walk is at
    answer,    \* what the last get_func_name() returned, -1 for NULL
    fault

vars == <<exe, symtab, pc, heap, next, mapper, ep, sym, answer, fault>>

Item == [blk : Nat, func : Nat, ip : Nat, size : Nat]

Init ==
    /\ exe \in Executables /\ symtab = <<>>
    /\ pc = "init" /\ heap = {} /\ next = 1
    /\ mapper = [blk |-> 0, cap |-> 0, items |-> <<>>]
    /\ ep = {} /\ sym = 1 /\ answer = -1 /\ fault = "none"

At(label) == pc = label /\ fault = "none"

Oops(f) == fault' = f /\ UNCHANGED <<exe, symtab, pc, heap, next, mapper, ep, sym, answer>>

(* kmalloc() of n blocks. *)
Blocks(n)   == next .. next + n - 1
kmalloc(n)  == heap' = heap \cup Blocks(n) /\ next' = next + n
-----------------------------------------------------------------------------
init_mapper ==
    /\ At("init")
    /\ pc' = "open"
    /\ \/ kmalloc(1) /\ mapper' = [blk |-> next, cap |-> InitCap, items |-> <<>>]
       \/ AllocFails /\ UNCHANGED <<heap, next, mapper>>
    /\ UNCHANGED <<exe, symtab, ep, sym, answer, fault>>

(* elf_open.  Its error paths return NULL and release nothing: the caller has no        *)
(* pointer to what was allocated.  The image is read into memory that is not checked    *)
(* for NULL.  A missing file is created, and is then short.                             *)
elf_open ==
    /\ At("open")
    /\ \/ /\ exe.kind = "elf" /\ HasFirstsym(exe)
          /\ kmalloc(2) /\ ep' = Blocks(2) /\ pc' = "walk" /\ symtab' = FindSymtab(exe)
       \/ /\ exe.kind = "foreign"
          /\ kmalloc(2) /\ pc' = "ready" /\ UNCHANGED <<symtab, ep>>
       \/ /\ exe.kind \in {"missing", "short"}
          /\ kmalloc(1) /\ pc' = "ready" /\ UNCHANGED <<symtab, ep>>
       \/ /\ AllocFails
          /\ pc' = "ready" /\ UNCHANGED <<symtab, heap, next, ep>>
    /\ UNCHANGED <<exe, mapper, sym, answer, fault>>

elf_open_oops ==
    /\ At("open") /\ exe.kind \in {"elf", "foreign"}
    /\ \/ AllocFails /\ Oops("null")
       \/ exe.kind = "elf" /\ ~HasFirstsym(exe) /\ Oops("bad_symtab")

(* elf_nextsym, and what parse() does when there is none. *)
elf_nextsym == /\ sym' = sym + 1
               /\ pc' = IF sym < Len(symtab) THEN "walk" ELSE "close"

(* Mutant: a symbol without size ends the round before the step to the next. *)
SkipSymbolStuck == At("walk") /\ ~Sized(symtab[sym]) /\ UNCHANGED vars

SkipSymbol ==
    /\ At("walk") /\ ~Sized(symtab[sym])
    /\ elf_nextsym
    /\ UNCHANGED <<exe, symtab, heap, next, mapper, ep, answer, fault>>

(* Mutant: the array is grown one item too late. *)
MapFullLate == Len(mapper.items) > mapper.cap

(* A full array is doubled: the names are copied one by one into new blocks, and the *)
(* old names and the old array are released.                                         *)
MapFull     == Len(mapper.items) = mapper.cap
NameBlocks  == {mapper.items[n].blk : n \in DOMAIN mapper.items}
NewItem(b)  == [blk |-> b, func |-> symtab[sym].name, ip |-> symtab[sym].value,
                size |-> symtab[sym].size]
Copied(n)   == [mapper.items[n] EXCEPT !.blk = next + n]

InsertRoom ==
    /\ kmalloc(1)
    /\ mapper' = [mapper EXCEPT !.items = Append(@, NewItem(next))]

(* Mutants: the call that grows the array forgets its own item; the old names leak. *)
GrowOnly ==
    LET cur == Len(mapper.items)
    IN  /\ heap' = (heap \cup Blocks(cur + 1)) \ (NameBlocks \cup {mapper.blk})
        /\ next' = next + cur + 1
        /\ mapper' = [blk |-> next, cap |-> 2 * mapper.cap, items |-> [n \in 1 .. cur |-> Copied(n)]]

GrowLeak ==
    LET cur == Len(mapper.items)
    IN  /\ heap' = (heap \cup Blocks(cur + 2)) \ {mapper.blk}
        /\ next' = next + cur + 2
        /\ mapper' = [blk   |-> next,
                      cap   |-> 2 * mapper.cap,
                      items |-> Append([n \in 1 .. cur |-> Copied(n)], NewItem(next + cur + 1))]

InsertGrow ==
    LET cur == Len(mapper.items)
    IN  /\ heap' = (heap \cup Blocks(cur + 2)) \ (NameBlocks \cup {mapper.blk})
        /\ next' = next + cur + 2
        /\ mapper' = [blk   |-> next,
                      cap   |-> 2 * mapper.cap,
                      items |-> Append([n \in 1 .. cur |-> Copied(n)], NewItem(next + cur + 1))]

insert_mapper ==
    /\ At("walk") /\ Sized(symtab[sym]) /\ mapper.blk # 0
    /\ IF MapFull THEN InsertGrow ELSE InsertRoom
    /\ elf_nextsym
    /\ UNCHANGED <<exe, symtab, ep, answer, fault>>

(* The array cannot be grown: insert_mapper() returns -1 and parse() returns at once,   *)
(* without elf_close(); elf_obj, its only pointer to the file's blocks, goes with it.   *)
insert_mapper_fails ==
    /\ At("walk") /\ Sized(symtab[sym]) /\ mapper.blk # 0
    /\ AllocFails /\ MapFull
    /\ pc' = "ready" /\ ep' = {}
    /\ UNCHANGED <<exe, symtab, heap, next, mapper, sym, answer, fault>>

(* No map at all, or no memory for the copy of a name: both are used unchecked. *)
insert_mapper_oops ==
    /\ At("walk") /\ Sized(symtab[sym])
    /\ mapper.blk = 0 \/ AllocFails
    /\ Oops("null")

elf_close ==
    /\ At("close")
    /\ heap' = heap \ ep /\ ep' = {}
    /\ pc' = "ready"
    /\ UNCHANGED <<exe, symtab, next, mapper, sym, answer, fault>>

(* Mutant: the end of a function counts as part of it. *)
CoversEnd(n, ip) == ip >= mapper.items[n].ip /\ ip <= mapper.items[n].ip + mapper.items[n].size

(* The name of the first item that covers ip. *)
Covers(n, ip) == ip >= mapper.items[n].ip /\ ip < mapper.items[n].ip + mapper.items[n].size
Hits(ip)      == {n \in DOMAIN mapper.items : Covers(n, ip)}

get_func_name(ip) ==
    /\ At("ready") /\ mapper.blk # 0
    /\ answer' = IF Hits(ip) = {} THEN -1
                 ELSE mapper.items[CHOOSE n \in Hits(ip) : \A m \in Hits(ip) : n <= m].func
    /\ UNCHANGED <<exe, symtab, pc, heap, next, mapper, ep, sym, fault>>

get_func_name_oops == At("ready") /\ mapper.blk = 0 /\ Oops("null")

Halted == fault # "none" /\ UNCHANGED vars

Load == \/ init_mapper \/ elf_open \/ elf_open_oops
        \/ SkipSymbol \/ insert_mapper \/ insert_mapper_fails \/ insert_mapper_oops
        \/ elf_close

Next == \/ Load
        \/ \E ip \in Ips : get_func_name(ip)
        \/ get_func_name_oops
        \/ Halted

(* The map is built inside one system call, which runs to its end. *)
Spec == Init /\ [][Next]_vars /\ WF_vars(Load)
-----------------------------------------------------------------------------
(* Type invariant. *)
SymbolTypeOK ==
    /\ exe \in Executables /\ symtab \in Seq(Symbol)
    /\ pc \in {"init", "open", "walk", "close", "ready"}
    /\ next \in Nat \ {0} /\ heap \subseteq 1 .. next - 1
    /\ mapper \in [blk : Nat, cap : Nat, items : Seq(Item)]
    /\ ep \subseteq heap /\ sym \in 1 .. Len(symtab) + 1
    /\ answer \in Nat \cup {-1}
    /\ fault \in {"none", "null", "bad_symtab"}
    /\ Len(mapper.items) <= mapper.cap

(* However often the array was grown, it holds exactly the sized symbols that the walk  *)
(* has passed, in the order of the table: each one is behind as many items as there are *)
(* sized symbols before it.  A failed growth leaves a prefix of the symbols: this is    *)
(* what StackVault's LoadMapper assumes of parse().                                     *)
SizedBefore(n) == {m \in 1 .. n - 1 : Sized(symtab[m])}
Place(n)       == Cardinality(SizedBefore(n)) + 1
MapIsPrefix ==
    mapper.blk # 0 =>
        /\ Len(mapper.items) = Cardinality(SizedBefore(sym))
        /\ \A n \in SizedBefore(sym) :
              /\ mapper.items[Place(n)].func = symtab[n].name
              /\ mapper.items[Place(n)].ip = symtab[n].value
              /\ mapper.items[Place(n)].size = symtab[n].size

(* What something still points to, what nothing points to any more, and whether the     *)
(* load ended in an error return instead of elf_close().                                *)
Reachable == NameBlocks \cup ep \cup ({mapper.blk} \ {0})
Lost      == heap \ Reachable
GaveUp    == pc = "ready" /\ (symtab = <<>> \/ sym <= Len(symtab))

(* No name, no array and no open file is ever used after its kfree(), each has a block   *)
(* of its own, and nothing is lost while the table is read or once elf_close() has run,  *)
(* however often insert_mapper() has copied the names into a larger array.  A load that  *)
(* gives up (elf_open's and parse's early returns) loses the Elf_obj and the image,      *)
(* never a name or an array, and no later request loses more.                            *)
HeapOwned ==
    /\ Reachable \subseteq heap
    /\ \A m, n \in DOMAIN mapper.items : m # n => mapper.items[m].blk # mapper.items[n].blk
    /\ mapper.blk \notin NameBlocks \cup ep /\ NameBlocks \cap ep = {}
    /\ Lost # {} => GaveUp /\ \E b \in Lost : Lost \subseteq {b, b + 1}

(* When the whole table was read, a request from ip is attributed to the first sized     *)
(* symbol of the table that covers ip, and to none only if there is none.                *)
Covering(ip) == {n \in DOMAIN symtab : /\ Sized(symtab[n])
                                       /\ ip \in symtab[n].value .. symtab[n].value + symtab[n].size - 1}
Resolves ==
    [][\A ip \in Ips : (get_func_name(ip) /\ sym > Len(symtab)) =>
           answer' = IF Covering(ip) = {} THEN -1
                     ELSE symtab[CHOOSE n \in Covering(ip) : \A m \in Covering(ip) : n <= m].name]_vars

(* The first request gets past the symbol table, however many of its symbols have no size. *)
Loads == <>(pc = "ready" \/ fault # "none")
=============================================================================
