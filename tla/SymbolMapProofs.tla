-------------------------- MODULE SymbolMapProofs ---------------------------
(***************************************************************************)
(* The symbol map for every executable, capacity and set of callers: its   *)
(* types, which blocks of the kernel heap it owns, that it has the sized   *)
(* symbols in their order, that a caller is attributed to the right one,   *)
(* and that the user-level reader shows the same symbols.                  *)
(***************************************************************************)
EXTENDS SymbolReaders, NumberFacts, FiniteSetTheorems, SequenceTheorems

(* How far the first request is. *)
Stage ==
    /\ pc = "init" => mapper.blk = 0
    /\ pc \in {"init", "open"} => ep = {} /\ sym = 1 /\ symtab = <<>>
    /\ pc = "walk" => sym <= Len(symtab) /\ \E b \in Nat : ep = {b, b + 1}
    /\ IF mapper.blk = 0 THEN mapper.items = <<>> ELSE mapper.cap >= 1

(* Item n is symbol k of the table. *)
ItemIs(n, k) == /\ mapper.items[n].func = symtab[k].name
                /\ mapper.items[n].ip = symtab[k].value
                /\ mapper.items[n].size = symtab[k].size

(* Which symbol each item came from: g[n] for item n. *)
From(g) ==
    /\ \A m, n \in DOMAIN mapper.items : m < n => g[m] < g[n]
    /\ \A n \in DOMAIN mapper.items : Sized(symtab[g[n]]) /\ Place(g[n]) = n /\ ItemIs(n, g[n])
    /\ \A k \in 1 .. sym - 1 : Sized(symtab[k]) => \E n \in DOMAIN mapper.items : g[n] = k

Follows ==
    mapper.blk # 0 =>
        /\ Len(mapper.items) = Cardinality(SizedBefore(sym))
        /\ \E g \in [DOMAIN mapper.items -> 1 .. sym - 1] : From(g)

IInv == SymbolTypeOK /\ HeapOwned /\ Stage /\ Follows

(* Tables and items. *)
(* The table that is found is one of symbols. *)
LEMMA TableType ==
    ASSUME NEW f \in Executables, Statics(f) # {}
    PROVE  FindSymtab(f) \in Seq(Symbol)
<1>1. f.secs \in Seq(Section)
  BY ExecutableAssumption
<1>2. Statics(f) \subseteq 1 .. Len(f.secs) /\ Len(f.secs) \in Nat
  BY <1>1 DEF Statics
<1>3. \E n \in Statics(f) : \A m \in Statics(f) : n >= m
  BY <1>2, Greatest
<1>4. \E n \in Statics(f) : \A m \in Statics(f) : m <= n
  BY <1>2, <1>3
<1>5. PICK n \in Statics(f) : n = CHOOSE h \in Statics(f) : \A m \in Statics(f) : m <= h
  BY <1>4
<1>6. FindSymtab(f) = f.secs[n].syms
  BY <1>5 DEF FindSymtab
<1>7. n \in DOMAIN f.secs
  BY <1>5 DEF Statics
<1>8. f.secs[n] \in Section
  BY <1>1, <1>7
<1> QED
  BY <1>6, <1>8 DEF Section

(* The map, the symbol that is put in and its item. *)
LEMMA MapIs ==
    ASSUME SymbolTypeOK
    PROVE  /\ mapper = [blk |-> mapper.blk, cap |-> mapper.cap, items |-> mapper.items]
           /\ mapper.blk \in Nat /\ mapper.cap \in Nat /\ mapper.items \in Seq(Item)
           /\ Len(mapper.items) \in Nat /\ DOMAIN mapper.items = 1 .. Len(mapper.items)
           /\ \A n \in 1 .. Len(mapper.items) : mapper.items[n] \in Item
  BY DEF SymbolTypeOK

(* A symbol of the table is typed. *)
LEMMA SymbolIs ==
    ASSUME SymbolTypeOK, NEW k \in 1 .. Len(symtab)
    PROVE  symtab[k].name \in Nat /\ symtab[k].value \in Nat /\ symtab[k].size \in Nat
<1>1. symtab[k] \in Symbol
  BY DEF SymbolTypeOK
<1> QED
  BY <1>1 DEF Symbol

(* The entry that is made for a symbol has its name, value and size. *)
LEMMA ItemType ==
    ASSUME SymbolTypeOK, sym \in 1 .. Len(symtab), NEW b \in Nat
    PROVE  NewItem(b) \in Item /\ NewItem(b).blk = b /\ NewItem(b).func = symtab[sym].name
           /\ NewItem(b).ip = symtab[sym].value /\ NewItem(b).size = symtab[sym].size
<1>1. symtab[sym].name \in Nat /\ symtab[sym].value \in Nat /\ symtab[sym].size \in Nat
  BY SymbolIs
<1> QED
  BY <1>1 DEF NewItem, Item

(* The copy of an entry in the grown map is that entry in a block of its own. *)
LEMMA CopyType ==
    ASSUME SymbolTypeOK, NEW n \in 1 .. Len(mapper.items)
    PROVE  /\ Copied(n) \in Item /\ Copied(n).blk = next + n
           /\ Copied(n).func = mapper.items[n].func /\ Copied(n).ip = mapper.items[n].ip
           /\ Copied(n).size = mapper.items[n].size
<1>1. mapper.items[n] \in Item /\ n \in Nat /\ next \in Nat
  BY MapIs DEF SymbolTypeOK
<1>2. next + n \in Nat
  BY <1>1
<1> QED
  BY <1>1, <1>2 DEF Copied, Item

(* insert_mapper with room in the array. *)
LEMMA RoomIs ==
    ASSUME SymbolTypeOK, Stage, mapper.blk # 0, sym \in 1 .. Len(symtab), ~MapFull, InsertRoom
    PROVE  /\ mapper'.blk = mapper.blk /\ mapper'.cap = mapper.cap /\ mapper'.items \in Seq(Item)
           /\ mapper' = [blk |-> mapper'.blk, cap |-> mapper'.cap, items |-> mapper'.items]
           /\ Len(mapper'.items) = Len(mapper.items) + 1 /\ Len(mapper'.items) <= mapper'.cap
           /\ \A n \in 1 .. Len(mapper.items) : mapper'.items[n] = mapper.items[n]
           /\ mapper'.items[Len(mapper.items) + 1] = NewItem(next)
<1>1. /\ mapper = [blk |-> mapper.blk, cap |-> mapper.cap, items |-> mapper.items]
      /\ mapper.cap \in Nat /\ mapper.items \in Seq(Item) /\ Len(mapper.items) \in Nat
  BY MapIs
<1>2. next \in Nat /\ Len(mapper.items) <= mapper.cap
  BY DEF SymbolTypeOK
<1>3. PICK x \in Item : x = NewItem(next)
  BY <1>2, ItemType
<1>4. PICK s \in Seq(Item) : s = mapper.items
  BY <1>1
<1>5. mapper' = [blk |-> mapper.blk, cap |-> mapper.cap, items |-> Append(s, x)]
  BY <1>1, <1>3, <1>4 DEF InsertRoom
<1>6. /\ Append(s, x) \in Seq(Item) /\ Len(Append(s, x)) = Len(s) + 1
      /\ \A n \in 1 .. Len(s) : Append(s, x)[n] = s[n]
      /\ Append(s, x)[Len(s) + 1] = x
  BY AppendProperties
<1>7. Len(s) + 1 <= mapper.cap
  BY <1>1, <1>2, <1>4 DEF MapFull
<1> QED
  BY <1>3, <1>4, <1>5, <1>6, <1>7

(* insert_mapper with a full one. *)
LEMMA GrowIs ==
    ASSUME SymbolTypeOK, Stage, mapper.blk # 0, sym \in 1 .. Len(symtab), MapFull, InsertGrow
    PROVE  /\ mapper'.blk = next /\ mapper'.cap = 2 * mapper.cap /\ mapper'.items \in Seq(Item)
           /\ mapper' = [blk |-> mapper'.blk, cap |-> mapper'.cap, items |-> mapper'.items]
           /\ Len(mapper'.items) = Len(mapper.items) + 1 /\ Len(mapper'.items) <= mapper'.cap
           /\ \A n \in 1 .. Len(mapper.items) : mapper'.items[n] = Copied(n)
           /\ mapper'.items[Len(mapper.items) + 1] = NewItem(next + Len(mapper.items) + 1)
<1>1. mapper.cap \in Nat /\ Len(mapper.items) \in Nat
  BY MapIs
<1>2. next \in Nat /\ Len(mapper.items) = mapper.cap /\ mapper.cap >= 1
  BY DEF SymbolTypeOK, MapFull, Stage
<1>3. PICK cur \in Nat : cur = Len(mapper.items)
  BY <1>1
<1>4. PICK x \in Item : x = NewItem(next + cur + 1)
  <2>1. next + cur + 1 \in Nat
    BY <1>2, <1>3
  <2> QED
    BY <2>1, ItemType
<1>5. PICK s : s = [n \in 1 .. cur |-> Copied(n)]
  OBVIOUS
<1>6. s \in [1 .. cur -> Item]
  BY <1>3, <1>5, CopyType
<1>7. s \in Seq(Item) /\ Len(s) = cur
  BY <1>3, <1>6, SeqDef
<1>8. mapper' = [blk |-> next, cap |-> 2 * mapper.cap, items |-> Append(s, x)]
  BY <1>3, <1>4, <1>5 DEF InsertGrow
<1>9. /\ Append(s, x) \in Seq(Item) /\ Len(Append(s, x)) = Len(s) + 1
      /\ \A n \in 1 .. Len(s) : Append(s, x)[n] = s[n]
      /\ Append(s, x)[Len(s) + 1] = x
  BY <1>7, AppendProperties
<1>10. cur + 1 <= 2 * mapper.cap
  BY <1>2, <1>3
<1> QED
  BY <1>3, <1>4, <1>5, <1>7, <1>8, <1>9, <1>10

(* What insert_mapper does, whether the array has room or is grown. *)
LEMMA InsertStep ==
    ASSUME SymbolTypeOK, HeapOwned, Stage, insert_mapper
    PROVE  /\ mapper'.blk \in Nat \ {0} /\ mapper'.cap \in Nat /\ mapper'.cap >= 1
           /\ mapper'.items \in Seq(Item)
           /\ mapper' = [blk |-> mapper'.blk, cap |-> mapper'.cap, items |-> mapper'.items]
           /\ Len(mapper'.items) = Len(mapper.items) + 1 /\ Len(mapper'.items) <= mapper'.cap
           /\ \A n \in 1 .. Len(mapper.items) : /\ mapper'.items[n].func = mapper.items[n].func
                                                /\ mapper'.items[n].ip = mapper.items[n].ip
                                                /\ mapper'.items[n].size = mapper.items[n].size
           /\ mapper'.items[Len(mapper.items) + 1].func = symtab[sym].name
           /\ mapper'.items[Len(mapper.items) + 1].ip = symtab[sym].value
           /\ mapper'.items[Len(mapper.items) + 1].size = symtab[sym].size
           /\ next' \in Nat \ {0} /\ heap' \subseteq 1 .. next' - 1 /\ ep \subseteq heap' /\ HeapOwned'
<1>0. /\ mapper.blk # 0 /\ sym \in 1 .. Len(symtab) /\ UNCHANGED <<symtab, ep>> /\ pc = "walk"
      /\ next \in Nat \ {0} /\ heap \subseteq 1 .. next - 1 /\ ep \subseteq heap
      /\ IF MapFull THEN InsertGrow ELSE InsertRoom
  BY DEF SymbolTypeOK, Stage, insert_mapper, At
<1>1. /\ mapper.blk \in Nat /\ mapper.cap \in Nat /\ mapper.cap >= 1 /\ Len(mapper.items) \in Nat
      /\ DOMAIN mapper.items = 1 .. Len(mapper.items)
  BY <1>0, MapIs DEF Stage
<1>2. /\ heap = NameBlocks \cup ep \cup {mapper.blk}
      /\ \A m, n \in DOMAIN mapper.items : m # n => mapper.items[m].blk # mapper.items[n].blk
      /\ mapper.blk \notin NameBlocks \cup ep /\ NameBlocks \cap ep = {}
  BY <1>0 DEF HeapOwned, Reachable, Lost, GaveUp
<1>3. CASE ~MapFull
  <2>1. /\ mapper'.blk = mapper.blk /\ mapper'.cap = mapper.cap /\ mapper'.items \in Seq(Item)
        /\ mapper' = [blk |-> mapper'.blk, cap |-> mapper'.cap, items |-> mapper'.items]
        /\ Len(mapper'.items) = Len(mapper.items) + 1 /\ Len(mapper'.items) <= mapper'.cap
        /\ \A n \in 1 .. Len(mapper.items) : mapper'.items[n] = mapper.items[n]
        /\ mapper'.items[Len(mapper.items) + 1] = NewItem(next)
    BY <1>0, <1>3, RoomIs
  <2>2. heap' = heap \cup {next} /\ next' = next + 1
    <3>1. Blocks(1) = {next}
      BY <1>0 DEF Blocks
    <3> QED
      BY <1>0, <1>3, <3>1 DEF InsertRoom, kmalloc
  <2>3. NewItem(next).blk = next /\ NewItem(next).func = symtab[sym].name
        /\ NewItem(next).ip = symtab[sym].value /\ NewItem(next).size = symtab[sym].size
    BY <1>0, ItemType
  <2>4. DOMAIN mapper'.items = 1 .. Len(mapper.items) + 1
    BY <2>1
  <2>5. NameBlocks' = NameBlocks \cup {next}
    <3>1. \A n \in 1 .. Len(mapper.items) + 1 : n \in 1 .. Len(mapper.items) \/ n = Len(mapper.items) + 1
      BY <1>1
    <3>2. 1 .. Len(mapper.items) \subseteq 1 .. Len(mapper.items) + 1 /\ Len(mapper.items) + 1 \in 1 .. Len(mapper.items) + 1
      BY <1>1
    <3> QED
      BY <1>1, <2>1, <2>3, <2>4, <3>1, <3>2 DEF NameBlocks
  <2>6. next \notin heap
    BY <1>0
  <2>7. HeapOwned'
    <3>1. heap' = Reachable'
      BY <1>0, <1>2, <2>1, <2>2, <2>5 DEF Reachable
    <3>2. mapper'.blk \notin NameBlocks' \cup ep' /\ NameBlocks' \cap ep' = {}
      BY <1>0, <1>2, <2>1, <2>5, <2>6
    <3>3. \A n \in 1 .. Len(mapper.items) : mapper'.items[n].blk \in heap /\ mapper'.items[n].blk # next
      BY <1>1, <1>2, <2>1, <2>6 DEF NameBlocks
    <3>4. ASSUME NEW m \in DOMAIN mapper'.items, NEW n \in DOMAIN mapper'.items, m # n
          PROVE  mapper'.items[m].blk # mapper'.items[n].blk
      <4>1. m \in 1 .. Len(mapper.items) \/ m = Len(mapper.items) + 1
        BY <1>1, <2>4
      <4>2. n \in 1 .. Len(mapper.items) \/ n = Len(mapper.items) + 1
        BY <1>1, <2>4
      <4> QED
        BY <1>1, <1>2, <2>1, <2>3, <3>3, <3>4, <4>1, <4>2
    <3> QED
      BY <3>1, <3>2, <3>4 DEF HeapOwned, Lost
  <2>8. next' \in Nat \ {0} /\ heap' \subseteq 1 .. next' - 1 /\ ep \subseteq heap'
    BY <1>0, <2>2
  <2> QED
    BY <1>0, <1>1, <2>1, <2>3, <2>7, <2>8
<1>4. CASE MapFull
  <2>0. PICK cur \in Nat : cur = Len(mapper.items)
    BY <1>1
  <2>1. /\ mapper'.blk = next /\ mapper'.cap = 2 * mapper.cap /\ mapper'.items \in Seq(Item)
        /\ mapper' = [blk |-> mapper'.blk, cap |-> mapper'.cap, items |-> mapper'.items]
        /\ Len(mapper'.items) = cur + 1 /\ Len(mapper'.items) <= mapper'.cap
        /\ \A n \in 1 .. cur : mapper'.items[n] = Copied(n)
        /\ mapper'.items[cur + 1] = NewItem(next + cur + 1)
    BY <1>0, <1>4, <2>0, GrowIs
  <2>2. heap' = (heap \cup (next .. next + cur + 1)) \ (NameBlocks \cup {mapper.blk}) /\ next' = next + cur + 2
    <3>1. Blocks(cur + 2) = next .. next + cur + 1
      BY <1>0, <2>0 DEF Blocks
    <3> QED
      BY <1>0, <1>4, <2>0, <3>1 DEF InsertGrow
  <2>3. PICK new \in Nat : new = next + cur + 1
    BY <1>0
  <2>4. NewItem(new).blk = new /\ NewItem(new).func = symtab[sym].name
        /\ NewItem(new).ip = symtab[sym].value /\ NewItem(new).size = symtab[sym].size
    BY <1>0, ItemType
  <2>5. \A n \in 1 .. cur : /\ Copied(n).blk = next + n /\ Copied(n).func = mapper.items[n].func
                            /\ Copied(n).ip = mapper.items[n].ip /\ Copied(n).size = mapper.items[n].size
    BY <2>0, CopyType
  <2>6. DOMAIN mapper'.items = 1 .. cur + 1 /\ \A n \in 1 .. cur + 1 : mapper'.items[n].blk = next + n
    <3>1. DOMAIN mapper'.items = 1 .. cur + 1
      BY <2>1
    <3>2. \A n \in 1 .. cur + 1 : n \in 1 .. cur \/ n = cur + 1
      OBVIOUS
    <3>3. mapper'.items[cur + 1].blk = next + (cur + 1)
      BY <1>0, <2>1, <2>3, <2>4
    <3> QED
      BY <2>1, <2>5, <3>1, <3>2, <3>3
  <2>7. NameBlocks' = next + 1 .. next + cur + 1
    <3>1. NameBlocks' = {next + n : n \in 1 .. cur + 1}
      BY <2>6 DEF NameBlocks
    <3>2. \A x \in next + 1 .. next + cur + 1 : x - next \in 1 .. cur + 1 /\ x = next + (x - next)
      BY <1>0
    <3>3. \A n \in 1 .. cur + 1 : next + n \in next + 1 .. next + cur + 1
      BY <1>0
    <3> QED
      BY <3>1, <3>2, <3>3
  <2>8. next .. next + cur + 1 = (next + 1 .. next + cur + 1) \cup {next}
    BY <1>0
  <2>9. \A x \in next .. next + cur + 1 : x \notin heap
    BY <1>0
  <2>10. heap' = ep \cup (next .. next + cur + 1)
    BY <1>0, <1>2, <2>2, <2>9
  <2>11. HeapOwned'
    <3>1. heap' = Reachable'
      BY <1>0, <2>1, <2>7, <2>8, <2>10 DEF Reachable
    <3>2. mapper'.blk \notin NameBlocks' \cup ep' /\ NameBlocks' \cap ep' = {}
      <4>1. next \notin next + 1 .. next + cur + 1
        BY <1>0
      <4>2. next \in next .. next + cur + 1
        BY <1>0
      <4> QED
        BY <1>0, <2>1, <2>7, <2>8, <2>9, <4>1, <4>2
    <3>3. \A m, n \in DOMAIN mapper'.items : m # n => mapper'.items[m].blk # mapper'.items[n].blk
      BY <1>0, <2>6
    <3> QED
      BY <3>1, <3>2, <3>3 DEF HeapOwned, Lost
  <2>12. next' \in Nat \ {0} /\ heap' \subseteq 1 .. next' - 1 /\ ep \subseteq heap'
    <3>1. next' \in Nat \ {0} /\ 1 .. next - 1 \subseteq 1 .. next' - 1 /\ next .. next + cur + 1 \subseteq 1 .. next' - 1
      BY <1>0, <2>2
    <3> QED
      BY <1>0, <2>10, <3>1
  <2>13. mapper'.blk \in Nat \ {0} /\ mapper'.cap \in Nat /\ mapper'.cap >= 1
    BY <1>0, <1>1, <2>1, SMTT(30)
  <2> QED
    BY <1>0, <2>0, <2>1, <2>3, <2>4, <2>5, <2>11, <2>12, <2>13, ZenonT(30)
<1> QED
  BY <1>3, <1>4

(* Types, blocks and stages, step by step. *)
(* The actions that change nothing but pc, sym, answer and fault, and lose no block. *)
Quiet == SkipSymbol \/ insert_mapper_oops \/ elf_open_oops
         \/ (\E ip \in Ips : get_func_name(ip)) \/ get_func_name_oops \/ UNCHANGED vars

(* get_func_name answers with a name of the map or with NULL. *)
LEMMA AnswerType ==
    ASSUME SymbolTypeOK, NEW ip \in Ips, get_func_name(ip)
    PROVE  answer' \in Nat \cup {-1}
<1>1. CASE Hits(ip) = {}
  BY <1>1 DEF get_func_name
<1>2. CASE Hits(ip) # {}
  <2>1. Hits(ip) \subseteq 1 .. Len(mapper.items) /\ Hits(ip) \subseteq Nat
    BY MapIs DEF Hits
  <2>2. \E n \in Hits(ip) : \A m \in Hits(ip) : n <= m
    BY <1>2, <2>1, LeastNatural
  <2>3. PICK n \in Hits(ip) : n = CHOOSE h \in Hits(ip) : \A m \in Hits(ip) : h <= m
    BY <2>2
  <2>4. answer' = mapper.items[n].func
    BY <1>2, <2>3 DEF get_func_name
  <2>5. mapper.items[n] \in Item
    BY <2>1, MapIs
  <2> QED
    BY <2>4, <2>5 DEF Item
<1> QED
  BY <1>1, <1>2

(* These steps change neither the map nor the heap. *)
LEMMA QuietStep ==
    ASSUME SymbolTypeOK, HeapOwned, Stage, Quiet
    PROVE  /\ UNCHANGED <<exe, symtab, heap, next, mapper, ep>>
           /\ SymbolTypeOK' /\ HeapOwned' /\ Stage'
<1>1. UNCHANGED <<exe, symtab, heap, next, mapper, ep>>
  BY DEF Quiet, SkipSymbol, insert_mapper_oops, elf_open_oops, get_func_name,
         get_func_name_oops, Oops, vars
<1>2. HeapOwned'
  <2>1. NameBlocks' = NameBlocks /\ Reachable' = Reachable /\ Lost' = Lost
    BY <1>1 DEF NameBlocks, Reachable, Lost
  <2>2. pc = "ready" => UNCHANGED <<pc, sym>>
    BY DEF Quiet, SkipSymbol, insert_mapper_oops, elf_open_oops, get_func_name,
           get_func_name_oops, Oops, At, vars
  <2>3. GaveUp => GaveUp'
    BY <1>1, <2>2 DEF GaveUp
  <2> QED
    BY <1>1, <2>1, <2>3 DEF HeapOwned
<1>3. /\ fault' \in {"none", "null", "bad_symtab"} /\ pc' \in {"init", "open", "walk", "close", "ready"}
  BY DEF Quiet, SkipSymbol, insert_mapper_oops, elf_open_oops, get_func_name,
         get_func_name_oops, Oops, vars, elf_nextsym, SymbolTypeOK
<1>4. answer' \in Nat \cup {-1}
  <2>1. CASE \E ip \in Ips : get_func_name(ip)
    BY <2>1, AnswerType
  <2>2. CASE UNCHANGED answer
    BY <2>2 DEF SymbolTypeOK
  <2> QED
    BY <2>1, <2>2 DEF Quiet, SkipSymbol, insert_mapper_oops, elf_open_oops,
                      get_func_name_oops, Oops, vars
<1>5. sym' \in 1 .. Len(symtab) + 1 /\ Stage'
  <2>1. sym \in 1 .. Len(symtab) + 1 /\ Len(symtab) \in Nat
    BY DEF SymbolTypeOK
  <2>2. CASE SkipSymbol
    <3>1. pc = "walk" /\ sym' = sym + 1 /\ pc' = IF sym < Len(symtab) THEN "walk" ELSE "close"
      BY <2>2 DEF SkipSymbol, At, elf_nextsym
    <3> QED
      BY <1>1, <2>1, <3>1 DEF Stage
  <2>3. CASE sym' = sym /\ pc' = pc
    BY <1>1, <2>1, <2>3 DEF Stage
  <2> QED
    BY <2>2, <2>3 DEF Quiet, insert_mapper_oops, elf_open_oops, get_func_name,
                      get_func_name_oops, Oops, vars
<1>6. SymbolTypeOK'
  BY <1>1, <1>3, <1>4, <1>5 DEF SymbolTypeOK
<1> QED
  BY <1>1, <1>2, <1>5, <1>6

(* init_mapper: the map has the first block. *)
LEMMA InitMapperStep ==
    ASSUME SymbolTypeOK, HeapOwned, Stage, init_mapper
    PROVE  SymbolTypeOK' /\ HeapOwned' /\ Stage'
<1>0. /\ pc = "init" /\ pc' = "open" /\ mapper.blk = 0 /\ mapper.items = <<>> /\ ep = {}
      /\ UNCHANGED <<exe, symtab, ep, sym, answer, fault>>
  BY DEF init_mapper, At, Stage
<1>1. CASE UNCHANGED <<heap, next, mapper>>
  <2>1. SymbolTypeOK'
    BY <1>0, <1>1 DEF SymbolTypeOK
  <2>2. HeapOwned'
    BY <1>0, <1>1 DEF HeapOwned, Reachable, NameBlocks, Lost, GaveUp
  <2>3. Stage'
    BY <1>0, <1>1 DEF Stage
  <2> QED
    BY <2>1, <2>2, <2>3
<1>2. CASE kmalloc(1) /\ mapper' = [blk |-> next, cap |-> InitCap, items |-> <<>>]
  <2>1. next \in Nat \ {0} /\ heap = {} /\ InitCap \in Nat \ {0}
    BY <1>0, SymbolMapAssumption DEF SymbolTypeOK, HeapOwned, Reachable, NameBlocks, Lost, GaveUp
  <2>2. heap' = {next} /\ next' = next + 1
    BY <1>2, <2>1 DEF kmalloc, Blocks
  <2>3. mapper'.blk = next /\ mapper'.cap = InitCap /\ mapper'.items = <<>>
    BY <1>2
  <2>4. NameBlocks' = {}
    BY <2>3 DEF NameBlocks
  <2>5. HeapOwned'
    BY <1>0, <2>1, <2>2, <2>3, <2>4 DEF HeapOwned, Reachable, Lost
  <2>6. Stage'
    BY <1>0, <2>1, <2>3 DEF Stage
  <2>7. /\ next' \in Nat \ {0} /\ heap' \subseteq 1 .. next' - 1
        /\ mapper' \in [blk : Nat, cap : Nat, items : Seq(Item)] /\ Len(mapper'.items) <= mapper'.cap
    <3>1. <<>> \in Seq(Item) /\ Len(<<>>) = 0
      OBVIOUS
    <3> QED
      BY <1>2, <2>1, <2>2, <2>3, <3>1
  <2> QED
    BY <1>0, <2>5, <2>6, <2>7 DEF SymbolTypeOK
<1> QED
  BY <1>1, <1>2 DEF init_mapper

(* elf_open: the file has new blocks, and the walk starts only if there is a symbol. *)
LEMMA OpenStep ==
    ASSUME SymbolTypeOK, HeapOwned, Stage, elf_open
    PROVE  SymbolTypeOK' /\ HeapOwned' /\ Stage'
<1>0. /\ pc = "open" /\ ep = {} /\ sym = 1 /\ symtab = <<>> /\ UNCHANGED <<exe, mapper, sym, answer, fault>>
      /\ next \in Nat \ {0} /\ heap \subseteq 1 .. next - 1 /\ exe \in Executables
  BY DEF elf_open, At, Stage, SymbolTypeOK
<1>1. heap = NameBlocks \cup ({mapper.blk} \ {0}) /\ mapper.blk \notin NameBlocks
  BY <1>0 DEF HeapOwned, Reachable, Lost, GaveUp
<1>2. NameBlocks' = NameBlocks
  BY <1>0 DEF NameBlocks
<1>3. CASE UNCHANGED <<symtab, heap, next, ep>> /\ pc' = "ready"
  <2>1. SymbolTypeOK'
    BY <1>0, <1>3 DEF SymbolTypeOK
  <2>2. HeapOwned'
    BY <1>0, <1>1, <1>2, <1>3 DEF HeapOwned, Reachable, Lost
  <2>3. Stage'
    BY <1>0, <1>3 DEF Stage
  <2> QED
    BY <2>1, <2>2, <2>3
<1>4. ASSUME NEW k \in {1, 2}, kmalloc(k), UNCHANGED <<symtab, ep>>, pc' = "ready"
      PROVE  SymbolTypeOK' /\ HeapOwned' /\ Stage'
  <2>1. heap' = heap \cup (next .. next + k - 1) /\ next' = next + k
    BY <1>4 DEF kmalloc, Blocks
  <2>2. next .. next + k - 1 \subseteq {next, next + 1} /\ next \in next .. next + k - 1
    BY <1>0, <1>4
  <2>3. Reachable' = Reachable /\ heap = Reachable
    BY <1>0, <1>1, <1>2, <1>4 DEF Reachable
  <2>4. \A x \in next .. next + k - 1 : x \notin heap
    BY <1>0, <1>4
  <2>5. Lost' = next .. next + k - 1
    BY <2>1, <2>3, <2>4 DEF Lost
  <2>6. GaveUp'
    BY <1>0, <1>4 DEF GaveUp
  <2>7. HeapOwned'
    <3>1. \E b \in Lost' : Lost' \subseteq {b, b + 1}
      BY <2>2, <2>5
    <3>2. Reachable' \subseteq heap'
      BY <2>1, <2>3
    <3> QED
      BY <1>0, <1>2, <1>4, <2>6, <3>1, <3>2 DEF HeapOwned
  <2>8. Stage'
    BY <1>0, <1>4 DEF Stage
  <2>9. next' \in Nat \ {0} /\ heap' \subseteq 1 .. next' - 1
    BY <1>0, <1>4, <2>1
  <2> QED
    BY <1>0, <1>4, <2>7, <2>8, <2>9 DEF SymbolTypeOK
<1>5. CASE HasFirstsym(exe) /\ kmalloc(2) /\ ep' = Blocks(2) /\ pc' = "walk" /\ symtab' = FindSymtab(exe)
  <2>1. symtab' \in Seq(Symbol) /\ symtab' # <<>>
    BY <1>0, <1>5, TableType DEF HasFirstsym
  <2>2. ep' = {next, next + 1} /\ next' = next + 2 /\ heap' = heap \cup ep'
    BY <1>0, <1>5 DEF kmalloc, Blocks
  <2>3. next \notin heap /\ next + 1 \notin heap /\ 0 \notin ep'
    BY <1>0, <2>2
  <2>4. HeapOwned'
    <3>1. mapper.blk \notin ep'
      BY <1>1, <2>2, <2>3
    <3>2. heap' = Reachable' /\ NameBlocks' \cap ep' = {}
      BY <1>0, <1>1, <1>2, <2>2, <2>3 DEF Reachable
    <3> QED
      BY <1>0, <1>1, <1>2, <3>1, <3>2 DEF HeapOwned, Lost
  <2>5. Len(symtab') \in Nat /\ 1 <= Len(symtab')
    BY <2>1, EmptySeq
  <2>6. Stage'
    BY <1>0, <1>5, <2>2, <2>5 DEF Stage
  <2>7. next' \in Nat \ {0} /\ heap' \subseteq 1 .. next' - 1 /\ ep' \subseteq heap'
    BY <1>0, <2>2
  <2>8. sym' \in 1 .. Len(symtab') + 1
    BY <1>0, <2>5
  <2> QED
    BY <1>0, <1>5, <2>1, <2>4, <2>6, <2>7, <2>8 DEF SymbolTypeOK
<1> QED
  BY <1>3, <1>4, <1>5 DEF elf_open

(* insert_mapper_fails: the blocks of the file are lost, and nothing else. *)
LEMMA GiveUpStep ==
    ASSUME SymbolTypeOK, HeapOwned, Stage, insert_mapper_fails
    PROVE  SymbolTypeOK' /\ HeapOwned' /\ Stage'
<1>0. /\ pc = "walk" /\ sym <= Len(symtab) /\ pc' = "ready" /\ ep' = {}
      /\ UNCHANGED <<exe, symtab, heap, next, mapper, sym, answer, fault>>
  BY DEF insert_mapper_fails, At, Stage
<1>1. heap = Reachable
  BY <1>0 DEF HeapOwned, Lost, GaveUp
<1>2. PICK b \in Nat : ep = {b, b + 1}
  BY <1>0 DEF Stage
<1>3. NameBlocks' = NameBlocks
  BY <1>0 DEF NameBlocks
<1>4. Lost' = {b, b + 1}
  BY <1>0, <1>1, <1>2, <1>3 DEF HeapOwned, Reachable, Lost
<1>5. HeapOwned'
  <2>1. \E c \in Lost' : Lost' \subseteq {c, c + 1}
    BY <1>4
  <2>2. GaveUp' /\ Reachable' \subseteq heap'
    BY <1>0, <1>1, <1>3 DEF GaveUp, Reachable
  <2> QED
    BY <1>0, <1>3, <2>1, <2>2 DEF HeapOwned
<1> QED
  BY <1>0, <1>5 DEF SymbolTypeOK, Stage

(* All steps, for the types, the blocks and the stages. *)
LEMMA HeapStep ==
    ASSUME IInv, [Next]_vars
    PROVE  SymbolTypeOK' /\ HeapOwned' /\ Stage'
<1>0. SymbolTypeOK /\ HeapOwned /\ Stage
  BY DEF IInv
<1>1. CASE insert_mapper
  <2>1. UNCHANGED <<exe, symtab, ep, answer, fault>> /\ elf_nextsym /\ pc = "walk"
    BY <1>1 DEF insert_mapper, At
  <2>2. /\ mapper'.blk \in Nat \ {0} /\ mapper'.cap \in Nat /\ mapper'.cap >= 1
        /\ mapper'.items \in Seq(Item)
        /\ mapper' = [blk |-> mapper'.blk, cap |-> mapper'.cap, items |-> mapper'.items]
        /\ Len(mapper'.items) <= mapper'.cap
        /\ next' \in Nat \ {0} /\ heap' \subseteq 1 .. next' - 1 /\ ep \subseteq heap' /\ HeapOwned'
    BY <1>0, <1>1, InsertStep
  <2>3. mapper' \in [blk : Nat, cap : Nat, items : Seq(Item)]
    BY <2>2
  <2>4. sym <= Len(symtab) /\ sym \in Nat \ {0} /\ Len(symtab) \in Nat
    BY <1>0, <2>1 DEF Stage, SymbolTypeOK
  <2>5. sym' \in 1 .. Len(symtab) + 1 /\ pc' \in {"walk", "close"} /\ (pc' = "walk" => sym' <= Len(symtab))
    BY <2>1, <2>4 DEF elf_nextsym
  <2>6. SymbolTypeOK'
    BY <1>0, <2>1, <2>2, <2>3, <2>5 DEF SymbolTypeOK
  <2>7. Stage'
    BY <1>0, <2>1, <2>2, <2>5 DEF Stage
  <2> QED
    BY <2>2, <2>6, <2>7
<1>2. CASE elf_close
  <2>1. /\ heap' = heap \ ep /\ ep' = {} /\ pc' = "ready"
        /\ UNCHANGED <<exe, symtab, next, mapper, sym, answer, fault>>
    BY <1>2 DEF elf_close
  <2>2. SymbolTypeOK'
    BY <1>0, <2>1 DEF SymbolTypeOK
  <2>3. NameBlocks' = NameBlocks
    BY <2>1 DEF NameBlocks
  <2>4. HeapOwned'
    BY <1>0, <1>2, <2>1, <2>3 DEF HeapOwned, Reachable, Lost, GaveUp, elf_close, At
  <2>5. Stage'
    BY <1>0, <2>1 DEF Stage
  <2> QED
    BY <2>2, <2>4, <2>5
<1>3. CASE Quiet
  BY <1>0, <1>3, QuietStep
<1>4. CASE init_mapper
  BY <1>0, <1>4, InitMapperStep
<1>5. CASE elf_open
  BY <1>0, <1>5, OpenStep
<1>6. CASE insert_mapper_fails
  BY <1>0, <1>6, GiveUpStep
<1> QED
  BY <1>1, <1>2, <1>3, <1>4, <1>5, <1>6 DEF Next, Load, Halted, Quiet

(* The sized symbols before a place are finitely many. *)
LEMMA BeforeIs ==
    ASSUME NEW k \in Nat
    PROVE  IsFiniteSet(SizedBefore(k)) /\ Cardinality(SizedBefore(k)) \in Nat
<1>1. IsFiniteSet(1 .. k - 1)
  BY FS_Interval
<1>2. SizedBefore(k) \subseteq 1 .. k - 1
  BY DEF SizedBefore
<1> QED
  BY <1>1, <1>2, FS_Subset, FS_CardinalityType

(* Passing a symbol adds one to the sized symbols passed if it has a size. *)
LEMMA BeforeNext ==
    ASSUME NEW k \in Nat \ {0}
    PROVE  Cardinality(SizedBefore(k + 1)) = Cardinality(SizedBefore(k)) + (IF Sized(symtab[k]) THEN 1 ELSE 0)
<1>1. (1 .. (k + 1) - 1) = (1 .. k - 1) \cup {k}
  OBVIOUS
<1>2. IsFiniteSet(SizedBefore(k)) /\ Cardinality(SizedBefore(k)) \in Nat
  BY BeforeIs
<1>3. CASE Sized(symtab[k])
  <2>1. SizedBefore(k + 1) = SizedBefore(k) \cup {k}
    BY <1>1, <1>3 DEF SizedBefore
  <2>2. k \notin SizedBefore(k)
    BY DEF SizedBefore
  <2>3. Cardinality(SizedBefore(k) \cup {k}) = Cardinality(SizedBefore(k)) + 1
    BY <1>2, <2>2, FS_AddElement
  <2> QED
    BY <1>3, <2>1, <2>3
<1>4. CASE ~Sized(symtab[k])
  <2>1. SizedBefore(k + 1) = SizedBefore(k)
    BY <1>1, <1>4 DEF SizedBefore
  <2> QED
    BY <1>2, <1>4, <2>1
<1> QED
  BY <1>3, <1>4

(* Which symbols the items came from, step by step. *)
LEMMA FollowStep ==
    ASSUME IInv, [Next]_vars
    PROVE  Follows'
<1> SUFFICES ASSUME mapper'.blk # 0
             PROVE  /\ Len(mapper'.items) = Cardinality(SizedBefore(sym)')
                    /\ \E g \in [DOMAIN mapper'.items -> 1 .. sym' - 1] : From(g)'
  BY DEF Follows
<1>0. SymbolTypeOK /\ HeapOwned /\ Stage /\ Follows
  BY DEF IInv
<1>s. sym \in Nat \ {0} /\ Len(symtab) \in Nat
  BY <1>0 DEF SymbolTypeOK
<1>m. Len(mapper.items) \in Nat /\ DOMAIN mapper.items = 1 .. Len(mapper.items)
  BY <1>0, MapIs
<1>1. CASE UNCHANGED <<symtab, mapper, sym>>
  <2>1. PICK g \in [DOMAIN mapper.items -> 1 .. sym - 1] : From(g)
    BY <1>0, <1>1 DEF Follows
  <2>2. From(g)'
    BY <1>1, <2>1 DEF From, ItemIs, Place, SizedBefore
  <2>3. Len(mapper.items) = Cardinality(SizedBefore(sym)) /\ SizedBefore(sym)' = SizedBefore(sym)
    BY <1>0, <1>1 DEF Follows, SizedBefore
  <2> QED
    BY <1>1, <2>2, <2>3
<1>2. CASE SkipSymbol
  <2>1. UNCHANGED <<symtab, mapper>> /\ sym' = sym + 1 /\ ~Sized(symtab[sym])
    BY <1>2 DEF SkipSymbol, elf_nextsym
  <2>2. PICK g \in [DOMAIN mapper.items -> 1 .. sym - 1] : From(g)
    BY <1>0, <2>1 DEF Follows
  <2>3. g \in [DOMAIN mapper'.items -> 1 .. sym' - 1]
    BY <1>s, <2>1
  <2>4. \A k \in 1 .. sym' - 1 : k \in 1 .. sym - 1 \/ k = sym
    BY <1>s, <2>1
  <2>5. From(g)'
    BY <2>1, <2>2, <2>4 DEF From, ItemIs, Place, SizedBefore
  <2>6. Cardinality(SizedBefore(sym)') = Cardinality(SizedBefore(sym))
    <3>1. SizedBefore(sym)' = SizedBefore(sym + 1)
      BY <2>1 DEF SizedBefore
    <3> QED
      BY <1>s, <2>1, <3>1, BeforeNext, BeforeIs
  <2> QED
    BY <1>0, <2>1, <2>3, <2>5, <2>6 DEF Follows
<1>3. CASE insert_mapper
  <2>1. UNCHANGED symtab /\ sym' = sym + 1 /\ Sized(symtab[sym]) /\ mapper.blk # 0
    BY <1>3 DEF insert_mapper, elf_nextsym
  <2>2. PICK g \in [DOMAIN mapper.items -> 1 .. sym - 1] : From(g)
    BY <1>0, <2>1 DEF Follows
  <2>3. PICK cur \in Nat : cur = Len(mapper.items) /\ cur = Cardinality(SizedBefore(sym))
    BY <1>0, <1>m, <2>1 DEF Follows
  <2>4. /\ mapper'.items \in Seq(Item) /\ Len(mapper'.items) = cur + 1
        /\ \A n \in 1 .. cur : /\ mapper'.items[n].func = mapper.items[n].func
                               /\ mapper'.items[n].ip = mapper.items[n].ip
                               /\ mapper'.items[n].size = mapper.items[n].size
        /\ mapper'.items[cur + 1].func = symtab[sym].name
        /\ mapper'.items[cur + 1].ip = symtab[sym].value
        /\ mapper'.items[cur + 1].size = symtab[sym].size
    BY <1>0, <1>3, <2>3, InsertStep
  <2>5. DOMAIN mapper'.items = 1 .. cur + 1 /\ DOMAIN mapper.items = 1 .. cur
    BY <1>m, <2>3, <2>4
  <2>6. Cardinality(SizedBefore(sym)') = cur + 1
    <3>1. SizedBefore(sym)' = SizedBefore(sym + 1)
      BY <2>1 DEF SizedBefore
    <3> QED
      BY <1>s, <2>1, <2>3, <3>1, BeforeNext
  <2>7. PICK h : h = [n \in 1 .. cur + 1 |-> IF n <= cur THEN g[n] ELSE sym]
    OBVIOUS
  <2>8. /\ \A n \in 1 .. cur : n \in 1 .. cur + 1 /\ h[n] = g[n] /\ g[n] \in 1 .. sym - 1
        /\ h[cur + 1] = sym /\ \A n \in 1 .. cur + 1 : n \in 1 .. cur \/ n = cur + 1
    BY <2>2, <2>5, <2>7
  <2>9. h \in [DOMAIN mapper'.items -> 1 .. sym' - 1]
    BY <1>s, <2>1, <2>5, <2>7, <2>8
  <2>10. \A k : Place(k)' = Place(k) /\ Place(sym) = cur + 1
    BY <2>1, <2>3 DEF Place, SizedBefore
  <2>11. \A m, n \in 1 .. cur + 1 : m < n => h[m] < h[n]
    <3> SUFFICES ASSUME NEW m \in 1 .. cur + 1, NEW n \in 1 .. cur + 1, m < n PROVE h[m] < h[n]
      OBVIOUS
    <3>1. m \in 1 .. cur
      BY <2>3
    <3>2. CASE n \in 1 .. cur
      BY <2>2, <2>5, <2>8, <3>1, <3>2 DEF From
    <3>3. CASE n = cur + 1
      BY <1>s, <2>8, <3>1, <3>3
    <3> QED
      BY <2>8, <3>2, <3>3
  <2>12. ASSUME NEW n \in 1 .. cur + 1
         PROVE  Sized(symtab'[h[n]]) /\ Place(h[n])' = n /\ ItemIs(n, h[n])'
    <3>1. CASE n \in 1 .. cur
      <4>1. Sized(symtab[g[n]]) /\ Place(g[n]) = n /\ ItemIs(n, g[n])
        BY <2>2, <2>5, <3>1 DEF From
      <4> QED
        BY <2>1, <2>4, <2>8, <2>10, <3>1, <4>1 DEF ItemIs
    <3>2. CASE n = cur + 1
      BY <2>1, <2>4, <2>8, <2>10, <3>2 DEF ItemIs
    <3> QED
      BY <2>8, <3>1, <3>2
  <2>13. ASSUME NEW k \in 1 .. sym' - 1, Sized(symtab'[k]) PROVE \E n \in 1 .. cur + 1 : h[n] = k
    <3>1. k \in 1 .. sym - 1 \/ k = sym
      BY <1>s, <2>1
    <3>2. CASE k \in 1 .. sym - 1
      <4>1. PICK n \in 1 .. cur : g[n] = k
        BY <2>1, <2>2, <2>5, <2>13, <3>2 DEF From
      <4> QED
        BY <2>8, <4>1
    <3>3. CASE k = sym
      <4>1. cur + 1 \in 1 .. cur + 1
        OBVIOUS
      <4> QED
        BY <2>8, <3>3, <4>1
    <3> QED
      BY <3>1, <3>2, <3>3
  <2>14. From(h)'
    BY <2>5, <2>11, <2>12, <2>13 DEF From
  <2> QED
    BY <2>4, <2>6, <2>9, <2>14
<1>4. CASE init_mapper \/ elf_open
  <2>1. sym = 1 /\ sym' = 1 /\ (mapper'.items = <<>>)
    <3>1. CASE init_mapper
      BY <1>0, <3>1 DEF init_mapper, At, Stage
    <3>2. CASE elf_open
      <4>1. pc = "open" /\ UNCHANGED <<mapper, sym>>
        BY <3>2 DEF elf_open, At
      <4>2. sym = 1 /\ mapper.blk # 0
        BY <1>0, <4>1 DEF Stage
      <4>3. Len(mapper.items) = 0
        <5>1. SizedBefore(1) = {}
          BY DEF SizedBefore
        <5> QED
          BY <1>0, <4>2, <5>1, FS_EmptySet DEF Follows
      <4>4. mapper.items \in Seq(Item)
        BY <1>0, MapIs
      <4> QED
        BY <4>1, <4>2, <4>3, <4>4
    <3> QED
      BY <1>4, <3>1, <3>2
  <2>2. SizedBefore(sym)' = {}
    BY <2>1 DEF SizedBefore
  <2>3. DOMAIN mapper'.items = {} /\ Len(mapper'.items) = 0 /\ 1 .. sym' - 1 = {}
    BY <2>1
  <2>4. PICK g : g \in [{} -> 1 .. sym' - 1]
    <3>1. [n \in {} |-> 0] \in [{} -> 1 .. sym' - 1]
      OBVIOUS
    <3> QED
      BY <3>1
  <2>5. From(g)'
    BY <2>3 DEF From
  <2> QED
    BY <2>2, <2>3, <2>4, <2>5, FS_EmptySet
<1> QED
  BY <1>1, <1>2, <1>3, <1>4
  DEF Next, Load, Halted, vars, elf_open_oops, insert_mapper_fails, insert_mapper_oops, elf_close,
      get_func_name, get_func_name_oops, Oops

(* The theorems. *)
LEMMA InitIInv == Init => IInv
<1> SUFFICES ASSUME Init PROVE IInv
  OBVIOUS
<1>1. mapper.blk = 0 /\ mapper.cap = 0 /\ mapper.items = <<>> /\ symtab = <<>> /\ sym = 1
  BY DEF Init
<1>2. <<>> \in Seq(Item) /\ <<>> \in Seq(Symbol) /\ Len(<<>>) = 0
  OBVIOUS
<1>3. SymbolTypeOK
  BY <1>1, <1>2 DEF Init, SymbolTypeOK
<1>4. NameBlocks = {}
  BY <1>1 DEF NameBlocks
<1>5. HeapOwned
  BY <1>1, <1>4 DEF Init, HeapOwned, Reachable, Lost
<1>6. Stage
  BY <1>1 DEF Init, Stage
<1> QED
  BY <1>1, <1>3, <1>5, <1>6 DEF IInv, Follows

(* How far the first request is, which blocks it owns and which symbols the items came   *)
(* from: the inductive invariant of parse() and the map it fills.                        *)
THEOREM SymbolInvariant == Spec => []IInv
<1>1. IInv /\ [Next]_vars => IInv'
  BY HeapStep, FollowStep DEF IInv
<1> QED
  BY <1>1, InitIInv, PTL DEF Spec

(* The table, the map and its capacity have their types: cur never exceeds cap, and the  *)
(* walk never leaves the table.                                                          *)
THEOREM SymbolTypeCorrect == Spec => []SymbolTypeOK
<1>1. IInv => SymbolTypeOK
  BY DEF IInv
<1> QED
  BY <1>1, SymbolInvariant, PTL

(* However large the table and whatever capacity the array starts with, growing it       *)
(* releases no block that is in use and loses none.                                      *)
THEOREM HeapOwnedHolds == Spec => []HeapOwned
<1>1. IInv => HeapOwned
  BY DEF IInv
<1> QED
  BY <1>1, SymbolInvariant, PTL

(* The map has the sized symbols that the walk has passed, each in its place.            *)
THEOREM MapIsPrefixHolds == Spec => []MapIsPrefix
<1>1. IInv => MapIsPrefix
  <2> SUFFICES ASSUME IInv, mapper.blk # 0, NEW k \in SizedBefore(sym)
               PROVE  ItemIs(Place(k), k)
    BY DEF IInv, Follows, MapIsPrefix, ItemIs
  <2>1. PICK g \in [DOMAIN mapper.items -> 1 .. sym - 1] : From(g)
    BY DEF IInv, Follows
  <2>2. k \in 1 .. sym - 1 /\ Sized(symtab[k])
    BY DEF SizedBefore
  <2>3. PICK n \in DOMAIN mapper.items : g[n] = k
    BY <2>1, <2>2 DEF From
  <2>4. Place(k) = n /\ ItemIs(n, k)
    BY <2>1, <2>3 DEF From
  <2> QED
    BY <2>4
<1> QED
  BY <1>1, SymbolInvariant, PTL

(* What get_func_name answers when the whole table was read. *)
LEMMA AnswerIs ==
    ASSUME IInv, NEW ip \in Ips, get_func_name(ip), sym > Len(symtab)
    PROVE  answer' = IF Covering(ip) = {} THEN -1
                     ELSE symtab[CHOOSE n \in Covering(ip) : \A m \in Covering(ip) : n <= m].name
<1>0. SymbolTypeOK /\ mapper.blk # 0 /\ ip \in Nat
  BY SymbolMapAssumption DEF IInv, get_func_name
<1>1. PICK g \in [DOMAIN mapper.items -> 1 .. sym - 1] : From(g)
  BY <1>0 DEF IInv, Follows
<1>2. symtab \in Seq(Symbol) /\ Len(symtab) \in Nat /\ sym = Len(symtab) + 1 /\ 1 .. sym - 1 = 1 .. Len(symtab)
  BY <1>0 DEF SymbolTypeOK
<1>3. DOMAIN mapper.items = 1 .. Len(mapper.items) /\ Len(mapper.items) \in Nat
  BY <1>0, MapIs
<1>4. ASSUME NEW n \in DOMAIN mapper.items PROVE n \in Hits(ip) <=> g[n] \in Covering(ip)
  <2>1. g[n] \in 1 .. Len(symtab) /\ Sized(symtab[g[n]]) /\ ItemIs(n, g[n])
    BY <1>1, <1>2 DEF From
  <2>2. PICK k \in 1 .. Len(symtab) : k = g[n]
    BY <2>1
  <2>3. symtab[k].value \in Nat /\ symtab[k].size \in Nat
    BY <1>0, SymbolIs
  <2>4. Covers(n, ip) <=> ip \in symtab[k].value .. symtab[k].value + symtab[k].size - 1
    BY <1>0, <2>1, <2>2, <2>3 DEF Covers, ItemIs
  <2>5. k \in DOMAIN symtab
    BY <1>2
  <2> QED
    BY <2>1, <2>2, <2>4, <2>5 DEF Hits, Covering
<1>5. CASE Covering(ip) = {}
  <2>1. Hits(ip) = {}
    BY <1>4, <1>5 DEF Hits
  <2> QED
    BY <1>5, <2>1 DEF get_func_name
<1>6. CASE Covering(ip) # {}
  <2>1. Covering(ip) \subseteq 1 .. Len(symtab) /\ Covering(ip) \subseteq Nat
    BY <1>2 DEF Covering
  <2>2. \E k \in Covering(ip) : \A m \in Covering(ip) : k <= m
    BY <1>6, <2>1, LeastNatural
  <2>3. PICK k \in Covering(ip) : /\ k = CHOOSE n \in Covering(ip) : \A m \in Covering(ip) : n <= m
                                  /\ \A m \in Covering(ip) : k <= m
    BY <2>2
  <2>4. PICK n \in DOMAIN mapper.items : g[n] = k
    BY <1>1, <1>2, <2>1, <2>3 DEF From, Covering
  <2>5. n \in Hits(ip)
    BY <1>4, <2>3, <2>4
  <2>6. ASSUME NEW m \in Hits(ip) PROVE n <= m
    <3>1. m \in DOMAIN mapper.items /\ g[m] \in Covering(ip)
      BY <1>4 DEF Hits
    <3>2. k <= g[m] /\ g[m] \in Nat /\ k \in Nat
      BY <2>1, <2>3, <3>1
    <3>3. ~(m < n)
      BY <1>1, <2>4, <3>1, <3>2 DEF From
    <3> QED
      BY <1>3, <3>1, <3>3
  <2>7. \A m \in Hits(ip) : m \in Nat
    BY <1>3 DEF Hits
  <2>8. n = CHOOSE h \in Hits(ip) : \A m \in Hits(ip) : h <= m
    <3>1. \A h \in Hits(ip) : (\A m \in Hits(ip) : h <= m) => h = n
      BY <2>5, <2>6, <2>7
    <3>2. PICK h \in Hits(ip) : /\ h = CHOOSE j \in Hits(ip) : \A m \in Hits(ip) : j <= m
                                /\ \A m \in Hits(ip) : h <= m
      BY <2>5, <2>6
    <3> QED
      BY <3>1, <3>2
  <2>9. answer' = mapper.items[n].func
    BY <2>5, <2>8 DEF get_func_name
  <2>10. mapper.items[n].func = symtab[k].name
    BY <1>1, <2>4 DEF From, ItemIs
  <2> QED
    BY <1>6, <2>3, <2>9, <2>10
<1> QED
  BY <1>5, <1>6

(* A request is attributed to the first sized symbol of the table that covers its        *)
(* instruction pointer, for every table: get_func_name searches an array that was grown  *)
(* and copied any number of times.                                                       *)
THEOREM ResolvesHolds == Spec => Resolves
<1>1. IInv /\ [Next]_vars =>
         [\A ip \in Ips : (get_func_name(ip) /\ sym > Len(symtab)) =>
             answer' = IF Covering(ip) = {} THEN -1
                       ELSE symtab[CHOOSE n \in Covering(ip) : \A m \in Covering(ip) : n <= m].name]_vars
  BY AnswerIs
<1> QED
  BY <1>1, SymbolInvariant, PTL DEF Spec, Resolves

(***************************************************************************)
(* Both readers.  The lister has printed the table up to where it is, the  *)
(* kernel walks the same table, and without an array it meets no symbol    *)
(* that has a size.                                                        *)
(***************************************************************************)
ListerInv ==
    /\ printed \in Seq(Symbol) /\ at = Len(printed) + 1
    /\ lister \in {"open", "list", "close", "done", "exit", "crash"}
    /\ lister = "open" => printed = <<>>
    /\ lister \in {"list", "close", "done"} =>
          /\ HasFirstsym(exe) /\ Len(printed) <= Len(FindSymtab(exe))
          /\ \A n \in DOMAIN printed : printed[n] = FindSymtab(exe)[n]
    /\ lister = "list" => Len(printed) < Len(FindSymtab(exe))
    /\ lister \in {"close", "done"} => Len(printed) = Len(FindSymtab(exe))

KernelInv ==
    /\ symtab = <<>> \/ symtab = FindSymtab(exe)
    /\ mapper.blk = 0 => SizedBefore(sym) = {}

BothInv == IInv /\ KernelInv /\ ListerInv

(* The table of an executable that has a first symbol. *)
LEMMA ListedTable ==
    ASSUME NEW f \in Executables, HasFirstsym(f)
    PROVE  FindSymtab(f) \in Seq(Symbol) /\ Len(FindSymtab(f)) \in Nat \ {0}
<1>1. FindSymtab(f) \in Seq(Symbol) /\ FindSymtab(f) # <<>>
  BY TableType DEF HasFirstsym
<1> QED
  BY <1>1

(* The kernel's steps leave the lister alone and keep to the table. *)
LEMMA KernelStep ==
    ASSUME IInv, KernelInv, [Next]_vars
    PROVE  KernelInv'
<1>1. SymbolTypeOK /\ sym \in Nat
  BY DEF IInv, SymbolTypeOK
<1>2. CASE init_mapper
  <2>1. sym' = 1 /\ symtab' = <<>>
    BY <1>2 DEF init_mapper, At, IInv, Stage
  <2> QED
    BY <2>1 DEF KernelInv, SizedBefore
<1>3. CASE elf_open
  <2>1. sym' = 1 /\ exe' = exe /\ (symtab' = symtab \/ symtab' = FindSymtab(exe))
    BY <1>3 DEF elf_open, At, IInv, Stage
  <2>2. SizedBefore(sym)' = {}
    BY <2>1 DEF SizedBefore
  <2> QED
    BY <2>1, <2>2 DEF KernelInv
<1>4. CASE SkipSymbol
  <2>1. sym' = sym + 1 /\ UNCHANGED <<exe, symtab, mapper>> /\ ~Sized(symtab[sym])
    BY <1>4 DEF SkipSymbol, elf_nextsym
  <2>2. ASSUME NEW m \in 1 .. sym' - 1, Sized(symtab[m]) PROVE m \in SizedBefore(sym)
    BY <1>1, <2>1, <2>2 DEF SizedBefore
  <2> QED
    BY <2>1, <2>2 DEF KernelInv, SizedBefore
<1>5. CASE insert_mapper
  <2>1. UNCHANGED <<exe, symtab>> /\ mapper.blk # 0
    BY <1>5 DEF insert_mapper
  <2>2. mapper'.blk # 0
    BY <1>1, <1>5, <2>1 DEF insert_mapper, InsertGrow, InsertRoom, SymbolTypeOK
  <2> QED
    BY <2>1, <2>2 DEF KernelInv
<1>6. CASE UNCHANGED <<exe, symtab, mapper, sym>>
  BY <1>6 DEF KernelInv, SizedBefore
<1>7. (insert_mapper_fails \/ insert_mapper_oops \/ elf_open_oops \/ elf_close \/ get_func_name_oops \/ Halted
          \/ (\E ip \in Ips : get_func_name(ip)) \/ UNCHANGED vars) => UNCHANGED <<exe, symtab, mapper, sym>>
  BY DEF insert_mapper_fails, insert_mapper_oops, elf_open_oops, elf_close, get_func_name_oops, Halted,
         get_func_name, Oops, vars
<1> QED
  BY <1>2, <1>3, <1>4, <1>5, <1>6, <1>7 DEF Next, Load

(* A step of the lister. *)
LEMMA ListerStep ==
    ASSUME exe \in Executables, ListerInv, Lister!Next
    PROVE  ListerInv' /\ exe' = exe
<1>0. exe' = exe
  BY DEF Lister!Next, Lister!elf_open, Lister!elf_open_exits, Lister!list_symbol, Lister!elf_close
<1>1. Lister!HasFirstsym(exe) = HasFirstsym(exe) /\ Lister!FindSymtab(exe) = FindSymtab(exe)
  BY DEF Lister!HasFirstsym, HasFirstsym, Lister!FindSymtab, FindSymtab, Lister!Statics, Statics
<1>2. CASE Lister!elf_open
  <2>1. /\ UNCHANGED <<exe, at, printed>> /\ printed = <<>> /\ lister' \in {"list", "crash"}
        /\ lister' = "list" => HasFirstsym(exe)
    BY <1>1, <1>2 DEF Lister!elf_open, ListerInv
  <2> QED
    BY <2>1, ListedTable DEF ListerInv
<1>3. CASE Lister!elf_open_exits
  BY <1>3 DEF Lister!elf_open_exits, ListerInv
<1>4. CASE Lister!list_symbol
  <2> DEFINE t == FindSymtab(exe)
             l == Len(printed)
  <2>1. /\ HasFirstsym(exe) /\ l < Len(t) /\ l \in Nat /\ at = l + 1
        /\ \A n \in DOMAIN printed : printed[n] = t[n]
    BY <1>4 DEF Lister!list_symbol, ListerInv
  <2>2. t \in Seq(Symbol) /\ Len(t) \in Nat
    BY <2>1, ListedTable
  <2>3. t[l + 1] \in Symbol /\ printed \in Seq(Symbol)
    BY <2>1, <2>2 DEF ListerInv
  <2>4. /\ printed' = Append(printed, t[l + 1]) /\ at' = l + 2
        /\ lister' = IF l + 1 < Len(t) THEN "list" ELSE "close"
    BY <1>1, <1>4, <2>1 DEF Lister!list_symbol
  <2> HIDE DEF t
  <2>5. /\ printed' \in Seq(Symbol) /\ Len(printed') = l + 1
        /\ \A n \in 1 .. l + 1 : printed'[n] = t[n]
    BY <2>1, <2>3, <2>4
  <2>6. DOMAIN printed' = 1 .. l + 1
    BY <2>5
  <2> QED
    BY <1>0, <2>1, <2>2, <2>4, <2>5, <2>6 DEF ListerInv, t
<1>5. CASE Lister!elf_close
  BY <1>5 DEF Lister!elf_close, ListerInv
<1> QED
  BY <1>0, <1>2, <1>3, <1>4, <1>5 DEF Lister!Next

(* What both readers keep to. *)
THEOREM BothInvariant == BothSpec => []BothInv
<1>1. BothInit => BothInv
  <2> SUFFICES ASSUME BothInit PROVE BothInv
    OBVIOUS
  <2>1. IInv
    BY InitIInv DEF BothInit
  <2>2. KernelInv
    BY DEF BothInit, Init, KernelInv, SizedBefore
  <2>3. ListerInv
    BY DEF BothInit, Lister!Init, ListerInv
  <2> QED
    BY <2>1, <2>2, <2>3 DEF BothInv
<1>2. BothInv /\ [BothNext]_<<vars, lvars>> => BothInv'
  <2> SUFFICES ASSUME BothInv, [BothNext]_<<vars, lvars>> PROVE BothInv'
    OBVIOUS
  <2>1. CASE [Next]_vars /\ UNCHANGED lvars
    <3>1. IInv'
      BY <2>1, HeapStep, FollowStep DEF IInv, BothInv
    <3>2. KernelInv'
      BY <2>1, KernelStep DEF BothInv
    <3>3. exe' = exe
      BY <2>1 DEF Next, Load, vars, init_mapper, elf_open, SkipSymbol, insert_mapper, insert_mapper_fails,
                  insert_mapper_oops, elf_open_oops, elf_close, get_func_name_oops, Halted, get_func_name, Oops
    <3>4. ListerInv'
      BY <2>1, <3>3 DEF BothInv, ListerInv, lvars
    <3> QED
      BY <3>1, <3>2, <3>4 DEF BothInv
  <2>2. CASE Lister!Next /\ UNCHANGED <<symtab, pc, heap, next, mapper, ep, sym, answer, fault>>
    <3>1. ListerInv' /\ exe' = exe
      BY <2>2, ListerStep DEF BothInv, IInv, SymbolTypeOK
    <3>2. UNCHANGED vars
      BY <2>2, <3>1 DEF vars
    <3>3. IInv' /\ KernelInv'
      BY <3>2, HeapStep, FollowStep, KernelStep DEF BothInv, IInv
    <3> QED
      BY <3>1, <3>3 DEF BothInv
  <2> QED
    BY <2>1, <2>2 DEF BothNext, vars, lvars
<1> QED
  BY <1>1, <1>2, PTL DEF BothSpec

(* The lister of elf.c and the kernel's parse() agree on every executable: they take the *)
(* same table, and what the one prints with a size is what the other has in its map, in  *)
(* the same order, whatever capacity the map started with.                               *)
THEOREM ListShowsMapHolds == BothSpec => []ListShowsMap
<1>1. BothInv => ListShowsMap
  <2> SUFFICES ASSUME BothInv, lister = "done"
               PROVE  /\ LastStatic(printed)
                      /\ (sym > 1 /\ sym > Len(symtab)) =>
                            /\ Len(mapper.items) = Cardinality(SizedLines(Len(printed)))
                            /\ \A n \in SizedLines(Len(printed)) :
                                  LET item == mapper.items[Cardinality(SizedLines(n))]
                                  IN  printed[n] = [name |-> item.func, value |-> item.ip, size |-> item.size]
    BY DEF ListShowsMap
  <2>0. IInv /\ SymbolTypeOK /\ exe \in Executables
    BY DEF BothInv, IInv, SymbolTypeOK
  <2>1. /\ HasFirstsym(exe) /\ Len(printed) = Len(FindSymtab(exe)) /\ printed \in Seq(Symbol)
        /\ \A n \in DOMAIN printed : printed[n] = FindSymtab(exe)[n]
    BY DEF BothInv, ListerInv
  <2>2. printed = FindSymtab(exe)
    BY <2>0, <2>1, ListedTable, SeqEqual
  <2>3. LastStatic(printed)
    <3>1. exe.secs \in Seq(Section) /\ Statics(exe) \subseteq 1 .. Len(exe.secs) /\ Len(exe.secs) \in Nat
      BY <2>0, ExecutableAssumption DEF Statics
    <3>2. \E n \in Statics(exe) : \A m \in Statics(exe) : n >= m
      BY <2>1, <3>1, Greatest DEF HasFirstsym
    <3>3. PICK n \in Statics(exe) : /\ n = CHOOSE h \in Statics(exe) : \A m \in Statics(exe) : m <= h
                                    /\ \A m \in Statics(exe) : m <= n
      <4>1. \E n \in Statics(exe) : \A m \in Statics(exe) : m <= n
        BY <3>1, <3>2
      <4> QED
        BY <4>1
    <3>4. printed = exe.secs[n].syms
      BY <2>2, <3>3 DEF FindSymtab
    <3>5. n \in DOMAIN exe.secs /\ exe.secs[n] \in Section /\ exe.secs[n].type = "symtab"
      <4>1. n \in DOMAIN exe.secs /\ exe.secs[n].type = "symtab"
        BY <3>3 DEF Statics
      <4> QED
        BY <3>1, <4>1
    <3>6. exe.secs[n] = [type |-> "symtab", syms |-> printed]
      BY <3>4, <3>5 DEF Section
    <3>7. ASSUME NEW m \in n + 1 .. Len(exe.secs) PROVE exe.secs[m].type = "dynsym"
      <4>1. m \in DOMAIN exe.secs /\ exe.secs[m] \in Section
        BY <3>1, <3>3
      <4>2. m \notin Statics(exe)
        BY <3>1, <3>3
      <4> QED
        BY <4>1, <4>2 DEF Statics, Section
    <3> QED
      BY <3>5, <3>6, <3>7 DEF LastStatic
  <2>4. ASSUME sym > 1, sym > Len(symtab)
        PROVE  /\ Len(mapper.items) = Cardinality(SizedLines(Len(printed)))
               /\ \A n \in SizedLines(Len(printed)) :
                     LET item == mapper.items[Cardinality(SizedLines(n))]
                     IN  printed[n] = [name |-> item.func, value |-> item.ip, size |-> item.size]
    <3>1. symtab \in Seq(Symbol) /\ Len(symtab) \in Nat /\ sym = Len(symtab) + 1 /\ symtab # <<>>
      BY <2>0, <2>4 DEF SymbolTypeOK
    <3>2. symtab = printed
      BY <2>2, <3>1 DEF BothInv, KernelInv
    <3>3. \A n \in Nat : SizedLines(n) = SizedBefore(n + 1)
      BY <3>2 DEF SizedLines, SizedBefore
    <3>4. SizedLines(Len(printed)) = SizedBefore(sym)
      BY <3>1, <3>2, <3>3
    <3>5. CASE mapper.blk = 0
      <4>1. SizedBefore(sym) = {} /\ mapper.items = <<>>
        BY <2>0, <3>5 DEF BothInv, KernelInv, IInv, Stage
      <4>2. Cardinality({}) = 0
        BY FS_EmptySet
      <4> QED
        BY <3>4, <4>1, <4>2
    <3>6. CASE mapper.blk # 0
      <4>1. Len(mapper.items) = Cardinality(SizedBefore(sym))
        BY <2>0, <3>6 DEF IInv, Follows
      <4>2. PICK g \in [DOMAIN mapper.items -> 1 .. sym - 1] : From(g)
        BY <2>0, <3>6 DEF IInv, Follows
      <4>3. ASSUME NEW n \in SizedBefore(sym)
            PROVE  LET item == mapper.items[Cardinality(SizedLines(n))]
                   IN  printed[n] = [name |-> item.func, value |-> item.ip, size |-> item.size]
        <5>1. n \in 1 .. Len(symtab) /\ n \in Nat \ {0} /\ Sized(symtab[n]) /\ n \in 1 .. sym - 1
          BY <3>1 DEF SizedBefore
        <5>2. Cardinality(SizedBefore(n + 1)) = Place(n)
          BY <5>1, BeforeNext DEF Place
        <5>3. PICK m \in DOMAIN mapper.items : g[m] = n
          BY <4>2, <5>1 DEF From
        <5>4. Place(n) = m /\ ItemIs(m, n)
          BY <4>2, <5>3 DEF From
        <5>5. symtab[n] \in Symbol
          BY <3>1, <5>1
        <5>6. Cardinality(SizedLines(n)) = m
          BY <3>3, <5>1, <5>2, <5>4
        <5> QED
          BY <3>2, <5>4, <5>5, <5>6 DEF ItemIs, Symbol
      <4> QED
        BY <3>4, <4>1, <4>3
    <3> QED
      BY <3>5, <3>6
  <2> QED
    BY <2>3, <2>4
<1> QED
  BY <1>1, BothInvariant, PTL
=============================================================================
