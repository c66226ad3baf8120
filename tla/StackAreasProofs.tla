-------------------------- MODULE StackAreasProofs --------------------------
(***************************************************************************)
(* get_stack_areas and the walk of encrypt_stack for every page size, pair *)
(* of addresses and page map: their types, and RangeExact, that the walk   *)
(* is at exactly the bytes of the range if all its pages are present, and  *)
(* at one byte if there is no range.                                       *)
(***************************************************************************)
EXTENDS StackAreas, NumberFacts, SequenceTheorems

(* The pages of the process. *)
Given ==
    pagemap \in [0 .. Pages - 1 -> Entry] /\ OwnFrames(pagemap)

(* While the areas are made, the addresses from top_addr up to tmp_addr have one frame. *)
OneFrame == \A a \in top_addr .. tmp_addr - 1 :
               get_page_frame_number_of_address(a) = get_page_frame_number_of_address(top_addr)

(* The physical cells of area n, and how many areas the walk has been at. *)
CellsOf(n) == {<<areas[n].page_frame, o>> : o \in areas[n].offset .. areas[n].offset + areas[n].len - 1}
Done       == IF pc = "write" THEN i ELSE i - 1

Walked == /\ touched = UNION {CellsOf(n) : n \in 1 .. Done}
          /\ Done <= Len(areas) /\ (pc = "areas" \/ fault # "none" => i = 1)
          /\ pc = "done" => i > Len(areas)
          /\ fault # "none" => pc \in {"areas", "encrypt"}

(* If all pages are present, the areas lie in one frame each and in the range, and those *)
(* that are made have all of it up to where the loop is, if the loop was not left.       *)
Made    == IF pc = "areas" THEN top_addr ELSE End
Cell(a) == <<get_page_frame_number_of_address(a), a % PageSize>>
Within  == \A n \in DOMAIN areas : /\ areas[n].offset + areas[n].len <= PageSize
                                   /\ CellsOf(n) \subseteq Image(rsp, End)
Whole   == fault = "none" /\ pc # "exited" =>
               \A a \in rsp .. Made - 1 : \E n \in DOMAIN areas : Cell(a) \in CellsOf(n)
Exact   == AllPresent => Within /\ Whole

IInv == AreasTypeOK /\ Given /\ (pc = "areas" => OneFrame) /\ Walked /\ Exact

(* Pages and addresses. *)
(* An address of the stack is in one of its pages. *)
LEMMA PageOf ==
    ASSUME NEW a \in Virtual
    PROVE  a \in Nat /\ a \div PageSize \in 0 .. Pages - 1 /\ a % PageSize \in 0 .. PageSize - 1
<1>1. PageSize \in Nat \ {0} /\ Pages \in Nat
  BY AreasAssumption
<1>2. a \in Nat /\ a < PageSize * Pages
  BY <1>1 DEF Virtual
<1>3. a \div PageSize \in Nat /\ a % PageSize \in 0 .. PageSize - 1
      /\ a = (a \div PageSize) * PageSize + (a % PageSize)
  BY <1>1, <1>2, DivisionIs
<1> DEFINE q == a \div PageSize
<1>4. q < Pages
  <2> SUFFICES ASSUME q >= Pages PROVE FALSE
    BY <1>1, <1>3
  <2>1. q * PageSize >= Pages * PageSize
    BY <1>1, <1>3
  <2> QED
    BY <1>1, <1>2, <1>3, <2>1
<1> QED
  BY <1>1, <1>2, <1>3, <1>4

(* Two addresses of one page are as far apart as their offsets. *)
LEMMA SamePage ==
    ASSUME NEW a \in Virtual, NEW b \in Virtual, a \div PageSize = b \div PageSize
    PROVE  (b % PageSize) - (a % PageSize) = b - a
<1>1. PageSize \in Nat \ {0} /\ a \in Nat /\ b \in Nat
  BY PageOf, AreasAssumption
<1>2. /\ a \div PageSize \in Nat /\ a % PageSize \in 0 .. PageSize - 1
      /\ a = (a \div PageSize) * PageSize + (a % PageSize)
  BY <1>1, DivisionIs
<1>3. b % PageSize \in 0 .. PageSize - 1 /\ b = (b \div PageSize) * PageSize + (b % PageSize)
  BY <1>1, DivisionIs
<1>4. PICK x \in Nat : x = (a \div PageSize) * PageSize
  BY <1>1, <1>2
<1> QED
  BY <1>1, <1>2, <1>3, <1>4

(* The areas end above rsp and in the stack, and the loop stays below their end. *)
LEMMA RangeIs ==
    ASSUME AreasTypeOK
    PROVE  /\ rsp \in Nat /\ End \in Nat /\ bottom_addr \in Nat /\ bottom_addr <= End
           /\ top_addr \in Nat /\ tmp_addr \in Nat
           /\ rsp <= top_addr /\ top_addr < tmp_addr /\ tmp_addr <= End
           /\ \A a \in rsp .. End - 1 : a \in Virtual
           /\ top_addr \in Virtual
           /\ tmp_addr >= bottom_addr => tmp_addr = End
<1>1. PageSize * Pages \in Nat
  BY AreasAssumption
<1>2. /\ rsp \in Nat /\ bottom_addr \in Nat /\ rsp <= PageSize * Pages - 1
      /\ bottom_addr <= PageSize * Pages - 1
  BY <1>1 DEF AreasTypeOK, Virtual
<1>3. End \in Nat /\ rsp < End /\ bottom_addr <= End /\ End <= PageSize * Pages
      /\ (End = bottom_addr \/ End = rsp + 1)
  BY <1>1, <1>2 DEF End
<1>4. top_addr \in rsp .. End /\ tmp_addr \in top_addr + 1 .. End
  BY DEF AreasTypeOK
<1>5. /\ top_addr \in Nat /\ tmp_addr \in Nat
      /\ rsp <= top_addr /\ top_addr < tmp_addr /\ tmp_addr <= End
  BY <1>2, <1>3, <1>4
<1>6. \A a \in rsp .. End - 1 : a \in Virtual
  BY <1>1, <1>2, <1>3 DEF Virtual
<1>7. top_addr \in rsp .. End - 1
  BY <1>2, <1>3, <1>5
<1>8. tmp_addr >= bottom_addr => tmp_addr = End
  BY <1>2, <1>3, <1>5
<1> QED
  BY <1>2, <1>3, <1>5, <1>6, <1>7, <1>8

(* The area from top_addr up to tmp_addr. *)
(* It is an area. *)
LEMMA AreaType ==
    ASSUME AreasTypeOK, Given
    PROVE  ThisArea \in Area
<1>1. top_addr \in Virtual /\ tmp_addr - top_addr \in Nat \ {0}
  BY RangeIs
<1>2. top_addr \div PageSize \in 0 .. Pages - 1 /\ top_addr % PageSize \in 0 .. PageSize - 1
  BY <1>1, PageOf
<1>3. get_page_frame_number_of_address(top_addr) \in Numbers
  <2>1. pagemap[top_addr \div PageSize] \in Entry
    BY <1>2 DEF Given
  <2> QED
    BY <2>1 DEF Entry, Numbers, get_page_frame_number_of_address
<1> QED
  BY <1>1, <1>2, <1>3 DEF ThisArea, Area

(* It stays in a frame and has the cells of its addresses, if they are all present. *)
LEMMA AreaExact ==
    ASSUME AreasTypeOK, Given, OneFrame, AllPresent
    PROVE  /\ ThisArea.offset + ThisArea.len <= PageSize
           /\ {<<ThisArea.page_frame, o>> : o \in ThisArea.offset .. ThisArea.offset + ThisArea.len - 1}
                 = {Cell(a) : a \in top_addr .. tmp_addr - 1}
<1> DEFINE f == get_page_frame_number_of_address(top_addr)
           t == top_addr % PageSize
<1>0. /\ rsp \in Nat /\ End \in Nat /\ bottom_addr \in Nat /\ bottom_addr <= End /\ top_addr \in Nat /\ tmp_addr \in Nat
      /\ rsp <= top_addr /\ top_addr < tmp_addr /\ tmp_addr <= End
      /\ top_addr \in Virtual /\ \A a \in rsp .. End - 1 : a \in Virtual
  BY RangeIs
<1>1. PageSize \in Nat \ {0} /\ t \in 0 .. PageSize - 1
  BY <1>0, PageOf, AreasAssumption
<1>2. ThisArea.page_frame = f /\ ThisArea.offset = t /\ ThisArea.len = tmp_addr - top_addr
  BY DEF ThisArea
<1> HIDE DEF f, t
<1>3. ASSUME NEW a \in top_addr .. tmp_addr - 1
      PROVE  a % PageSize \in 0 .. PageSize - 1 /\ a % PageSize = t + (a - top_addr) /\ Cell(a) = <<f, a % PageSize>>
  <2>1. a \in rsp .. End - 1 /\ top_addr \in rsp .. End - 1
    BY <1>0
  <2>2. a \in Virtual /\ a \in Nat
    BY <1>0, <2>1
  <2>3. a \div PageSize \in 0 .. Pages - 1 /\ top_addr \div PageSize \in 0 .. Pages - 1
        /\ a % PageSize \in 0 .. PageSize - 1
    BY <1>0, <2>2, PageOf
  <2>4. get_page_frame_number_of_address(a) = f
        /\ pagemap[a \div PageSize].present /\ pagemap[top_addr \div PageSize].present
    BY <2>1 DEF OneFrame, AllPresent, f
  <2>5. a \div PageSize = top_addr \div PageSize
    <3>1. pagemap[a \div PageSize].number = pagemap[top_addr \div PageSize].number
      BY <2>4 DEF get_page_frame_number_of_address, f
    <3>2. DOMAIN pagemap = 0 .. Pages - 1
      BY DEF Given
    <3>3. \A x, y \in 0 .. Pages - 1 : x # y /\ pagemap[x].present /\ pagemap[y].present
                                         => pagemap[x].number # pagemap[y].number
      BY <3>2 DEF Given, OwnFrames
    <3> QED
      BY <2>3, <2>4, <3>1, <3>3
  <2>6. (a % PageSize) - t = a - top_addr
    BY <1>0, <2>2, <2>5, SamePage DEF t
  <2> QED
    BY <1>0, <1>1, <2>2, <2>3, <2>4, <2>6 DEF Cell
<1>4. t + (tmp_addr - top_addr) <= PageSize
  <2>1. tmp_addr - 1 \in top_addr .. tmp_addr - 1
    BY <1>0
  <2>2. (tmp_addr - 1) % PageSize \in 0 .. PageSize - 1
        /\ (tmp_addr - 1) % PageSize = t + ((tmp_addr - 1) - top_addr)
    BY <1>3, <2>1
  <2> QED
    BY <1>0, <1>1, <2>2
<1>5. {<<f, o>> : o \in t .. t + (tmp_addr - top_addr) - 1} = {Cell(a) : a \in top_addr .. tmp_addr - 1}
  <2>1. ASSUME NEW a \in top_addr .. tmp_addr - 1
        PROVE  \E o \in t .. t + (tmp_addr - top_addr) - 1 : Cell(a) = <<f, o>>
    <3>1. t + (a - top_addr) \in t .. t + (tmp_addr - top_addr) - 1
      BY <1>0, <1>1
    <3> QED
      BY <1>3, <3>1
  <2>2. ASSUME NEW o \in t .. t + (tmp_addr - top_addr) - 1
        PROVE  \E a \in top_addr .. tmp_addr - 1 : <<f, o>> = Cell(a)
    <3>1. top_addr + (o - t) \in top_addr .. tmp_addr - 1 /\ t + ((top_addr + (o - t)) - top_addr) = o
      BY <1>0, <1>1
    <3> QED
      BY <1>3, <3>1
  <2> QED
    BY <2>1, <2>2
<1> QED
  BY <1>2, <1>4, <1>5

(* The steps. *)
Loop == SameFrame \/ NextFrame \/ LastArea
Rest == encrypt_read \/ encrypt_write \/ encrypt_area_fails \/ encrypt_stack_done

(* What writing a slot does, within the array and beyond it. *)
LEMMA AppendIs ==
    ASSUME AreasTypeOK, Given, AppendArea
    PROVE  /\ areas' \in Seq(Area) /\ Len(areas) <= Len(areas') /\ Len(areas') <= MaxAreas
           /\ \A n \in 1 .. Len(areas) : areas'[n] = areas[n]
           /\ \A n \in 1 .. Len(areas') : n <= Len(areas) \/ areas'[n] = ThisArea
           /\ fault' \in {fault, "overflow"}
           /\ (fault' # "overflow") => Len(areas') = Len(areas) + 1
<1>1. ThisArea \in Area
  BY AreaType
<1>2. areas \in Seq(Area) /\ Len(areas) \in Nat /\ Len(areas) <= MaxAreas /\ MaxAreas \in Nat
  BY AreasAssumption DEF AreasTypeOK
<1>3. PICK x \in Area : x = ThisArea
  BY <1>1
<1>4. CASE Len(areas) < MaxAreas
  <2>1. areas' = Append(areas, x) /\ fault' = fault
    BY <1>3, <1>4 DEF AppendArea
  <2>2. /\ areas' \in Seq(Area) /\ Len(areas') = Len(areas) + 1
        /\ \A n \in 1 .. Len(areas) : areas'[n] = areas[n]
        /\ areas'[Len(areas) + 1] = x
    BY <1>2, <2>1, AppendProperties
  <2>3. \A n \in 1 .. Len(areas) + 1 : n <= Len(areas) \/ n = Len(areas) + 1
    BY <1>2
  <2> QED
    BY <1>2, <1>3, <1>4, <2>1, <2>2, <2>3
<1>5. CASE ~(Len(areas) < MaxAreas)
  <2>1. areas' = areas /\ fault' = "overflow"
    BY <1>5 DEF AppendArea
  <2> QED
    BY <1>2, <2>1
<1> QED
  BY <1>4, <1>5

(* A pagemap that cannot be read ends the loop, and changes nothing else. *)
LEMMA LeftIs ==
    ASSUME get_page_frame_number_fails
    PROVE  /\ pc = "areas" /\ fault = "none"
           /\ UNCHANGED <<pagemap, rsp, bottom_addr, top_addr, tmp_addr, areas, i, touched, phys, buffer>>
           /\ (pc' = "areas" /\ fault' = "null_file") \/ (pc' = "exited" /\ fault' = "none")
BY DEF get_page_frame_number_fails, InLoop

(* The steps are these, and none moves the range or the pages. *)
LEMMA StepIs ==
    ASSUME [Next]_vars
    PROVE  /\ SameFrame \/ NextFrame \/ LastArea \/ Rest \/ get_page_frame_number_fails \/ UNCHANGED vars
           /\ UNCHANGED <<pagemap, rsp, bottom_addr, End>>
<1>1. SameFrame \/ NextFrame \/ LastArea \/ Rest \/ get_page_frame_number_fails \/ UNCHANGED vars
  BY DEF Next, Walk, Fails, Finished, Rest
<1>2. UNCHANGED <<pagemap, rsp, bottom_addr>>
  BY <1>1 DEF SameFrame, NextFrame, LastArea, Rest, encrypt_read, encrypt_write,
              encrypt_area_fails, encrypt_stack_done, get_page_frame_number_fails, vars
<1> QED
  BY <1>1, <1>2 DEF End

(* Types. *)
LEMMA TypeStep == IInv /\ [Next]_vars => AreasTypeOK' /\ Given'
<1> SUFFICES ASSUME IInv, [Next]_vars PROVE AreasTypeOK' /\ Given'
  OBVIOUS
<1>0. AreasTypeOK /\ Given /\ Walked
  BY DEF IInv
<1>r. /\ rsp \in Nat /\ End \in Nat /\ bottom_addr \in Nat /\ bottom_addr <= End /\ top_addr \in Nat /\ tmp_addr \in Nat
      /\ rsp <= top_addr /\ top_addr < tmp_addr /\ tmp_addr <= End
  BY <1>0, RangeIs
<1>1. Given'
  <2>1. UNCHANGED pagemap
    BY StepIs
  <2> QED
    BY <1>0, <2>1 DEF Given
<1>u. UNCHANGED <<rsp, bottom_addr, End>>
  BY StepIs
<1>2. CASE SameFrame
  <2>1. tmp_addr' = tmp_addr + 1 /\ tmp_addr < bottom_addr
        /\ UNCHANGED <<top_addr, areas, pc, i, phys, buffer, fault>>
    BY <1>2 DEF SameFrame, InLoop
  <2>2. top_addr' \in rsp .. End /\ tmp_addr' \in top_addr' + 1 .. End
    BY <1>r, <2>1
  <2> QED
    BY <1>0, <1>1, <1>u, <2>1, <2>2 DEF AreasTypeOK
<1>3. CASE NextFrame \/ LastArea
  <2>1. AppendArea
    BY <1>3 DEF NextFrame, LastArea
  <2>2. areas' \in Seq(Area) /\ Len(areas') <= MaxAreas /\ fault' \in {"none", "overflow", "null_file"}
    BY <1>0, <2>1, AppendIs DEF AreasTypeOK
  <2>3. top_addr' \in rsp .. End /\ tmp_addr' \in top_addr' + 1 .. End
    <3>1. CASE NextFrame
      BY <1>r, <3>1 DEF NextFrame, InLoop
    <3>2. CASE LastArea
      BY <1>r, <3>2 DEF LastArea
    <3> QED
      BY <1>3, <3>1, <3>2
  <2>4. UNCHANGED <<rsp, bottom_addr, i, phys, buffer>> /\ pc' \in {"areas", "encrypt"}
    BY <1>3 DEF NextFrame, LastArea, InLoop
  <2> QED
    BY <1>0, <1>1, <1>u, <2>2, <2>3, <2>4 DEF AreasTypeOK
<1>4. CASE Rest
  <2>1. UNCHANGED <<rsp, bottom_addr, top_addr, tmp_addr, areas, fault>>
    BY <1>4 DEF Rest, encrypt_read, encrypt_write, encrypt_area_fails, encrypt_stack_done
  <2>2. pc' \in {"areas", "encrypt", "write", "done", "failed", "exited"}
    BY <1>4 DEF Rest, encrypt_read, encrypt_write, encrypt_area_fails, encrypt_stack_done
  <2>i. i \in Nat \ {0} /\ Len(areas) \in Nat /\ MaxAreas \in Nat /\ Len(areas) <= MaxAreas
    BY <1>0, AreasAssumption DEF AreasTypeOK
  <2>3. CASE encrypt_read
    <3>1. i \in DOMAIN areas
      BY <1>0, <2>i, <2>3 DEF encrypt_read, AreasTypeOK
    <3>2. areas[i] \in Area
      BY <1>0, <3>1 DEF AreasTypeOK
    <3>3. areas[i].page_frame \in AllMem
      BY <3>2 DEF Area, AllMem
    <3>4. buffer' \in AllMem /\ UNCHANGED <<i, phys>>
      BY <1>0, <2>3, <3>3 DEF encrypt_read, AreasTypeOK
    <3> QED
      BY <1>0, <1>1, <1>u, <2>1, <2>2, <3>4 DEF AreasTypeOK
  <2>4. CASE encrypt_write
    <3>1. i <= Len(areas)
      BY <1>0, <2>4 DEF encrypt_write, Walked, Done
    <3>2. i + 1 \in 1 .. MaxAreas + 1
      BY <2>i, <3>1
    <3>3. phys' \in [AllMem -> AllMem] /\ buffer' = buffer /\ i' = i + 1
      BY <1>0, <2>4 DEF encrypt_write, AreasTypeOK
    <3> QED
      BY <1>0, <1>1, <1>u, <2>1, <2>2, <3>2, <3>3 DEF AreasTypeOK
  <2>5. CASE encrypt_area_fails \/ encrypt_stack_done
    <3>1. UNCHANGED <<i, phys, buffer>>
      BY <2>5 DEF encrypt_area_fails, encrypt_stack_done
    <3> QED
      BY <1>0, <1>1, <1>u, <2>1, <2>2, <3>1 DEF AreasTypeOK
  <2> QED
    BY <1>4, <2>3, <2>4, <2>5 DEF Rest
<1>5. CASE UNCHANGED vars
  BY <1>0, <1>1, <1>u, <1>5 DEF AreasTypeOK, vars
<1>6. CASE get_page_frame_number_fails
  BY <1>0, <1>1, <1>u, <1>6, LeftIs DEF AreasTypeOK
<1> QED
  BY <1>1, <1>2, <1>3, <1>4, <1>5, <1>6, StepIs

(* The walk over the areas. *)
LEMMA WalkStep == IInv /\ [Next]_vars => Walked'
<1> SUFFICES ASSUME IInv, [Next]_vars PROVE Walked'
  OBVIOUS
<1>0. AreasTypeOK /\ Given /\ Walked /\ i \in Nat \ {0} /\ Len(areas) \in Nat
  BY AreasAssumption DEF IInv, AreasTypeOK
<1>1. CASE SameFrame \/ encrypt_area_fails \/ encrypt_stack_done \/ UNCHANGED vars
  <2>1. UNCHANGED <<areas, i, touched, fault>>
    BY <1>1 DEF SameFrame, encrypt_area_fails, encrypt_stack_done, vars
  <2>2. Done' = Done
    BY <1>1, <2>1 DEF Done, SameFrame, encrypt_area_fails, encrypt_stack_done, vars
  <2>3. (pc' = "areas" => pc = "areas") /\ (pc' = "done" => pc = "done" \/ i > Len(areas))
        /\ (fault # "none" => pc' = pc)
    BY <1>1 DEF SameFrame, InLoop, encrypt_area_fails, encrypt_stack_done, vars
  <2>4. touched' = UNION {CellsOf(n)' : n \in 1 .. Done'}
    BY <1>0, <2>1, <2>2 DEF Walked, CellsOf
  <2> QED
    BY <1>0, <2>1, <2>2, <2>3, <2>4 DEF Walked
<1>2. CASE NextFrame \/ LastArea
  <2>1. AppendArea /\ pc = "areas" /\ fault = "none" /\ UNCHANGED <<i, touched>> /\ pc' \in {"areas", "encrypt"}
    BY <1>2 DEF NextFrame, LastArea, InLoop
  <2>2. i = 1 /\ Done = 0 /\ Done' = 0
    BY <1>0, <2>1 DEF Walked, Done
  <2>3. touched = {}
    BY <1>0, <2>2 DEF Walked
  <2>4. areas' \in Seq(Area)
    BY <1>0, <2>1, AppendIs
  <2> QED
    BY <2>1, <2>2, <2>3, <2>4 DEF Walked
<1>3. CASE encrypt_read
  <2>1. /\ pc = "encrypt" /\ pc' = "write" /\ fault = "none" /\ i <= Len(areas)
        /\ touched' = touched \cup CellsOf(i) /\ UNCHANGED <<areas, i, fault>>
    BY <1>3 DEF encrypt_read, CellsOf
  <2>2. Done = i - 1 /\ Done' = i
    BY <2>1 DEF Done
  <2>3. touched = UNION {CellsOf(n) : n \in 1 .. i - 1}
    BY <1>0, <2>2 DEF Walked
  <2>4. 1 .. i = (1 .. i - 1) \cup {i}
    BY <1>0
  <2>5. touched' = UNION {CellsOf(n) : n \in 1 .. i}
    BY <2>1, <2>3, <2>4
  <2>6. touched' = UNION {CellsOf(n)' : n \in 1 .. Done'}
    BY <2>1, <2>2, <2>5 DEF CellsOf
  <2> QED
    BY <2>1, <2>2, <2>6 DEF Walked
<1>4. CASE encrypt_write
  <2>1. pc = "write" /\ pc' = "encrypt" /\ fault = "none" /\ i' = i + 1 /\ UNCHANGED <<areas, touched, fault>>
    BY <1>4 DEF encrypt_write
  <2>2. Done = i /\ Done' = i
    BY <1>0, <2>1 DEF Done
  <2>3. touched' = UNION {CellsOf(n)' : n \in 1 .. Done'}
    BY <1>0, <2>1, <2>2 DEF Walked, CellsOf
  <2> QED
    BY <1>0, <2>1, <2>2, <2>3 DEF Walked
<1>5. CASE get_page_frame_number_fails
  <2>1. /\ pc = "areas" /\ fault = "none" /\ UNCHANGED <<areas, i, touched>>
        /\ (pc' = "areas" /\ fault' = "null_file") \/ (pc' = "exited" /\ fault' = "none")
    BY <1>5, LeftIs
  <2>2. i = 1 /\ Done = 0 /\ Done' = 0
    BY <1>0, <2>1 DEF Walked, Done
  <2>3. touched = {}
    BY <1>0, <2>2 DEF Walked
  <2> QED
    BY <1>0, <2>1, <2>2, <2>3 DEF Walked
<1> QED
  BY <1>1, <1>2, <1>3, <1>4, <1>5, StepIs DEF Rest

(* The addresses of the area that is being made have one frame. *)
LEMMA FrameStep == IInv /\ [Next]_vars => (pc' = "areas" => OneFrame')
<1> SUFFICES ASSUME IInv, [Next]_vars, pc' = "areas" PROVE OneFrame'
  OBVIOUS
<1>0. AreasTypeOK /\ Given
  BY DEF IInv
<1>1. pc = "areas" /\ OneFrame
  BY StepIs DEF IInv, SameFrame, NextFrame, LastArea, Rest, encrypt_read, encrypt_write,
         encrypt_area_fails, encrypt_stack_done, get_page_frame_number_fails, vars, InLoop
<1>2. top_addr \in Nat /\ tmp_addr \in Nat
  BY <1>0, RangeIs
<1>3. CASE SameFrame
  <2>1. UNCHANGED <<pagemap, top_addr>> /\ tmp_addr' = tmp_addr + 1 /\ ~NewFrame
    BY <1>3 DEF SameFrame
  <2>2. \A a \in top_addr .. tmp_addr : a \in top_addr .. tmp_addr - 1 \/ a = tmp_addr
    BY <1>2
  <2>3. \A a \in top_addr .. tmp_addr : pagemap[a \div PageSize].number = pagemap[top_addr \div PageSize].number
    BY <1>1, <2>1, <2>2 DEF OneFrame, NewFrame, get_page_frame_number_of_address
  <2>4. tmp_addr' - 1 = tmp_addr
    BY <1>2, <2>1
  <2> QED
    BY <2>1, <2>3, <2>4 DEF OneFrame, get_page_frame_number_of_address
<1>4. CASE NextFrame
  <2>1. pagemap' = pagemap /\ top_addr' = tmp_addr /\ tmp_addr' = tmp_addr + 1
    BY <1>4 DEF NextFrame
  <2>2. \A a \in top_addr' .. tmp_addr' - 1 : a = top_addr'
    BY <1>2, <2>1
  <2> QED
    BY <2>2 DEF OneFrame, get_page_frame_number_of_address
<1>5. CASE UNCHANGED vars \/ get_page_frame_number_fails
  <2>1. UNCHANGED <<pagemap, top_addr, tmp_addr>>
    BY <1>5, LeftIs DEF vars
  <2> QED
    BY <1>1, <2>1 DEF OneFrame, get_page_frame_number_of_address
<1> QED
  BY <1>1, <1>3, <1>4, <1>5, StepIs DEF LastArea, Rest, encrypt_read, encrypt_write,
         encrypt_area_fails, encrypt_stack_done

(* The areas that are made. *)
LEMMA ExactStep == IInv /\ [Next]_vars => Exact'
<1> SUFFICES ASSUME IInv, [Next]_vars, AllPresent' PROVE Within' /\ Whole'
  BY DEF Exact
<1>0. AreasTypeOK /\ Given /\ areas \in Seq(Area) /\ Len(areas) \in Nat
  BY DEF IInv, AreasTypeOK
<1>u. UNCHANGED <<pagemap, rsp, bottom_addr, End>>
  BY StepIs
<1>e. AllPresent /\ Within /\ Whole
  BY <1>u DEF IInv, Exact, AllPresent, get_page_frame_number_of_address
<1>c. (\A a : Cell(a)' = Cell(a)) /\ Image(rsp, End)' = Image(rsp, End)
  BY <1>u DEF Cell, Image, get_page_frame_number_of_address
<1>1. CASE SameFrame \/ Rest \/ UNCHANGED vars
  <2>1. UNCHANGED <<areas, fault>> /\ Made' = Made /\ (pc' # "exited" => pc # "exited")
    BY <1>1, <1>u DEF Made, SameFrame, InLoop, Rest, encrypt_read, encrypt_write,
                      encrypt_area_fails, encrypt_stack_done, vars
  <2>2. \A n : CellsOf(n)' = CellsOf(n)
    BY <2>1 DEF CellsOf
  <2>3. Within'
    BY <1>e, <1>c, <2>1, <2>2 DEF Within
  <2>4. Whole'
    BY <1>e, <1>c, <1>u, <2>1, <2>2 DEF Whole
  <2> QED
    BY <2>3, <2>4
<1>2. CASE NextFrame \/ LastArea
  <2>1. AppendArea /\ pc = "areas" /\ fault = "none"
    BY <1>2 DEF NextFrame, LastArea, InLoop
  <2>2. /\ areas' \in Seq(Area) /\ Len(areas) <= Len(areas')
        /\ \A n \in 1 .. Len(areas) : areas'[n] = areas[n]
        /\ \A n \in 1 .. Len(areas') : n <= Len(areas) \/ areas'[n] = ThisArea
        /\ fault' = "none" => Len(areas') = Len(areas) + 1
    BY <1>0, <2>1, AppendIs
  <2>3. PICK new : new = {Cell(a) : a \in top_addr .. tmp_addr - 1}
    OBVIOUS
  <2>4. /\ ThisArea.offset + ThisArea.len <= PageSize
        /\ {<<ThisArea.page_frame, o>> : o \in ThisArea.offset .. ThisArea.offset + ThisArea.len - 1} = new
    BY <1>0, <1>e, <2>1, <2>3, AreaExact DEF IInv
  <2>r. /\ rsp \in Nat /\ End \in Nat /\ bottom_addr \in Nat /\ bottom_addr <= End /\ top_addr \in Nat /\ tmp_addr \in Nat
        /\ rsp <= top_addr /\ top_addr < tmp_addr /\ tmp_addr <= End
    BY <1>0, RangeIs
  <2>5. new \subseteq Image(rsp, End)
    <3>1. \A a \in top_addr .. tmp_addr - 1 : a \in rsp .. End - 1
      BY <2>r
    <3> QED
      BY <2>3, <3>1 DEF Image, Cell, get_page_frame_number_of_address
  <2>6. \A n \in 1 .. Len(areas) : CellsOf(n)' = CellsOf(n)
    BY <2>2 DEF CellsOf
  <2>7. ASSUME NEW n \in 1 .. Len(areas'), areas'[n] = ThisArea PROVE CellsOf(n)' = new
    BY <2>4, <2>7 DEF CellsOf
  <2>8. Within'
    <3> SUFFICES ASSUME NEW n \in 1 .. Len(areas')
                 PROVE  areas'[n].offset + areas'[n].len <= PageSize /\ CellsOf(n)' \subseteq Image(rsp, End)
      BY <1>c, <2>2 DEF Within
    <3>1. CASE n <= Len(areas)
      <4>1. n \in DOMAIN areas /\ n \in 1 .. Len(areas)
        BY <1>0, <3>1
      <4> QED
        BY <1>e, <2>2, <2>6, <4>1 DEF Within
    <3>2. CASE areas'[n] = ThisArea
      BY <2>4, <2>5, <2>7, <3>2
    <3> QED
      BY <2>2, <3>1, <3>2
  <2>9. Whole'
    <3> SUFFICES ASSUME fault' = "none", NEW a \in rsp .. Made' - 1
                 PROVE  \E n \in DOMAIN areas' : Cell(a) \in CellsOf(n)'
      BY <1>u, <1>c DEF Whole
    <3>1. Made' = tmp_addr
      <4>1. CASE NextFrame
        BY <4>1 DEF NextFrame, Made, InLoop
      <4>2. CASE LastArea
        BY <1>0, <1>u, <2>r, <4>2, RangeIs DEF LastArea, Made
      <4> QED
        BY <1>2, <4>1, <4>2
    <3>2. CASE a < top_addr
      <4>1. a \in rsp .. Made - 1
        BY <2>1, <2>r, <3>1, <3>2 DEF Made
      <4>2. PICK n \in DOMAIN areas : Cell(a) \in CellsOf(n)
        BY <1>e, <2>1, <4>1 DEF Whole
      <4>3. n \in 1 .. Len(areas) /\ n \in DOMAIN areas'
        BY <1>0, <2>2
      <4> QED
        BY <2>6, <4>2, <4>3
    <3>3. CASE a >= top_addr
      <4>1. a \in top_addr .. tmp_addr - 1
        BY <2>r, <3>1, <3>3
      <4>2. PICK n \in 1 .. Len(areas') : n = Len(areas) + 1
        BY <1>0, <2>2
      <4>3. areas'[n] = ThisArea
        BY <1>0, <2>2, <4>2
      <4>4. Cell(a) \in CellsOf(n)'
        BY <2>3, <2>7, <4>1, <4>3
      <4> QED
        BY <2>2, <4>4
    <3> QED
      BY <2>r, <3>1, <3>2, <3>3
  <2> QED
    BY <2>8, <2>9
<1>3. CASE get_page_frame_number_fails
  <2>1. UNCHANGED areas /\ (fault' # "none" \/ pc' = "exited")
    BY <1>3, LeftIs
  <2>2. \A n : CellsOf(n)' = CellsOf(n)
    BY <2>1 DEF CellsOf
  <2> QED
    BY <1>e, <1>c, <2>1, <2>2 DEF Within, Whole
<1> QED
  BY <1>1, <1>2, <1>3, StepIs

(* The walk starts in a state of the invariant. *)
LEMMA InitIInv == Init => IInv
<1> SUFFICES ASSUME Init PROVE IInv
  OBVIOUS
<1>1. /\ rsp \in Virtual /\ bottom_addr \in Virtual /\ rsp \in Nat /\ bottom_addr \in Nat
      /\ End \in Nat /\ rsp < End
  BY PageOf DEF Init, End
<1>2. AreasTypeOK
  <2>1. top_addr \in rsp .. End /\ tmp_addr \in top_addr + 1 .. End
    BY <1>1 DEF Init
  <2>2. phys \in [AllMem -> AllMem] /\ buffer \in AllMem
    BY DEF Init, AllMem, Numbers
  <2>3. areas \in Seq(Area) /\ Len(areas) = 0 /\ i \in 1 .. MaxAreas + 1 /\ 0 <= MaxAreas
    BY AreasAssumption DEF Init
  <2> QED
    BY <1>1, <2>1, <2>2, <2>3 DEF Init, AreasTypeOK
<1>3. Given
  BY DEF Init, Given
<1>4. OneFrame
  BY <1>1 DEF Init, OneFrame
<1>5. Walked
  BY DEF Init, Walked, Done
<1>6. Exact
  BY <1>1 DEF Init, Exact, Within, Whole, Made
<1> QED
  BY <1>2, <1>3, <1>4, <1>5, <1>6 DEF IInv

(* What the two loops have done at every moment of the walk: the inductive invariant of *)
(* get_stack_areas and encrypt_stack.                                                   *)
THEOREM AreasInvariant == Spec => []IInv
<1>1. IInv /\ [Next]_vars => IInv'
  BY TypeStep, WalkStep, FrameStep, ExactStep DEF IInv
<1> QED
  BY <1>1, InitIInv, PTL DEF Spec

(* The slots hold areas and are never more than the array has, the loop stays within the *)
(* range, and every frame that is read or written exists.                                *)
THEOREM AreasTypeCorrect == Spec => []AreasTypeOK
<1>1. IInv => AreasTypeOK
  BY DEF IInv
<1> QED
  BY <1>1, AreasInvariant, PTL

(* For every page size, page map and pair of addresses: if the pages are present, the     *)
(* walk over physical memory is at the bytes from rsp up to bottom_addr and no others, at *)
(* all of them when it is done, and at the one byte at rsp if bottom_addr is not above    *)
(* rsp, as it is for every line that main() carries out.                                  *)
THEOREM RangeExactHolds == Spec => []RangeExact
<1>1. IInv => RangeExact
  <2> SUFFICES ASSUME IInv, AllPresent
               PROVE  /\ AreasInFrame
                      /\ touched \subseteq Image(rsp, End)
                      /\ pc = "done" => touched = Image(rsp, End)
    BY DEF RangeExact
  <2>1. Within /\ Whole /\ Walked /\ areas \in Seq(Area) /\ i \in Nat
    BY AreasAssumption DEF IInv, Exact, AreasTypeOK
  <2>2. \A n \in 1 .. Done : n \in DOMAIN areas
    BY <2>1 DEF Walked, Done
  <2>3. touched \subseteq Image(rsp, End)
    BY <2>1, <2>2 DEF Walked, Within
  <2>4. ASSUME pc = "done" PROVE Image(rsp, End) \subseteq touched
    <3>1. \A n \in DOMAIN areas : n \in 1 .. Done
      BY <2>1, <2>4 DEF Walked, Done
    <3>2. fault = "none" /\ pc # "exited" /\ Made = End
      BY <2>1, <2>4 DEF Walked, Made
    <3>3. \A a \in rsp .. End - 1 : \E n \in DOMAIN areas : Cell(a) \in CellsOf(n)
      BY <2>1, <3>2 DEF Whole
    <3>4. \A a \in rsp .. End - 1 : Cell(a) \in touched
      BY <2>1, <3>1, <3>3 DEF Walked
    <3>5. Image(rsp, End) = {Cell(a) : a \in rsp .. End - 1}
      BY DEF Image, Cell, get_page_frame_number_of_address
    <3> QED
      BY <3>4, <3>5
  <2> QED
    BY <2>1, <2>3, <2>4 DEF Within, AreasInFrame
<1> QED
  BY <1>1, AreasInvariant, PTL
=============================================================================
