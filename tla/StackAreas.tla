----------------------------- MODULE StackAreas -----------------------------
(***************************************************************************)
(* get_stack_areas and encrypt_stack of clear_stack/stack_encrypt_server.c: *)
(* which physical memory a range of a process's stack lies in, page frame  *)
(* by page frame, and the walk over it.  PageSize is the code's 4096, and  *)
(* MaxAreas the ten slots of the array that is returned.  The content of a *)
(* page frame is one value, at first the frame's own number.               *)
(***************************************************************************)
EXTENDS Integers, Sequences

CONSTANTS PageSize, MaxAreas, Pages, Frames

ASSUME AreasAssumption == /\ PageSize \in Nat \ {0} /\ MaxAreas \in Nat \ {0}
                          /\ Pages \in Nat \ {0} /\ Frames \subseteq Nat \ {0}

VARIABLES
    pagemap,              \* /proc/<pid>/pagemap: bits 0-54 of each entry, and its present bit
    rsp, bottom_addr,     \* the range of the stack that was asked for
    top_addr, tmp_addr,   \* locals of get_stack_areas
    areas,                \* the slots filled so far
    pc, i,
    touched,              \* physical cells <<frame, offset>> the encrypt has been at
    phys, buffer,         \* /dev/mem by page frames, and the page encrypt_stack has read
    fault

vars == <<pagemap, rsp, bottom_addr, top_addr, tmp_addr, areas, pc, i, touched,
          phys, buffer, fault>>

Virtual == 0 .. PageSize * Pages - 1
Numbers == Frames \cup {0}
AllMem  == Numbers \cup {f + 1 : f \in Numbers}
Area    == [page_frame : Numbers, offset : 0 .. PageSize - 1, len : Nat \ {0}]

(* A present page has a frame; the entry of any other page is 0, or the place in the    *)
(* swap area, which may look like any frame number.                                     *)
Entry == [present : {TRUE}, number : Frames] \cup [present : {FALSE}, number : Numbers]

(* The present bit is not looked at. *)
get_page_frame_number_of_address(addr) == pagemap[addr \div PageSize].number

(* No two present pages have the same frame. *)
OwnFrames(f) == \A x, y \in DOMAIN f :
                    x # y /\ f[x].present /\ f[y].present => f[x].number # f[y].number

(* Any two addresses are a range for the server: it does not ask which one is lower, and *)
(* the rbp it takes from a line that begins its last token with an 'e' is 0.             *)
Init ==
    /\ pagemap \in {f \in [0 .. Pages - 1 -> Entry] : OwnFrames(f)}
    /\ rsp \in Virtual /\ bottom_addr \in Virtual
    /\ top_addr = rsp /\ tmp_addr = rsp + 1
    /\ areas = <<>> /\ pc = "areas" /\ i = 1 /\ touched = {} /\ fault = "none"
    /\ phys = [f \in AllMem |-> f] /\ buffer = 0

(* Mutant: the offset is not taken again at the start of a frame. *)
FirstOffset == [page_frame |-> get_page_frame_number_of_address(top_addr),
                offset     |-> rsp % PageSize,
                len        |-> tmp_addr - top_addr]

(* The area from top_addr up to tmp_addr. *)
ThisArea == [page_frame |-> get_page_frame_number_of_address(top_addr),
             offset     |-> top_addr % PageSize,
             len        |-> tmp_addr - top_addr]

NewFrame == get_page_frame_number_of_address(tmp_addr) # get_page_frame_number_of_address(top_addr)

(* Mutant: the loop takes bottom_addr in. *)
InLoopToEnd == pc = "areas" /\ fault = "none" /\ tmp_addr <= bottom_addr

InLoop == pc = "areas" /\ fault = "none" /\ tmp_addr < bottom_addr

(* Mutant: no step to the next address. *)
SameFrameStuck == InLoop /\ ~NewFrame /\ UNCHANGED vars

SameFrame ==
    /\ InLoop /\ ~NewFrame
    /\ tmp_addr' = tmp_addr + 1
    /\ UNCHANGED <<pagemap, rsp, bottom_addr, top_addr, areas, pc, i, touched, phys, buffer, fault>>

(* The slot is written without a look at the size of the array. *)
AppendArea == IF Len(areas) < MaxAreas
              THEN areas' = Append(areas, ThisArea) /\ UNCHANGED fault
              ELSE fault' = "overflow" /\ UNCHANGED areas

NextFrame ==
    /\ InLoop /\ NewFrame
    /\ AppendArea
    /\ top_addr' = tmp_addr /\ tmp_addr' = tmp_addr + 1
    /\ UNCHANGED <<pagemap, rsp, bottom_addr, pc, i, touched, phys, buffer>>

LastArea ==
    /\ pc = "areas" /\ fault = "none" /\ tmp_addr >= bottom_addr
    /\ AppendArea
    /\ pc' = "encrypt"
    /\ UNCHANGED <<pagemap, rsp, bottom_addr, top_addr, tmp_addr, i, touched, phys, buffer>>

(* The pagemap cannot be opened, and fseek() gets the NULL; or it cannot be positioned,  *)
(* and the server exits.  It is read for rsp before the loop, then once in each round.   *)
get_page_frame_number_fails ==
    /\ InLoop \/ (pc = "areas" /\ fault = "none" /\ tmp_addr = rsp + 1)
    /\ \/ fault' = "null_file" /\ UNCHANGED pc
       \/ pc' = "exited" /\ UNCHANGED fault
    /\ UNCHANGED <<pagemap, rsp, bottom_addr, top_addr, tmp_addr, areas, i, touched, phys, buffer>>

(* The page of area i is read from /dev/mem and the bytes from offset on are gone       *)
(* through.  Slots that were not filled have the length -1 and are passed over.         *)
encrypt_read ==
    /\ pc = "encrypt" /\ fault = "none" /\ i <= Len(areas)
    /\ buffer' = phys[areas[i].page_frame]
    /\ touched' = touched \cup {<<areas[i].page_frame, o>> :
                                   o \in areas[i].offset .. areas[i].offset + areas[i].len - 1}
    /\ pc' = "write"
    /\ UNCHANGED <<pagemap, rsp, bottom_addr, top_addr, tmp_addr, areas, i, phys, fault>>

(* The read has moved the file position on by a page, and nothing moves it back. *)
encrypt_write ==
    /\ pc = "write" /\ fault = "none"
    /\ phys' = [phys EXCEPT ![areas[i].page_frame + 1] = buffer]
    /\ i' = i + 1 /\ pc' = "encrypt"
    /\ UNCHANGED <<pagemap, rsp, bottom_addr, top_addr, tmp_addr, areas, touched, buffer, fault>>

(* /dev/mem cannot be opened or positioned: the rest is left out. *)
encrypt_area_fails ==
    /\ pc = "encrypt" /\ fault = "none" /\ i <= Len(areas)
    /\ pc' = "failed"
    /\ UNCHANGED <<pagemap, rsp, bottom_addr, top_addr, tmp_addr, areas, i, touched, phys, buffer, fault>>

encrypt_stack_done ==
    /\ pc = "encrypt" /\ fault = "none" /\ i > Len(areas)
    /\ pc' = "done"
    /\ UNCHANGED <<pagemap, rsp, bottom_addr, top_addr, tmp_addr, areas, i, touched, phys, buffer, fault>>

Stopped == pc \in {"done", "failed", "exited"} \/ fault # "none"

Finished == Stopped /\ UNCHANGED vars

Walk == \/ SameFrame \/ NextFrame \/ LastArea
        \/ encrypt_read \/ encrypt_write \/ encrypt_stack_done

Fails == get_page_frame_number_fails \/ encrypt_area_fails

Next == Walk \/ Fails \/ Finished

(* One single-threaded server runs the two loops; nothing makes a call fail. *)
Spec == Init /\ [][Next]_vars /\ WF_vars(Walk)
-----------------------------------------------------------------------------
(* The physical image of a range, address by address. *)
Image(lo, hi) == {<<get_page_frame_number_of_address(a), a % PageSize>> : a \in lo .. hi - 1}

(* Where the last area ends: it is appended even if the loop never ran. *)
End == IF rsp < bottom_addr THEN bottom_addr ELSE rsp + 1

(* Type invariant. *)
AreasTypeOK ==
    /\ rsp \in Virtual /\ bottom_addr \in Virtual
    /\ top_addr \in rsp .. End /\ tmp_addr \in top_addr + 1 .. End
    /\ areas \in Seq(Area) /\ Len(areas) <= MaxAreas
    /\ pc \in {"areas", "encrypt", "write", "done", "failed", "exited"} /\ i \in 1 .. MaxAreas + 1
    /\ phys \in [AllMem -> AllMem] /\ buffer \in AllMem
    /\ fault \in {"none", "overflow", "null_file"}

(* Whatever frames the pages have, wherever the two addresses are, if the pages are       *)
(* present then each area stays in one frame, and when the encrypt is done it has been at *)
(* exactly the bytes from rsp up to bottom_addr, no byte left out and none of a           *)
(* neighbour's reached; if bottom_addr is not above rsp, at the one byte at rsp.          *)
AllPresent   == \A a \in rsp .. End - 1 : pagemap[a \div PageSize].present
AreasInFrame == \A n \in DOMAIN areas : areas[n].offset + areas[n].len <= PageSize
RangeExact   == AllPresent => /\ AreasInFrame
                              /\ touched \subseteq Image(rsp, End)
                              /\ pc = "done" => touched = Image(rsp, End)

(* encrypt_stack changes no memory outside the range it was given: a frame that holds     *)
(* none of it keeps its content, if there is a range and all its pages are present.       *)
WriteBackHome ==
    rsp < bottom_addr /\ AllPresent =>
        \A f \in AllMem : f \in {c[1] : c \in Image(rsp, bottom_addr)} \/ phys[f] = f

(* The two loops end. *)
WalkEnds == <>Stopped
=============================================================================
