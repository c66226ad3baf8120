------------------------------ MODULE StackBuf ------------------------------
(***************************************************************************)
(* The stack buffer of the memClear kernel module: kernel_probe/stack_buf.c *)
(* and the look-up on it in kernel_probe/jprobe.c.  A stack buffer keeps   *)
(* the pieces ("segments") of one function's frame that were taken off the *)
(* user stack, and the "holes": the parts of those pieces that were given  *)
(* back to the callee early and must not be overwritten on restore.        *)
(*                                                                         *)
(* Memory is counted in cells of one pointer each.  The kernel buffer of a *)
(* segment is indexed by the stack cells it was copied from (it has the    *)
(* fill pattern elsewhere), so the kernel address buf + (a - start) is the *)
(* pair <<segment, a>>.                                                    *)
(***************************************************************************)
EXTENDS Integers, Sequences

CONSTANTS
    MaxAddr,   \* the highest cell of the user stack
    Data,      \* what a program may store in a cell: plain values and addresses
    Fill       \* the pattern that memset(.., '0', ..) leaves in a cell

ASSUME MemoryAssumption == MaxAddr \in Nat /\ Fill \notin Data

Addr == 0 .. MaxAddr
Val  == Data \cup {Fill}

(* The stack cells len cells long from a. *)
Span(a, len) == a .. (a + len - 1)

(* The cells a segment was copied from, and the kernel's copy of them. *)
Cells(seg) == Span(seg.start, seg.len)
Segment    == [start : Addr, len : Nat \ {0}, buf : [Addr -> Val]]

(* A hole names the segment whose buffer it points into; one for an object of size 0 is empty. *)
Hole == [seg : Nat \ {0}, start : Addr, len : Nat]

(***************************************************************************)
(* One growable array of segments.  `holes' is the hole list of element 0, *)
(* the only one holes are ever linked into.  `freed' holds when the array  *)
(* was reallocated: the pointer in sbuf_stack[] then still names the array *)
(* that kfree() released, since only a local copy of it is updated.        *)
(***************************************************************************)
Sbuf == [cap : Nat \ {0}, segs : Seq(Segment), holes : Seq(Hole), freed : BOOLEAN]

init_stack_buf(size) == [cap |-> size, segs |-> <<>>, holes |-> <<>>, freed |-> FALSE]

(* memset of len cells from start to '0' on the user stack. *)
Filled(mem, start, len) == [a \in Addr |-> IF a \in Span(start, len) THEN Fill ELSE mem[a]]

(* Mutant: the array counts as full one element early. *)
FullEarly(sbuf) == Len(sbuf.segs) + 1 = sbuf.cap

Full(sbuf) == Len(sbuf.segs) = sbuf.cap

(* A full array is doubled first; the element is then filled and counted, and the *)
(* first element starts with an empty hole list.                                  *)
copy_stack_buf(sbuf, mem, start, len) ==
    [cap   |-> IF Full(sbuf) THEN 2 * sbuf.cap ELSE sbuf.cap,
     freed |-> sbuf.freed \/ Full(sbuf),
     segs  |-> Append(sbuf.segs, [start |-> start, len |-> len,
                                  buf   |-> [a \in Addr |-> IF a \in Span(start, len) THEN mem[a] ELSE Fill]]),
     holes |-> IF sbuf.segs = <<>> THEN <<>> ELSE sbuf.holes]

(* The segments that hold all len cells from a; find_in_stack_buf returns the first.  *)
(* No cells at all are also held at the segment's end.                                *)
Found(sbuf, a, len) ==
    { n \in DOMAIN sbuf.segs :
         a \in sbuf.segs[n].start .. (sbuf.segs[n].start + sbuf.segs[n].len - len) }

find_in_stack_buf(sbuf, a, len) == CHOOSE n \in Found(sbuf, a, len) :
                                       \A m \in Found(sbuf, a, len) : n <= m

(* Mutant: the look-up forgets the offset of a in the segment. *)
CopiedBackFromStart(mem, seg, a, len) ==
    [c \in Addr |-> IF c \in Span(a, len) THEN seg.buf[seg.start + c - a] ELSE mem[c]]

(* memcpy of len cells from the buffer back to the stack, and the hole that records it. *)
CopiedBack(mem, seg, a, len) == [c \in Addr |-> IF c \in Span(a, len) THEN seg.buf[c] ELSE mem[c]]

(* Mutant: no hole is linked for what was given back. *)
LostHole(sbuf, n, a, len) == sbuf

list_add_tail(sbuf, n, a, len) == [sbuf EXCEPT !.holes = Append(@, [seg |-> n, start |-> a, len |-> len])]

(***************************************************************************)
(* restore_stack_buf on segment n.  The hole list it walks is the list of  *)
(* that element, so it is empty for all but the first.  After list_sort,   *)
(* which keeps the order of holes that start together, each gap            *)
(* h->start - from is a length only if every hole points into this         *)
(* segment's buffer and each ends before the next begins; otherwise memcpy *)
(* gets a difference of unrelated or descending addresses.                 *)
(***************************************************************************)
HolesOf(sbuf, n) == IF n = 1 THEN sbuf.holes ELSE <<>>

SortedBefore(hs, x, y) == hs[x].start < hs[y].start \/ (hs[x].start = hs[y].start /\ x < y)

GapsDefined(sbuf, n) ==
    LET hs == HolesOf(sbuf, n)
    IN  /\ \A x \in DOMAIN hs : hs[x].seg = n
        /\ \A x, y \in DOMAIN hs :
              SortedBefore(hs, x, y) => hs[x].start + hs[x].len <= hs[y].start

(* Mutant: the holes are not stepped over. *)
NoGaps(sbuf, n) == Cells(sbuf.segs[n])

(* The cells of segment n that the walk copies back: all that are in none of its holes. *)
Gaps(sbuf, n) ==
    LET hs == HolesOf(sbuf, n)
    IN  { a \in Cells(sbuf.segs[n]) : \A x \in DOMAIN hs : a \notin Span(hs[x].start, hs[x].len) }

RestoredSegment(mem, sbuf, n) ==
    [a \in Addr |-> IF a \in Gaps(sbuf, n) THEN sbuf.segs[n].buf[a] ELSE mem[a]]
=============================================================================
