-------------------------- MODULE StackVaultProofs --------------------------
(***************************************************************************)
(* Proofs about StackVault for every program, stack size, depth and        *)
(* capacity.  The inductive invariant says where things are: the active    *)
(* functions occupy lower and lower parts of the stack, every record of    *)
(* call_stack[] is the frame of one of them that has asked for protection, *)
(* and the segments of a live slot are disjoint pieces of that frame.      *)
(***************************************************************************)
EXTENDS StackVault, NumberFacts, SequenceTheorems, FiniteSetTheorems

Encrypting == pc \in {"scan", "pointers", "chase"}

ActsOrdered ==
    /\ \A m \in DOMAIN acts : acts[m].sp <= acts[m].rbp
    /\ \A m, n \in DOMAIN acts : m < n => acts[n].rbp < acts[m].sp

Owner(rec, m) == acts[m].enc /\ rec.rsp = acts[m].sp + Slack /\ rec.rbp = acts[m].rbp

RecordsOwned ==
    \A n \in DOMAIN call_stack : /\ call_stack[n].rsp <= call_stack[n].rbp
                                 /\ \E m \in DOMAIN acts : Owner(call_stack[n], m)

RecordsOrdered ==
    \A m, n \in DOMAIN call_stack : m < n => call_stack[n].rbp < call_stack[m].rsp

(* During an encrypt the last record is the asking function's; during a decrypt all *)
(* records that are left lie above it.                                              *)
HandlerFrame ==
    /\ Encrypting => /\ Owner(call_stack[Len(call_stack)], Len(acts))
                     /\ k \in Nat /\ (pc \in {"pointers", "chase"} => k >= 1)
                     /\ (pc = "chase" => k <= Len(Top.plist))
    /\ pc = "restore" => /\ \A n \in DOMAIN call_stack : call_stack[n].rsp > Top.rbp
                         /\ k >= 1

Programs == ActsOrdered /\ RecordsOwned /\ RecordsOrdered /\ HandlerFrame

(* The segments of slot d lie from lo up to hi, each above the one before it. *)
Within(d, lo, hi) ==
    \A n \in DOMAIN sbuf_stack[d].segs :
        /\ lo <= sbuf_stack[d].segs[n].start
        /\ sbuf_stack[d].segs[n].start + sbuf_stack[d].segs[n].len <= hi

Ascending(d) ==
    \A m, n \in DOMAIN sbuf_stack[d].segs :
        m < n => sbuf_stack[d].segs[m].start + sbuf_stack[d].segs[m].len <= sbuf_stack[d].segs[n].start

Slots ==
    /\ \A d \in 0 .. sbuf_stack_top - 1 : Within(d, call_stack[d + 1].rsp, call_stack[d + 1].rbp)
    /\ \A d \in 0 .. SbufDepth - 1 : Ascending(d)
    /\ \A d \in sbuf_stack_top .. SbufDepth - 1 :
          (pc = "restore" => d # sbuf_stack_top) => sbuf_stack[d].segs = <<>>
    /\ pc = "restore" => /\ Within(sbuf_stack_top, 0, MaxAddr)
                         /\ \A n \in DOMAIN call_stack : Within(sbuf_stack_top, 0, call_stack[n].rsp)
    /\ pc = "scan" => /\ user_rsp <= prev_rsp /\ prev_rsp <= i
                      /\ i <= user_rbp => Within(EncSlot, 0, prev_rsp)

IInv == TypeOK /\ Programs /\ Slots /\ Concealment
-----------------------------------------------------------------------------
(* What the operators of StackBuf return, for every stack and every buffer *)

(* Segment seg passes the test of find_in_stack_buf for the len cells from a. *)
Holds(seg, a, len) == seg.start <= a /\ a + len <= seg.start + seg.len

(* Whenever some segment passes its test, find_in_stack_buf returns one that does and   *)
(* that holds every one of the cells asked for, and no segment before it passes: it is  *)
(* the first in the order in which the encrypt took them off the stack.                 *)
THEOREM FindIsFound ==
    ASSUME NEW sbuf \in Sbuf, NEW a, NEW len \in Nat, Found(sbuf, a, len) # {}
    PROVE  LET n == find_in_stack_buf(sbuf, a, len)
           IN  /\ n \in DOMAIN sbuf.segs /\ n \in Nat \ {0} /\ sbuf.segs[n] \in Segment
               /\ a \in Int
               /\ Span(a, len) \subseteq Cells(sbuf.segs[n])
               /\ Holds(sbuf.segs[n], a, len)
               /\ \A m \in DOMAIN sbuf.segs : m < n => ~Holds(sbuf.segs[m], a, len)
<1> DEFINE n == find_in_stack_buf(sbuf, a, len)
<1>1. sbuf.segs \in Seq(Segment)
  BY DEF Sbuf
<1>2. Found(sbuf, a, len) \subseteq Nat
  BY <1>1 DEF Found
<1>3. n \in Found(sbuf, a, len)
  BY <1>2, LeastNatural DEF find_in_stack_buf
<1>3a. \A m \in Found(sbuf, a, len) : n <= m
  BY <1>2, LeastNatural DEF find_in_stack_buf
<1> HIDE DEF n
<1>4. n \in DOMAIN sbuf.segs
      /\ a \in sbuf.segs[n].start .. (sbuf.segs[n].start + sbuf.segs[n].len - len)
  BY <1>3 DEF Found
<1>5. n \in Nat \ {0} /\ sbuf.segs[n] \in Segment
  BY <1>1, <1>4
<1>6. \A m \in DOMAIN sbuf.segs : m \in Nat /\ sbuf.segs[m].start \in Int /\ sbuf.segs[m].len \in Int
  <2> TAKE m \in DOMAIN sbuf.segs
  <2>1. m \in Nat /\ sbuf.segs[m] \in Segment
    BY <1>1
  <2> QED
    BY <2>1, MemoryAssumption DEF Segment, Addr
<1>7. a \in Int
  BY <1>4, <1>6
<1>8. Holds(sbuf.segs[n], a, len)
  BY <1>4, <1>6, <1>7 DEF Holds
<1>9. Span(a, len) \subseteq Cells(sbuf.segs[n])
  BY <1>4, <1>6, <1>7, <1>8 DEF Cells, Span, Holds
<1>10. ASSUME NEW m \in DOMAIN sbuf.segs, m < n PROVE ~Holds(sbuf.segs[m], a, len)
  <2> SUFFICES ASSUME Holds(sbuf.segs[m], a, len) PROVE FALSE
    OBVIOUS
  <2>1. a \in sbuf.segs[m].start .. (sbuf.segs[m].start + sbuf.segs[m].len - len)
    BY <1>6, <1>7 DEF Holds
  <2>2. m \in Found(sbuf, a, len)
    BY <2>1 DEF Found
  <2> QED
    BY <1>3a, <1>5, <1>6, <1>10, <2>2
<1> QED
  BY <1>4, <1>5, <1>7, <1>8, <1>9, <1>10 DEF n

(* Copying a piece of the stack adds one segment, with the cells as they were, behind *)
(* the ones that were there.                                                          *)
LEMMA CopyAppends ==
    ASSUME NEW sbuf \in Sbuf, NEW m \in [Addr -> Val], NEW start \in Addr, NEW len \in Nat \ {0}
    PROVE  LET s == copy_stack_buf(sbuf, m, start, len)
               l == Len(sbuf.segs)
           IN  /\ s \in Sbuf
               /\ Len(s.segs) = l + 1
               /\ \A n \in 1 .. l : s.segs[n] = sbuf.segs[n]
               /\ s.segs[l + 1].start = start /\ s.segs[l + 1].len = len
               /\ \A c \in Span(start, len) \cap Addr : s.segs[l + 1].buf[c] = m[c]
<1> DEFINE seg == [start |-> start, len |-> len,
                   buf   |-> [a \in Addr |-> IF a \in Span(start, len) THEN m[a] ELSE Fill]]
           s == copy_stack_buf(sbuf, m, start, len)
<1>1. seg \in Segment
  BY DEF Segment, Val
<1>2. sbuf.segs \in Seq(Segment) /\ sbuf.holes \in Seq(Hole) /\ sbuf.cap \in Nat \ {0}
      /\ sbuf.freed \in BOOLEAN
  BY DEF Sbuf
<1>3. s.segs = Append(sbuf.segs, seg)
  BY DEF copy_stack_buf
<1>4. /\ Append(sbuf.segs, seg) \in Seq(Segment)
      /\ Len(Append(sbuf.segs, seg)) = Len(sbuf.segs) + 1
      /\ \A n \in 1 .. Len(sbuf.segs) : Append(sbuf.segs, seg)[n] = sbuf.segs[n]
      /\ Append(sbuf.segs, seg)[Len(sbuf.segs) + 1] = seg
  BY <1>1, <1>2, AppendProperties
<1>5a. (IF Full(sbuf) THEN 2 * sbuf.cap ELSE sbuf.cap) \in Nat \ {0}
  BY <1>2
<1>5b. (sbuf.freed \/ Full(sbuf)) \in BOOLEAN
  BY <1>2 DEF Full
<1>5c. (IF sbuf.segs = <<>> THEN <<>> ELSE sbuf.holes) \in Seq(Hole)
  BY <1>2
<1>5. s \in Sbuf
  BY <1>4, <1>5a, <1>5b, <1>5c DEF copy_stack_buf, Sbuf
<1> QED
  BY <1>3, <1>4, <1>5

(* A hole added to the list changes nothing else of the buffer. *)
LEMMA HoleAppends ==
    ASSUME NEW sbuf \in Sbuf, NEW n \in Nat \ {0}, NEW a \in Addr, NEW len \in Nat
    PROVE  LET s == list_add_tail(sbuf, n, a, len)
               l == Len(sbuf.holes)
           IN  /\ s \in Sbuf /\ s.segs = sbuf.segs
               /\ Len(s.holes) = l + 1
               /\ \A x \in 1 .. l : s.holes[x] = sbuf.holes[x]
               /\ s.holes[l + 1] = [seg |-> n, start |-> a, len |-> len]
<1> DEFINE h == [seg |-> n, start |-> a, len |-> len]
<1>1. h \in Hole
  BY DEF Hole
<1>2. sbuf.segs \in Seq(Segment) /\ sbuf.holes \in Seq(Hole)
  BY DEF Sbuf
<1>3. /\ Append(sbuf.holes, h) \in Seq(Hole)
      /\ Len(Append(sbuf.holes, h)) = Len(sbuf.holes) + 1
      /\ \A x \in 1 .. Len(sbuf.holes) : Append(sbuf.holes, h)[x] = sbuf.holes[x]
      /\ Append(sbuf.holes, h)[Len(sbuf.holes) + 1] = h
  BY <1>1, <1>2, AppendProperties
<1>4. list_add_tail(sbuf, n, a, len) = [sbuf EXCEPT !.holes = Append(sbuf.holes, h)]
  BY DEF list_add_tail
<1>5. [sbuf EXCEPT !.holes = Append(sbuf.holes, h)] \in Sbuf
  BY <1>3 DEF Sbuf
<1> QED
  BY <1>2, <1>3, <1>4, <1>5 DEF Sbuf

(* s is sbuf with one hole more, of the len cells at a of segment n. *)
HoleAppended(s, sbuf, n, a, len) ==
    /\ s \in Sbuf /\ s.segs = sbuf.segs
    /\ Len(s.holes) = Len(sbuf.holes) + 1
    /\ \A x \in 1 .. Len(sbuf.holes) : s.holes[x] = sbuf.holes[x]
    /\ s.holes[Len(sbuf.holes) + 1] = [seg |-> n, start |-> a, len |-> len]

(* What list_add_tail does, as one predicate. *)
LEMMA HoleIsAppended ==
    ASSUME NEW sbuf \in Sbuf, NEW n \in Nat \ {0}, NEW a \in Addr, NEW len \in Nat
    PROVE  HoleAppended(list_add_tail(sbuf, n, a, len), sbuf, n, a, len)
BY HoleAppends DEF HoleAppended

(* The memset of an encrypt and the copy-back of a pointer keep the stack's type. *)
LEMMA WritesTyped ==
    ASSUME NEW m \in [Addr -> Val]
    PROVE  /\ \A start, len : Filled(m, start, len) \in [Addr -> Val]
           /\ \A seg \in Segment : \A a, len : CopiedBack(m, seg, a, len) \in [Addr -> Val]
<1>1. \A start, len : Filled(m, start, len) \in [Addr -> Val]
  BY DEF Filled, Val
<1>2. \A seg \in Segment : \A a, len : CopiedBack(m, seg, a, len) \in [Addr -> Val]
  BY DEF CopiedBack, Segment
<1> QED
  BY <1>1, <1>2

(* Restoring a segment keeps the stack's type. *)
LEMMA RestoreTyped ==
    ASSUME NEW m \in [Addr -> Val], NEW sbuf \in Sbuf, NEW n \in DOMAIN sbuf.segs
    PROVE  RestoredSegment(m, sbuf, n) \in [Addr -> Val]
<1>1. sbuf.segs[n] \in Segment
  BY DEF Sbuf
<1> QED
  BY <1>1 DEF RestoredSegment, Segment
-----------------------------------------------------------------------------
(* Facts about the helpers *)

(* The innermost activation is a member of the sequence, with a typed list. *)
LEMMA TopType ==
    ASSUME TypeOK, acts # <<>>
    PROVE  /\ Len(acts) \in DOMAIN acts /\ Len(acts) \in Nat \ {0}
           /\ Top \in Activation
BY DEF TypeOK, Top

(* Replacing the innermost activation leaves the others and their number alone. *)
LEMMA SetTopOnly ==
    ASSUME TypeOK, acts # <<>>, NEW t \in Activation, SetTop(t)
    PROVE  /\ acts' \in Seq(Activation)
           /\ Len(acts') = Len(acts)
           /\ acts'[Len(acts)] = t
           /\ \A m \in DOMAIN acts : m # Len(acts) => acts'[m] = acts[m]
<1>1. acts \in Seq(Activation) /\ Len(acts) \in 1 .. Len(acts)
  BY TopType DEF TypeOK
<1>2. acts' = [acts EXCEPT ![Len(acts)] = t]
  BY DEF SetTop
<1> QED
  BY <1>1, <1>2, ExceptSeq

(* The activations the handlers write back are activations. *)
LEMMA ActivationUpdates ==
    ASSUME TypeOK, acts # <<>>
    PROVE  /\ Requested \in Activation /\ Requested.enc
           /\ Requested.sp = Top.sp /\ Requested.rbp = Top.rbp
           /\ Answered \in Activation
           /\ Answered.sp = Top.sp /\ Answered.rbp = Top.rbp
BY TopType DEF Requested, Answered, Activation

(* Counting an int down gives an int. *)
LEMMA BelowType ==
    ASSUME NEW n \in CInt
    PROVE  Below(n) \in CInt
BY ParameterAssumption DEF CInt, Below

(* A number of levels that is positive is counted down by one. *)
LEMMA BelowIs ==
    ASSUME NEW n \in CInt, n \in Nat \ {0}
    PROVE  Below(n) = n - 1 /\ n - 1 \in CInt /\ n - 1 \in Nat
BY ParameterAssumption DEF CInt, Below

(* One level less on entry k of the list changes nothing else of the activation. *)
LEMMA LevelUpdate ==
    ASSUME TypeOK, acts # <<>>, k \in 1 .. Len(Top.plist), NEW n \in CInt
    PROVE  LET t == [Top EXCEPT !.plist[k].pointer = n]
           IN  /\ t \in Activation
               /\ t.sp = Top.sp /\ t.rbp = Top.rbp /\ t.enc = Top.enc
               /\ Len(t.plist) = Len(Top.plist)
<1> DEFINE p == [Top.plist EXCEPT ![k].pointer = n]
<1>1. Top \in Activation /\ Top.plist \in Seq(Para)
  BY TopType DEF Activation
<1>2. Top.plist[k] \in Para
  BY <1>1
<1>2a. [Top.plist[k] EXCEPT !.pointer = n] \in Para
  BY <1>2 DEF Para
<1>3. p \in Seq(Para) /\ Len(p) = Len(Top.plist)
  BY <1>1, <1>2a, ExceptSeq
<1>4. [Top EXCEPT !.plist[k].pointer = n] = [Top EXCEPT !.plist = p]
  BY <1>1 DEF Activation
<1> QED
  BY <1>1, <1>3, <1>4 DEF Activation
-----------------------------------------------------------------------------
(* Type correctness *)

(* The slot that an encrypt fills and the one a decrypt empties hold stack buffers. *)
LEMMA SlotType ==
    ASSUME TypeOK
    PROVE  /\ sbuf_stack_top \in Int /\ SbufDepth \in Int
           /\ Encrypting => EncSlot \in 0 .. SbufDepth - 1 /\ sbuf_stack[EncSlot] \in Sbuf
           /\ pc = "restore" => DecSlot \in 0 .. SbufDepth - 1 /\ sbuf_stack[DecSlot] \in Sbuf
BY ParameterAssumption DEF TypeOK, Encrypting, EncSlot, DecSlot

(* The bounds of a segment are numbers. *)
LEMMA SegType ==
    ASSUME TypeOK, NEW x \in 0 .. SbufDepth - 1, NEW y \in DOMAIN sbuf_stack[x].segs
    PROVE  /\ sbuf_stack[x].segs[y] \in Segment
           /\ sbuf_stack[x].segs[y].start \in Nat /\ sbuf_stack[x].segs[y].len \in Nat
           /\ DOMAIN sbuf_stack[x].segs \subseteq Nat
<1> DEFINE segs == sbuf_stack[x].segs
<1>1. segs \in Seq(Segment)
  BY DEF TypeOK, Sbuf
<1> HIDE DEF segs
<1>2. y \in DOMAIN segs
  BY DEF segs
<1>3. segs[y] \in Segment /\ DOMAIN segs \subseteq Nat
  BY <1>1, <1>2
<1>4. segs[y].start \in Nat /\ segs[y].len \in Nat
  BY <1>3, MemoryAssumption DEF Segment, Addr
<1> QED
  BY <1>3, <1>4 DEF segs

(* The bounds in a record of call_stack[] are addresses. *)
LEMMA RecordType ==
    ASSUME TypeOK, NEW n \in DOMAIN call_stack
    PROVE  /\ call_stack[n].rsp \in Nat /\ call_stack[n].rbp \in Addr
           /\ call_stack[n].rbp \in Nat /\ call_stack[n].rbp <= MaxAddr
           /\ DOMAIN call_stack = 1 .. Len(call_stack) /\ n \in Nat
<1>1. call_stack \in Seq(CsItem)
  BY DEF TypeOK
<1>2. call_stack[n] \in CsItem
  BY <1>1
<1> QED
  BY <1>1, <1>2, MemoryAssumption DEF CsItem, Addr

(* The asking function's frame is made of stack addresses. *)
LEMMA FrameType ==
    ASSUME TypeOK, acts # <<>>
    PROVE  user_rsp \in Nat /\ user_rbp \in Addr /\ user_rbp \in Nat /\ user_rbp <= MaxAddr
BY TopType, ParameterAssumption, MemoryAssumption DEF user_rsp, user_rbp, Activation, Addr

(* What the symbol map is loaded with are functions of the program. *)
LEMMA MapperType ==
    ASSUME TypeOK, LoadMapper
    PROVE  init' \in {0, 1} /\ mapper' \subseteq {s.func : s \in Sites}
BY ParameterAssumption, SMTT(30) DEF TypeOK, LoadMapper

(* What an encrypt adds to its slot: one segment, from prev_rsp up to i. *)
LEMMA TakenSegment ==
    ASSUME TypeOK, Encrypting, prev_rsp \in Addr, i - prev_rsp \in Nat \ {0}
    PROVE  LET old == sbuf_stack[EncSlot]
               new == copy_stack_buf(old, mem, prev_rsp, i - prev_rsp)
           IN  /\ Len(new.segs) = Len(old.segs) + 1 /\ new \in Sbuf
               /\ \A x \in 1 .. Len(old.segs) : new.segs[x] = old.segs[x]
               /\ new.segs[Len(old.segs) + 1].start = prev_rsp
               /\ new.segs[Len(old.segs) + 1].len = i - prev_rsp
<1> DEFINE old == sbuf_stack[EncSlot]
           len == i - prev_rsp
           new == copy_stack_buf(old, mem, prev_rsp, len)
<1>1. old \in Sbuf /\ mem \in [Addr -> Val] /\ len \in Nat \ {0}
  BY SlotType DEF TypeOK
<1> HIDE DEF old, len
<1>2. /\ Len(new.segs) = Len(old.segs) + 1 /\ new \in Sbuf
      /\ \A x \in 1 .. Len(old.segs) : new.segs[x] = old.segs[x]
      /\ new.segs[Len(old.segs) + 1].start = prev_rsp
      /\ new.segs[Len(old.segs) + 1].len = len
  BY <1>1, CopyAppends
<1> QED
  BY <1>2 DEF old, len

(* Taking cells off the stack keeps the types of the stack and of the buffers. *)
LEMMA TakeOffType ==
    ASSUME TypeOK, Slots, pc = "scan", i <= user_rbp, TakeOff
    PROVE  mem' \in [Addr -> Val] /\ sbuf_stack' \in [0 .. SbufDepth - 1 -> Sbuf]
<1>1. acts # <<>> /\ mem \in [Addr -> Val] /\ sbuf_stack \in [0 .. SbufDepth - 1 -> Sbuf]
      /\ i \in Nat /\ prev_rsp \in Nat
  BY DEF TypeOK
<1>2. EncSlot \in 0 .. SbufDepth - 1 /\ sbuf_stack[EncSlot] \in Sbuf
  BY SlotType DEF Encrypting
<1>3. ASSUME i > prev_rsp PROVE prev_rsp \in Addr /\ i - prev_rsp \in Nat \ {0}
  BY <1>1, <1>3, FrameType, MemoryAssumption DEF Addr
<1>4. ASSUME i > prev_rsp PROVE copy_stack_buf(sbuf_stack[EncSlot], mem, prev_rsp, i - prev_rsp) \in Sbuf
  BY <1>3, <1>4, TakenSegment DEF Encrypting
<1>5. Filled(mem, prev_rsp, i - prev_rsp) \in [Addr -> Val]
  BY <1>1, WritesTyped
<1> QED
  BY <1>1, <1>2, <1>4, <1>5 DEF TakeOff

(* What giving cells back adds to the slot: one hole, in the segment that was found. *)
LEMMA AddedHole ==
    ASSUME TypeOK, Encrypting, NEW c \in Addr, NEW len \in Nat, InBuf(c, len)
    PROVE  LET old == sbuf_stack[EncSlot]
               x   == find_in_stack_buf(old, c, len)
               new == list_add_tail(old, x, c, len)
           IN  /\ x \in Nat \ {0}
               /\ new \in Sbuf /\ new.segs = old.segs /\ Len(new.holes) = Len(old.holes) + 1
               /\ \A y \in 1 .. Len(old.holes) : new.holes[y] = old.holes[y]
               /\ new.holes[Len(old.holes) + 1] = [seg |-> x, start |-> c, len |-> len]
<1> DEFINE old == sbuf_stack[EncSlot]
           x   == find_in_stack_buf(old, c, len)
<1>1. old \in Sbuf /\ Found(old, c, len) # {}
  BY SlotType DEF InBuf
<1> HIDE DEF old
<1>2. x \in Nat \ {0}
  BY <1>1, FindIsFound
<1> HIDE DEF x
<1> DEFINE new == list_add_tail(old, x, c, len)
<1>3. /\ new \in Sbuf /\ new.segs = old.segs /\ Len(new.holes) = Len(old.holes) + 1
      /\ \A y \in 1 .. Len(old.holes) : new.holes[y] = old.holes[y]
      /\ new.holes[Len(old.holes) + 1] = [seg |-> x, start |-> c, len |-> len]
  BY <1>1, <1>2, HoleAppends
<1> QED
  BY <1>2, <1>3 DEF x, old

(* Giving cells back keeps them too, and what is read from a cell given back is a value. *)
LEMMA GiveBackType ==
    ASSUME TypeOK, Programs, Slots, Encrypting, NEW a, NEW len \in Nat,
           InBuf(a, len), GiveBack(a, len)
    PROVE  /\ mem' \in [Addr -> Val] /\ sbuf_stack' \in [0 .. SbufDepth - 1 -> Sbuf]
           /\ Span(a, len) \subseteq Addr /\ a \in Addr /\ mem'[a] \in Val
<1> DEFINE n == find_in_stack_buf(sbuf_stack[EncSlot], a, len)
           seg == sbuf_stack[EncSlot].segs[n]
<1>1. acts # <<>> /\ mem \in [Addr -> Val] /\ sbuf_stack \in [0 .. SbufDepth - 1 -> Sbuf]
  BY DEF TypeOK, Encrypting
<1>2. EncSlot \in 0 .. SbufDepth - 1 /\ sbuf_stack[EncSlot] \in Sbuf
  BY SlotType DEF Encrypting
<1>3. /\ n \in DOMAIN sbuf_stack[EncSlot].segs /\ n \in Nat \ {0} /\ seg \in Segment
      /\ a \in Int /\ Span(a, len) \subseteq Cells(seg) /\ Holds(seg, a, len)
  BY <1>2, FindIsFound DEF InBuf
<1>4. EncSlot \in 0 .. sbuf_stack_top - 1 /\ EncSlot + 1 = Len(call_stack)
  BY <1>2, SlotType DEF EncSlot, TypeOK
<1>5. call_stack[Len(call_stack)].rbp \in Addr /\ call_stack[Len(call_stack)].rsp \in Nat
  <2>1. Len(call_stack) \in DOMAIN call_stack
    BY <1>4, <1>2 DEF TypeOK
  <2> QED
    BY <2>1, RecordType
<1>6. call_stack[Len(call_stack)].rsp <= seg.start
      /\ seg.start + seg.len <= call_stack[Len(call_stack)].rbp
  BY <1>3, <1>4 DEF Slots, Within
<1>7. Cells(seg) \subseteq Addr /\ a \in Addr
  <2> HIDE DEF n, seg
  <2>1. seg.start \in Nat /\ seg.len \in Nat
    BY <1>3, MemoryAssumption DEF Segment, Addr
  <2>2. seg.start + seg.len <= MaxAddr /\ MaxAddr \in Nat
    <3> DEFINE rbp == call_stack[Len(call_stack)].rbp
    <3>1. rbp \in Nat /\ rbp <= MaxAddr /\ MaxAddr \in Nat /\ seg.start + seg.len <= rbp
      BY <1>5, <1>6, MemoryAssumption DEF Addr
    <3> HIDE DEF rbp
    <3> QED
      BY <2>1, <3>1
  <2>3. a \in Addr
    BY <1>3, <2>1, <2>2 DEF Holds, Addr
  <2> QED
    BY <2>1, <2>2, <2>3 DEF Cells, Span, Addr
<1>9. mem' \in [Addr -> Val]
  BY <1>1, <1>3, WritesTyped DEF GiveBack
<1>10. list_add_tail(sbuf_stack[EncSlot], n, a, len) \in Sbuf
  BY <1>7, <1>3, AddedHole
<1>11. sbuf_stack' \in [0 .. SbufDepth - 1 -> Sbuf]
  BY <1>1, <1>2, <1>10 DEF GiveBack
<1> QED
  BY <1>3, <1>7, <1>9, <1>11

(* A parameter's length is a number. *)
LEMMA ContainsType ==
    ASSUME TypeOK, acts # <<>>
    PROVE  contains(i, Top.plist) \in Nat
<1> DEFINE plt == Top.plist
           at == { n \in DOMAIN plt : plt[n].addr = i }
           n == CHOOSE m \in at : \A o \in at : m <= o
<1>1. plt \in Seq(Para)
  BY TopType DEF Activation
<1>2. ASSUME at # {} PROVE n \in DOMAIN plt
  <2>1. at \subseteq Nat
    BY <1>1
  <2>2. n \in at
    BY <1>2, <2>1, LeastNatural
  <2> QED
    BY <2>2
<1>3. ASSUME at # {} PROVE plt[n].size \in Nat
  <2> HIDE DEF n, plt
  <2>1. n \in DOMAIN plt
    BY <1>2, <1>3
  <2>2. plt[n] \in Para
    BY <1>1, <2>1
  <2> QED
    BY <2>2 DEF Para
<1> QED
  BY <1>3 DEF contains

(* The entry that restore_pointers is at is one of the list's. *)
LEMMA EntryType ==
    ASSUME TypeOK, Programs, AtEntry \/ Chasing
    PROVE  acts # <<>> /\ Encrypting /\ k \in 1 .. Len(Top.plist) /\ Top.plist[k] \in Para
<1>1. acts # <<>> /\ Encrypting /\ k \in Nat
  BY DEF TypeOK, AtEntry, Chasing, Encrypting
<1>2. Top.plist \in Seq(Para)
  BY <1>1, TopType DEF Activation
<1>3. k \in 1 .. Len(Top.plist)
  BY <1>1, <1>2 DEF AtEntry, Chasing, Programs, HandlerFrame, Encrypting
<1> QED
  BY <1>1, <1>2, <1>3

(* Popping call_stack[] leaves the records below. *)
LEMMA PopType ==
    ASSUME TypeOK, call_stack # <<>>
    PROVE  LET c == SubSeq(call_stack, 1, Len(call_stack) - 1)
           IN  /\ c \in Seq(CsItem) /\ Len(c) = Len(call_stack) - 1
               /\ \A n \in DOMAIN c : n \in DOMAIN call_stack /\ n < Len(call_stack) /\ c[n] = call_stack[n]
<1>1. call_stack \in Seq(CsItem) /\ Len(call_stack) \in Nat \ {0}
  BY DEF TypeOK
<1> DEFINE c == SubSeq(call_stack, 1, Len(call_stack) - 1)
<1>2. \A n \in 1 .. Len(call_stack) - 1 : call_stack[n] \in CsItem
  BY <1>1
<1>3. /\ c \in Seq(CsItem)
      /\ Len(c) = IF 1 <= Len(call_stack) - 1 THEN Len(call_stack) - 1 - 1 + 1 ELSE 0
      /\ \A n \in 1 .. Len(call_stack) - 1 - 1 + 1 : c[n] = call_stack[1 + n - 1]
  BY <1>1, <1>2, SubSeqProperties
<1> HIDE DEF c
<1>4. Len(c) = Len(call_stack) - 1 /\ DOMAIN c = 1 .. Len(call_stack) - 1
  <2>1. PICK l \in Nat \ {0} : l = Len(call_stack)
    BY <1>1
  <2>2. Len(c) = IF 1 <= l - 1 THEN l - 1 - 1 + 1 ELSE 0
    BY <1>3, <2>1
  <2>3. Len(c) = l - 1
    BY <2>2
  <2> QED
    BY <1>3, <2>1, <2>3
<1>5. \A n \in DOMAIN c : n \in DOMAIN call_stack /\ n < Len(call_stack) /\ c[n] = call_stack[n]
  BY <1>1, <1>3, <1>4
<1> QED
  BY <1>3, <1>4, <1>5 DEF c

(* Every step keeps the types. *)
LEMMA TypeStep == IInv /\ [Next]_vars => TypeOK'
<1> SUFFICES ASSUME IInv, [Next]_vars PROVE TypeOK'
  OBVIOUS
<1>0. TypeOK /\ Programs /\ Slots
  BY DEF IInv
<1> USE <1>0
<1>1. ASSUME NEW s \in Sites, Call(s) PROVE TypeOK'
  <2> DEFINE t == [func |-> s.func, sp |-> s.sp, rbp |-> s.rbp,
                   want |-> s.plist, plist |-> s.plist, enc |-> FALSE]
  <2>1. t \in Activation
    BY SiteAssumption DEF Activation
  <2>2. acts' = Append(acts, t)
    BY <1>1 DEF Call
  <2>3. acts' \in Seq(Activation) /\ acts' # <<>>
    BY <2>1, <2>2, AppendProperties DEF TypeOK
  <2> QED
    BY <1>1, <2>3 DEF Call, TypeOK, kernel, locals, Running
<1>2. CASE Return
  <2>1. acts' \in Seq(Activation)
    BY <1>2 DEF Return, TypeOK
  <2> QED
    BY <1>2, <2>1 DEF Return, TypeOK, kernel, locals, Running
<1>3. ASSUME NEW w \in Stores, Store(w[1], w[2]) PROVE TypeOK'
  <2>1. mem' \in [Addr -> Val]
    BY <1>3, ParameterAssumption DEF Store, TypeOK, Val
  <2> QED
    BY <1>3, <2>1 DEF Store, TypeOK, kernel, locals, Running
<1>4. CASE EncryptRefused
  <2>1. acts' \in Seq(Activation) /\ acts # <<>>
    BY <1>4, ActivationUpdates, SetTopOnly DEF EncryptRefused
  <2>2. init' \in {0, 1} /\ mapper' \subseteq {s.func : s \in Sites}
    BY <1>4, MapperType DEF EncryptRefused
  <2> QED
    BY <1>4, <2>1, <2>2 DEF EncryptRefused, TypeOK, locals, Running
<1>5. CASE EncryptEnter
  <2> DEFINE rec == [func |-> Top.func, rsp |-> user_rsp, rbp |-> user_rbp]
  <2>1. acts' \in Seq(Activation) /\ acts # <<>> /\ acts' # <<>>
    <3>1. acts # <<>> /\ SetTop(Requested)
      BY <1>5 DEF EncryptEnter
    <3>2. Len(acts') = Len(acts) /\ acts' \in Seq(Activation) /\ Len(acts) \in Nat \ {0}
      BY <3>1, ActivationUpdates, SetTopOnly, TopType
    <3> QED
      BY <3>1, <3>2
  <2>2. init' \in {0, 1} /\ mapper' \subseteq {s.func : s \in Sites}
    BY <1>5, MapperType DEF EncryptEnter
  <2>3. rec \in CsItem
    BY <2>1, TopType, FrameType DEF CsItem, Activation
  <2>4. call_stack' \in Seq(CsItem) /\ Len(call_stack') = Len(call_stack) + 1
    BY <1>5, <2>3, AppendProperties DEF EncryptEnter, TypeOK
  <2>5. user_rsp \in Nat
    BY <2>1, FrameType
  <2>6. sbuf_stack_top' \in 0 .. SbufDepth /\ sbuf_stack_top' > 0 /\ sbuf_stack_top' = Len(call_stack')
    BY <1>5, <2>4, ParameterAssumption DEF EncryptEnter, TypeOK
  <2> QED
    BY <1>5, <2>1, <2>2, <2>4, <2>5, <2>6 DEF EncryptEnter, TypeOK, Running
<1>6. CASE EncryptOverflow
  <2>1. init' \in {0, 1} /\ mapper' \subseteq {s.func : s \in Sites}
    BY <1>6, MapperType DEF EncryptOverflow
  <2> QED
    BY <1>6, <2>1 DEF EncryptOverflow, TypeOK, locals, Running, Faults
<1>7. CASE ScanParameter
  <2>1. mem' \in [Addr -> Val] /\ sbuf_stack' \in [0 .. SbufDepth - 1 -> Sbuf]
    BY <1>7, TakeOffType DEF ScanParameter, Scanning
  <2>2. contains(i, Top.plist) \in Nat
    BY <1>7, ContainsType DEF ScanParameter, Scanning, TypeOK
  <2> QED
    BY <1>7, <2>1, <2>2 DEF ScanParameter, Scanning, TypeOK
<1>8. CASE ScanLast
  <2>1. mem' \in [Addr -> Val] /\ sbuf_stack' \in [0 .. SbufDepth - 1 -> Sbuf]
    BY <1>8, TakeOffType DEF ScanLast, Scanning
  <2> QED
    BY <1>8, <2>1 DEF ScanLast, Scanning, TypeOK
<1>9. CASE ScanCell
  BY <1>9 DEF ScanCell, Scanning, TypeOK, kernel
<1>10. CASE ScanDone
  BY <1>10 DEF ScanDone, TypeOK, kernel
<1>11. CASE PassByValue
  BY <1>11 DEF PassByValue, AtEntry, TypeOK, kernel
<1>12. CASE PassPointer
  <2>1. /\ acts # <<>> /\ Encrypting /\ k \in 1 .. Len(Top.plist)
        /\ Top.plist[k] \in Para /\ Top.plist[k].pointer # 0
    BY <1>12, EntryType DEF PassPointer, AtEntry
  <2>2. Below(Top.plist[k].pointer) \in CInt
    BY <2>1, BelowType DEF Para
  <2>3. acts' \in Seq(Activation) /\ Len(acts') = Len(acts)
    BY <1>12, <2>1, <2>2, LevelUpdate, SetTopOnly DEF PassPointer, SetLevels
  <2>4. /\ mem' \in [Addr -> Val] /\ sbuf_stack' \in [0 .. SbufDepth - 1 -> Sbuf]
        /\ mem'[Top.plist[k].addr] \in Val
    BY <1>12, <2>1, GiveBackType DEF PassPointer
  <2>5. acts' # <<>>
    BY <2>1, <2>3, TopType
  <2> QED
    BY <1>12, <2>1, <2>3, <2>4, <2>5 DEF PassPointer, AtEntry, TypeOK
<1>13. CASE PassPointerStale
  <2>1. /\ acts # <<>> /\ Encrypting /\ k \in 1 .. Len(Top.plist)
        /\ Top.plist[k] \in Para /\ Top.plist[k].pointer # 0
    BY <1>13, EntryType DEF PassPointerStale
  <2>2. Below(Top.plist[k].pointer) \in CInt
    BY <2>1, BelowType DEF Para
  <2>3. acts' \in Seq(Activation) /\ Len(acts') = Len(acts)
    BY <1>13, <2>1, <2>2, LevelUpdate, SetTopOnly DEF PassPointerStale, SetLevels
  <2>4. acts' # <<>>
    BY <2>1, <2>3, TopType
  <2> QED
    BY <1>13, <2>3, <2>4 DEF PassPointerStale, AtEntry, TypeOK, kernel, locals, Faults
<1>14. CASE PassPointerMissing
  <2>1. /\ acts # <<>> /\ Encrypting /\ k \in 1 .. Len(Top.plist)
        /\ Top.plist[k] \in Para /\ Top.plist[k].pointer # 0
    BY <1>14, EntryType DEF PassPointerMissing
  <2>2. Below(Top.plist[k].pointer) \in CInt
    BY <2>1, BelowType DEF Para
  <2>3. acts' \in Seq(Activation) /\ Len(acts') = Len(acts)
    BY <1>14, <2>1, <2>2, LevelUpdate, SetTopOnly DEF PassPointerMissing, SetLevels
  <2>4. acts' # <<>> /\ Len(Top.plist) + 1 \in Nat
    BY <2>1, <2>3, TopType DEF Activation
  <2> QED
    BY <1>14, <2>3, <2>4 DEF PassPointerMissing, AtEntry, TypeOK, kernel
<1>15. CASE FollowPointer
  <2>1. /\ acts # <<>> /\ Encrypting /\ k \in 1 .. Len(Top.plist) /\ Top.plist[k] \in Para
    BY <1>15, EntryType DEF FollowPointer
  <2>2. Below(Top.plist[k].pointer) \in CInt
    BY <2>1, BelowType DEF Para
  <2>3. acts' \in Seq(Activation) /\ Len(acts') = Len(acts)
    BY <1>15, <2>1, <2>2, LevelUpdate, SetTopOnly DEF FollowPointer, SetLevels
  <2>4. /\ mem' \in [Addr -> Val] /\ sbuf_stack' \in [0 .. SbufDepth - 1 -> Sbuf]
        /\ mem'[addr_in_stack] \in Val
    BY <1>15, <2>1, GiveBackType DEF FollowPointer
  <2>5. acts' # <<>>
    BY <2>1, <2>3, TopType
  <2> QED
    BY <1>15, <2>1, <2>3, <2>4, <2>5 DEF FollowPointer, Chasing, TypeOK
<1>16. CASE FollowPointerMissing
  BY <1>16 DEF FollowPointerMissing, Chasing, TypeOK, kernel, locals, Faults
<1>17. CASE PassObject
  <2>1. /\ acts # <<>> /\ Encrypting /\ k \in 1 .. Len(Top.plist) /\ Top.plist[k] \in Para
    BY <1>17, EntryType DEF PassObject
  <2>2. mem' \in [Addr -> Val] /\ sbuf_stack' \in [0 .. SbufDepth - 1 -> Sbuf]
    <3>1. Top.plist[k].size \in Nat
      BY <2>1 DEF Para
    <3>2. CASE InBuf(addr_in_stack, Top.plist[k].size)
      BY <1>17, <2>1, <3>1, <3>2, GiveBackType DEF PassObject
    <3>3. CASE ~InBuf(addr_in_stack, Top.plist[k].size)
      BY <1>17, <3>3 DEF PassObject, TypeOK
    <3> QED
      BY <3>2, <3>3
  <2> QED
    BY <1>17, <2>2 DEF PassObject, Chasing, TypeOK
<1>18. CASE EncryptReturn
  BY <1>18 DEF EncryptReturn, TypeOK, kernel, locals
<1>19. CASE DecryptNoMapper
  BY <1>19 DEF DecryptNoMapper, Asks, TypeOK, kernel, locals, Faults
<1>20. CASE DecryptRefused
  <2>1. acts' \in Seq(Activation) /\ acts # <<>>
    BY <1>20, ActivationUpdates, SetTopOnly DEF DecryptRefused, Asks
  <2> QED
    BY <1>20, <2>1 DEF DecryptRefused, Asks, Running, TypeOK, kernel, locals
<1>21. CASE DecryptNoName
  BY <1>21 DEF DecryptNoName, Asks, TypeOK, kernel, locals, Faults
<1>22. CASE DecryptEnter
  <2>1. call_stack' \in Seq(CsItem) /\ Len(call_stack') = Len(call_stack) - 1
    BY <1>22, PopType DEF DecryptEnter, TypeOK
  <2>2. sbuf_stack_top' \in 0 .. SbufDepth /\ sbuf_stack_top' < SbufDepth
        /\ sbuf_stack_top' = Len(call_stack')
    BY <1>22, <2>1, ParameterAssumption DEF DecryptEnter, TypeOK
  <2>3. fault' \in Faults
    BY <1>22 DEF DecryptEnter, TypeOK, Faults
  <2> QED
    BY <1>22, <2>1, <2>2, <2>3 DEF DecryptEnter, Asks, TypeOK
<1>23. CASE RestoreSegment
  <2>1. mem' \in [Addr -> Val]
    <3>1. sbuf_stack[DecSlot] \in Sbuf /\ k \in Nat /\ k >= 1 /\ mem \in [Addr -> Val]
      BY <1>23, SlotType DEF RestoreSegment, AtSegment, TypeOK, Programs, HandlerFrame
    <3>2. k \in DOMAIN sbuf_stack[DecSlot].segs
      BY <1>23, <3>1 DEF RestoreSegment, AtSegment, Sbuf
    <3> QED
      BY <1>23, <3>1, <3>2, RestoreTyped DEF RestoreSegment
  <2> QED
    BY <1>23, <2>1 DEF RestoreSegment, AtSegment, TypeOK, kernel
<1>24. CASE RestoreUndefined
  BY <1>24 DEF RestoreUndefined, AtSegment, TypeOK, kernel, locals, Faults
<1>25. CASE DecryptReturn
  <2>1. acts # <<>> /\ pc = "restore"
    BY <1>25 DEF DecryptReturn, TypeOK
  <2>2. acts' \in Seq(Activation)
    BY <1>25, <2>1, ActivationUpdates, SetTopOnly DEF DecryptReturn
  <2>3. sbuf_stack' \in [0 .. SbufDepth - 1 -> Sbuf]
    <3>1. DecSlot \in 0 .. SbufDepth - 1 /\ sbuf_stack[DecSlot] \in Sbuf
      BY <2>1, SlotType
    <3>2. [sbuf_stack[DecSlot] EXCEPT !.segs = <<>>] \in Sbuf
      <4>1. <<>> \in Seq(Segment)
        OBVIOUS
      <4> QED
        BY <3>1, <4>1 DEF Sbuf
    <3>3. sbuf_stack' = [sbuf_stack EXCEPT ![DecSlot] = [sbuf_stack[DecSlot] EXCEPT !.segs = <<>>]]
      BY <1>25, <3>1 DEF DecryptReturn, TypeOK
    <3> QED
      BY <3>1, <3>2, <3>3 DEF TypeOK
  <2> QED
    BY <1>25, <2>2, <2>3 DEF DecryptReturn, TypeOK, locals
<1>26. CASE Halted \/ UNCHANGED vars
  BY <1>26 DEF Halted, vars, TypeOK
<1> QED
  BY <1>1, <1>2, <1>3, <1>4, <1>5, <1>6, <1>7, <1>8, <1>9, <1>10, <1>11, <1>12, <1>13, <1>14,
     <1>15, <1>16, <1>17, <1>18, <1>19, <1>20, <1>21, <1>22, <1>23, <1>24, <1>25, <1>26
  DEF Next, Encrypt, EncryptStep, Decrypt, DecryptStep
-----------------------------------------------------------------------------
(* Where the frames are *)

(* The numbers behind the ordering facts. *)
LEMMA ActsType ==
    ASSUME TypeOK, NEW m \in DOMAIN acts
    PROVE  /\ acts[m] \in Activation /\ acts[m].sp \in Nat /\ acts[m].rbp \in Nat
           /\ acts[m].enc \in BOOLEAN
           /\ DOMAIN acts = 1 .. Len(acts) /\ m \in Nat /\ Len(acts) \in Nat
<1>1. acts \in Seq(Activation)
  BY DEF TypeOK
<1>2. acts[m] \in Activation
  BY <1>1
<1> QED
  BY <1>1, <1>2, MemoryAssumption, SMTT(30) DEF Activation, Addr

(* A record lies in or above the innermost function's frame, and above it if that *)
(* function is not its owner.                                                     *)
LEMMA RecordsAbove ==
    ASSUME TypeOK, Programs, acts # <<>>, NEW n \in DOMAIN call_stack
    PROVE  /\ call_stack[n].rbp >= Top.rbp
           /\ ~Top.enc => call_stack[n].rsp > Top.rbp
<1>1. PICK m \in DOMAIN acts : Owner(call_stack[n], m)
  BY DEF Programs, RecordsOwned
<1>2. Len(acts) \in DOMAIN acts /\ m \in 1 .. Len(acts)
  BY TopType, ActsType
<1>3. /\ acts[m].sp \in Nat /\ acts[m].rbp \in Nat /\ acts[m].sp <= acts[m].rbp
      /\ Top.rbp \in Nat /\ Top = acts[Len(acts)]
  BY <1>2, ActsType DEF Programs, ActsOrdered, Top
<1>4. CASE m = Len(acts)
  BY <1>1, <1>3, <1>4 DEF Owner
<1>5. CASE m < Len(acts)
  <2>1. Top.rbp < acts[m].sp
    BY <1>2, <1>3, <1>5 DEF Programs, ActsOrdered
  <2> QED
    BY <1>1, <1>3, <2>1, ParameterAssumption DEF Owner
<1> QED
  BY <1>2, <1>4, <1>5

(* A handler that writes the innermost activation back leaves every frame in place. *)
LEMMA SameFrames ==
    ASSUME TypeOK, Programs, acts # <<>>, NEW t \in Activation, SetTop(t),
           t.sp = Top.sp, t.rbp = Top.rbp
    PROVE  /\ DOMAIN acts' = DOMAIN acts /\ Len(acts') = Len(acts) /\ Top' = t
           /\ ActsOrdered'
           /\ \A m \in DOMAIN acts : acts'[m].sp = acts[m].sp /\ acts'[m].rbp = acts[m].rbp
           /\ \A m \in DOMAIN acts : m # Len(acts) => acts'[m].enc = acts[m].enc
<1>1. /\ acts' \in Seq(Activation) /\ Len(acts') = Len(acts) /\ acts'[Len(acts)] = t
      /\ \A m \in DOMAIN acts : m # Len(acts) => acts'[m] = acts[m]
  BY SetTopOnly
<1>2. DOMAIN acts' = DOMAIN acts /\ Top' = t
  BY <1>1 DEF Top, TypeOK
<1>3. \A m \in DOMAIN acts : acts'[m].sp = acts[m].sp /\ acts'[m].rbp = acts[m].rbp
  BY <1>1 DEF Top
<1>4. ActsOrdered'
  BY <1>2, <1>3 DEF Programs, ActsOrdered
<1> QED
  BY <1>1, <1>2, <1>3, <1>4

(* It keeps the owners as well unless it clears the activation's flag. *)
LEMMA SameOwners ==
    ASSUME TypeOK, Programs, acts # <<>>, NEW t \in Activation, SetTop(t),
           t.sp = Top.sp, t.rbp = Top.rbp, Top.enc => t.enc,
           UNCHANGED call_stack
    PROVE  /\ RecordsOwned' /\ RecordsOrdered'
           /\ \A n \in DOMAIN call_stack, m \in DOMAIN acts :
                 Owner(call_stack[n], m) => Owner(call_stack[n], m)'
<1>1. /\ DOMAIN acts' = DOMAIN acts /\ Top' = t /\ Len(acts') = Len(acts)
      /\ \A m \in DOMAIN acts : acts'[m].sp = acts[m].sp /\ acts'[m].rbp = acts[m].rbp
      /\ \A m \in DOMAIN acts : m # Len(acts) => acts'[m].enc = acts[m].enc
  BY SameFrames
<1>2. \A m \in DOMAIN acts : acts[m].enc => acts'[m].enc
  BY <1>1 DEF Top
<1>3. \A n \in DOMAIN call_stack, m \in DOMAIN acts :
         Owner(call_stack[n], m) => Owner(call_stack[n], m)'
  BY <1>1, <1>2 DEF Owner
<1>4. RecordsOwned'
  BY <1>1, <1>3 DEF Programs, RecordsOwned
<1>5. RecordsOrdered'
  BY DEF Programs, RecordsOrdered
<1> QED
  BY <1>3, <1>4, <1>5

(* The walk over the pointers keeps the asking function's place in both stacks. *)
LEMMA LevelsKeepPlace ==
    ASSUME TypeOK, TypeOK', Programs, Encrypting, k \in 1 .. Len(Top.plist), Top.plist[k] \in Para,
           Top.plist[k].pointer # 0, SetLevels(Below(Top.plist[k].pointer)), UNCHANGED call_stack
    PROVE  /\ ActsOrdered' /\ RecordsOwned' /\ RecordsOrdered'
           /\ Owner(call_stack[Len(call_stack)], Len(acts))'
           /\ Len(Top'.plist) = Len(Top.plist) /\ Len(acts') = Len(acts)
           /\ Top'.sp = Top.sp /\ Top'.rbp = Top.rbp
<1> DEFINE t == [Top EXCEPT !.plist[k].pointer = Below(Top.plist[k].pointer)]
<1>1. acts # <<>> /\ Below(Top.plist[k].pointer) \in CInt
  <2>1. acts # <<>>
    BY DEF TypeOK, Encrypting
  <2>2. Below(Top.plist[k].pointer) \in CInt
    BY BelowType DEF Para
  <2> QED
    BY <2>1, <2>2
<1>2. /\ t \in Activation /\ t.sp = Top.sp /\ t.rbp = Top.rbp /\ t.enc = Top.enc
      /\ Len(t.plist) = Len(Top.plist)
  BY <1>1, LevelUpdate
<1>3. SetTop(t)
  BY DEF SetLevels
<1> HIDE DEF t
<1>4. ActsOrdered' /\ Len(acts') = Len(acts) /\ Top' = t
  BY <1>1, <1>2, <1>3, SameFrames
<1>5. /\ RecordsOwned' /\ RecordsOrdered'
      /\ \A n \in DOMAIN call_stack, m \in DOMAIN acts :
            Owner(call_stack[n], m) => Owner(call_stack[n], m)'
  BY <1>1, <1>2, <1>3, SameOwners
<1>6. Len(acts) \in DOMAIN acts /\ Len(call_stack) \in DOMAIN call_stack
  BY <1>1, TopType DEF TypeOK, Encrypting
<1>7. Owner(call_stack[Len(call_stack)], Len(acts))
  BY DEF Programs, HandlerFrame
<1>8. Owner(call_stack[Len(call_stack)], Len(acts))'
  BY <1>4, <1>5, <1>6, <1>7 DEF Owner
<1> QED
  BY <1>2, <1>4, <1>5, <1>8

(* Every step keeps the frames and the records in order. *)
LEMMA ProgramsStep == IInv /\ [Next]_vars => Programs'
<1> SUFFICES ASSUME IInv, [Next]_vars PROVE Programs'
  OBVIOUS
<1>0. TypeOK /\ Programs /\ Slots /\ TypeOK'
  BY TypeStep DEF IInv
<1> USE <1>0
<1>a. ASSUME UNCHANGED <<acts, call_stack>>
      PROVE  /\ ActsOrdered' /\ RecordsOwned' /\ RecordsOrdered' /\ Top' = Top
             /\ Encrypting => Owner(call_stack[Len(call_stack)], Len(acts))'
  BY <1>a DEF Programs, ActsOrdered, RecordsOwned, RecordsOrdered, HandlerFrame, Owner, Top
<1>1. ASSUME NEW s \in Sites, Call(s) PROVE Programs'
  <2> DEFINE t == [func |-> s.func, sp |-> s.sp, rbp |-> s.rbp,
                   want |-> s.plist, plist |-> s.plist, enc |-> FALSE]
  <2>1. /\ acts' = Append(acts, t) /\ pc' = "user" /\ UNCHANGED call_stack
        /\ acts # <<>> => s.rbp < Top.sp
    BY <1>1 DEF Call, Running, kernel
  <2>2. s.sp \in Nat /\ s.rbp \in Nat /\ s.sp <= s.rbp /\ t \in Activation
    BY SiteAssumption, MemoryAssumption DEF Addr, Activation
  <2>3. /\ Len(acts') = Len(acts) + 1 /\ DOMAIN acts' = 1 .. Len(acts) + 1
        /\ acts'[Len(acts) + 1] = t
        /\ \A m \in 1 .. Len(acts) : acts'[m] = acts[m]
        /\ DOMAIN acts = 1 .. Len(acts) /\ Len(acts) \in Nat
    BY <2>1, <2>2, AppendProperties DEF TypeOK
  <2>4. \A m \in DOMAIN acts : s.rbp < acts[m].sp
    <3> SUFFICES ASSUME NEW m \in DOMAIN acts PROVE s.rbp < acts[m].sp
      OBVIOUS
    <3>1. acts # <<>> /\ Len(acts) \in DOMAIN acts
      BY <2>3
    <3>2. s.rbp < Top.sp /\ Top.sp \in Nat /\ Top.rbp \in Nat /\ Top.sp <= Top.rbp /\ acts[m].sp \in Nat
      BY <2>1, <3>1, ActsType DEF Top, Programs, ActsOrdered
    <3>3. CASE m = Len(acts)
      BY <3>2, <3>3 DEF Top
    <3>4. CASE m < Len(acts)
      <4>1. Top.rbp < acts[m].sp
        BY <3>1, <3>4 DEF Top, Programs, ActsOrdered
      <4> QED
        BY <2>2, <3>2, <4>1
    <3> QED
      BY <2>3, <3>3, <3>4
  <2>5. ActsOrdered'
    <3>1. \A m \in DOMAIN acts' : acts'[m].sp <= acts'[m].rbp
      BY <2>2, <2>3 DEF Programs, ActsOrdered
    <3>2. ASSUME NEW m \in DOMAIN acts', NEW n \in DOMAIN acts', m < n
          PROVE  acts'[n].rbp < acts'[m].sp
      <4>1. CASE n = Len(acts) + 1
        BY <2>3, <2>4, <3>2, <4>1
      <4>2. CASE n # Len(acts) + 1
        BY <2>3, <3>2, <4>2 DEF Programs, ActsOrdered
      <4> QED
        BY <4>1, <4>2
    <3> QED
      BY <3>1, <3>2 DEF ActsOrdered
  <2>6. RecordsOwned'
    BY <2>1, <2>3 DEF Programs, RecordsOwned, Owner
  <2> QED
    BY <2>1, <2>5, <2>6 DEF Programs, RecordsOrdered, HandlerFrame, Encrypting
<1>2. CASE Return
  <2>1. /\ acts # <<>> /\ ~Top.enc /\ acts' = SubSeq(acts, 1, Len(acts) - 1)
        /\ pc' = "user" /\ UNCHANGED call_stack
    BY <1>2 DEF Return, Running, kernel
  <2>2. Len(acts) \in Nat \ {0} /\ DOMAIN acts = 1 .. Len(acts)
    BY <2>1 DEF TypeOK
  <2>3. DOMAIN acts' = 1 .. Len(acts) - 1 /\ \A m \in 1 .. Len(acts) - 1 : acts'[m] = acts[m]
    BY <2>1, <2>2 DEF TypeOK
  <2>4. ActsOrdered'
    BY <2>2, <2>3 DEF Programs, ActsOrdered
  <2>5. RecordsOwned'
    <3> SUFFICES ASSUME NEW n \in DOMAIN call_stack
                 PROVE  /\ call_stack[n].rsp <= call_stack[n].rbp
                        /\ \E m \in DOMAIN acts' : Owner(call_stack[n], m)'
      BY <2>1 DEF RecordsOwned, Owner
    <3>1. PICK m \in DOMAIN acts : Owner(call_stack[n], m)
      BY DEF Programs, RecordsOwned
    <3>2. m # Len(acts)
      BY <2>1, <3>1 DEF Owner, Top
    <3>3. m \in DOMAIN acts' /\ acts'[m] = acts[m]
      BY <2>2, <2>3, <3>2
    <3> QED
      BY <2>1, <3>1, <3>3 DEF Programs, RecordsOwned, Owner
  <2> QED
    BY <2>1, <2>4, <2>5 DEF Programs, RecordsOrdered, HandlerFrame, Encrypting
<1>3. ASSUME NEW w \in Stores, Store(w[1], w[2]) PROVE Programs'
  BY <1>3, <1>a DEF Store, Running, kernel, Programs, HandlerFrame, Encrypting
<1>4. CASE EncryptRefused
  <2>1. /\ acts # <<>> /\ SetTop(Requested) /\ UNCHANGED call_stack /\ pc' = "user"
    BY <1>4 DEF EncryptRefused, Running
  <2>2. ActsOrdered' /\ RecordsOwned' /\ RecordsOrdered'
    BY <2>1, ActivationUpdates, SameFrames, SameOwners
  <2> QED
    BY <2>1, <2>2 DEF Programs, HandlerFrame, Encrypting
<1>5. CASE EncryptEnter
  <2> DEFINE rec == [func |-> Top.func, rsp |-> user_rsp, rbp |-> user_rbp]
  <2>1. /\ acts # <<>> /\ ~Top.enc /\ SetTop(Requested) /\ pc' = "scan" /\ UNCHANGED k
        /\ call_stack' = Append(call_stack, rec) /\ user_rsp <= user_rbp
    BY <1>5, FrameType DEF EncryptEnter, Running, Refused
  <2>2. /\ DOMAIN acts' = DOMAIN acts /\ Len(acts') = Len(acts) /\ Top' = Requested
        /\ ActsOrdered'
        /\ \A m \in DOMAIN acts : acts'[m].sp = acts[m].sp /\ acts'[m].rbp = acts[m].rbp
        /\ \A m \in DOMAIN acts : m # Len(acts) => acts'[m].enc = acts[m].enc
    BY <2>1, ActivationUpdates, SameFrames
  <2>3. Requested.enc /\ Requested.sp = Top.sp /\ Requested.rbp = Top.rbp
    BY <2>1, ActivationUpdates
  <2>4. rec \in CsItem
    BY <2>1, TopType, FrameType DEF CsItem, Activation
  <2>5. /\ Len(call_stack') = Len(call_stack) + 1 /\ DOMAIN call_stack' = 1 .. Len(call_stack) + 1
        /\ call_stack'[Len(call_stack) + 1] = rec
        /\ \A n \in 1 .. Len(call_stack) : call_stack'[n] = call_stack[n]
        /\ DOMAIN call_stack = 1 .. Len(call_stack) /\ Len(call_stack) \in Nat
    BY <2>1, <2>4, AppendProperties DEF TypeOK
  <2>6. Len(acts) \in DOMAIN acts
    BY <2>1, TopType
  <2>8. Owner(call_stack[Len(call_stack)], Len(acts))'
    BY <2>2, <2>3, <2>5 DEF Owner, user_rsp, user_rbp, Top
  <2>9. RecordsOwned'
    <3> SUFFICES ASSUME NEW n \in DOMAIN call_stack'
                 PROVE  /\ call_stack'[n].rsp <= call_stack'[n].rbp
                        /\ \E m \in DOMAIN acts' : Owner(call_stack[n], m)'
      BY DEF RecordsOwned
    <3>1. CASE n = Len(call_stack) + 1
      <4>1. call_stack'[n].rsp <= call_stack'[n].rbp
        BY <2>1, <2>5, <3>1
      <4>2. Owner(call_stack[n], Len(acts))'
        BY <2>2, <2>5, <2>8, <3>1 DEF Owner
      <4> QED
        BY <2>2, <2>6, <4>1, <4>2
    <3>2. CASE n # Len(call_stack) + 1
      <4>1. n \in DOMAIN call_stack /\ call_stack'[n] = call_stack[n]
        BY <2>5, <3>2
      <4>2. PICK m \in DOMAIN acts : Owner(call_stack[n], m)
        BY <4>1 DEF Programs, RecordsOwned
      <4>3. m # Len(acts)
        BY <2>1, <4>2 DEF Owner, Top
      <4>4. Owner(call_stack[n], m)'
        BY <2>2, <4>1, <4>2, <4>3 DEF Owner
      <4> QED
        BY <2>2, <4>1, <4>4 DEF Programs, RecordsOwned
    <3> QED
      BY <3>1, <3>2
  <2>10. RecordsOrdered'
    <3> SUFFICES ASSUME NEW m \in DOMAIN call_stack', NEW n \in DOMAIN call_stack', m < n
                 PROVE  call_stack'[n].rbp < call_stack'[m].rsp
      BY DEF RecordsOrdered
    <3>1. CASE n = Len(call_stack) + 1
      <4>1. m \in DOMAIN call_stack /\ call_stack'[m] = call_stack[m]
        BY <2>5, <3>1
      <4>2. call_stack[m].rsp > Top.rbp /\ call_stack[m].rsp \in Nat /\ Top.rbp \in Nat
        BY <2>1, <4>1, RecordsAbove, RecordType, FrameType DEF user_rbp
      <4> QED
        BY <2>5, <3>1, <4>1, <4>2 DEF user_rbp
    <3>2. CASE n # Len(call_stack) + 1
      BY <2>5, <3>2 DEF Programs, RecordsOrdered
    <3> QED
      BY <3>1, <3>2
  <2> QED
    BY <2>1, <2>2, <2>8, <2>9, <2>10 DEF Programs, HandlerFrame, Encrypting, TypeOK
<1>6. CASE EncryptOverflow
  BY <1>6, <1>a DEF EncryptOverflow, Running, locals, Programs, HandlerFrame, Encrypting
<1>7. CASE ScanParameter \/ ScanLast \/ ScanCell
  BY <1>7, <1>a DEF ScanParameter, ScanLast, ScanCell, Scanning, kernel, Programs, HandlerFrame, Encrypting
<1>8. CASE ScanDone
  BY <1>8, <1>a DEF ScanDone, kernel, Programs, HandlerFrame, Encrypting
<1>9. CASE PassByValue
  <2>1. k \in 1 .. Len(Top.plist)
    BY <1>9, EntryType DEF PassByValue
  <2> QED
    BY <1>9, <1>a, <2>1 DEF PassByValue, AtEntry, kernel, Programs, HandlerFrame, Encrypting
<1>10. CASE PassPointer \/ PassPointerStale \/ PassPointerMissing
  <2>1. /\ k \in 1 .. Len(Top.plist) /\ Top.plist[k] \in Para /\ Top.plist[k].pointer # 0
        /\ Encrypting /\ SetLevels(Below(Top.plist[k].pointer)) /\ UNCHANGED call_stack
    BY <1>10, EntryType DEF PassPointer, PassPointerStale, PassPointerMissing, kernel
  <2>2. /\ ActsOrdered' /\ RecordsOwned' /\ RecordsOrdered'
        /\ Owner(call_stack[Len(call_stack)], Len(acts))'
        /\ Len(Top'.plist) = Len(Top.plist)
    BY <2>1, LevelsKeepPlace
  <2>3. (k' = k \/ k' = Len(Top.plist) + 1) /\ pc' \in {"pointers", "chase"}
        /\ (pc' = "chase" => k' = k) /\ Len(Top.plist) \in Nat
    BY <1>10, <2>1 DEF PassPointer, PassPointerStale, PassPointerMissing, AtEntry, locals
  <2> QED
    BY <2>1, <2>2, <2>3 DEF Programs, HandlerFrame, Encrypting
<1>11. CASE FollowPointer
  <2>1. /\ k \in 1 .. Len(Top.plist) /\ Top.plist[k] \in Para /\ Top.plist[k].pointer # 0
        /\ Encrypting /\ SetLevels(Below(Top.plist[k].pointer)) /\ UNCHANGED call_stack
    BY <1>11, EntryType DEF FollowPointer
  <2>2. /\ ActsOrdered' /\ RecordsOwned' /\ RecordsOrdered'
        /\ Owner(call_stack[Len(call_stack)], Len(acts))'
        /\ Len(Top'.plist) = Len(Top.plist)
    BY <2>1, LevelsKeepPlace
  <2> QED
    BY <1>11, <2>1, <2>2 DEF FollowPointer, Chasing, Programs, HandlerFrame, Encrypting
<1>12. CASE FollowPointerMissing
  BY <1>12, <1>a DEF FollowPointerMissing, Chasing, kernel, locals, Programs, HandlerFrame, Encrypting
<1>13. CASE PassObject
  <2>1. k \in 1 .. Len(Top.plist) /\ Encrypting
    BY <1>13, EntryType DEF PassObject
  <2> QED
    BY <1>13, <1>a, <2>1 DEF PassObject, Programs, HandlerFrame, Encrypting
<1>14. CASE EncryptReturn
  BY <1>14, <1>a DEF EncryptReturn, kernel, Programs, HandlerFrame, Encrypting
<1>15. CASE DecryptNoMapper \/ DecryptNoName
  BY <1>15, <1>a DEF DecryptNoMapper, DecryptNoName, Asks, Running, kernel, locals, Programs, HandlerFrame, Encrypting
<1>16. CASE DecryptRefused
  <2>1. /\ acts # <<>> /\ SetTop(Answered) /\ call_stack = <<>> /\ call_stack' = <<>> /\ pc' = "user"
    BY <1>16 DEF DecryptRefused, Asks, Running, kernel
  <2>2. ActsOrdered'
    BY <2>1, ActivationUpdates, SameFrames
  <2> QED
    BY <2>1, <2>2 DEF Programs, RecordsOwned, RecordsOrdered, HandlerFrame, Encrypting
<1>17. CASE DecryptEnter
  <2>1. /\ acts # <<>> /\ UNCHANGED acts /\ call_stack # <<>> /\ pc' = "restore" /\ k' = 1
        /\ call_stack' = SubSeq(call_stack, 1, Len(call_stack) - 1)
    BY <1>17 DEF DecryptEnter, Asks
  <2>2. \A n \in DOMAIN call_stack' :
           n \in DOMAIN call_stack /\ n < Len(call_stack) /\ call_stack'[n] = call_stack[n]
    BY <2>1, PopType
  <2>3. ActsOrdered' /\ RecordsOwned' /\ RecordsOrdered'
    BY <2>1, <2>2 DEF Programs, ActsOrdered, RecordsOwned, RecordsOrdered, Owner
  <2>4. \A n \in DOMAIN call_stack' : call_stack'[n].rsp > Top'.rbp
    <3> SUFFICES ASSUME NEW n \in DOMAIN call_stack' PROVE call_stack[n].rsp > Top.rbp
      BY <2>1, <2>2 DEF Top
    <3>1. Len(call_stack) \in DOMAIN call_stack
      BY <2>1 DEF TypeOK
    <3>2. /\ call_stack[Len(call_stack)].rbp < call_stack[n].rsp
          /\ call_stack[Len(call_stack)].rbp >= Top.rbp
      BY <2>1, <2>2, <3>1, RecordsAbove DEF Programs, RecordsOrdered
    <3>3. call_stack[n].rsp \in Nat /\ call_stack[Len(call_stack)].rbp \in Nat /\ Top.rbp \in Nat
      BY <2>1, <2>2, <3>1, RecordType, FrameType DEF user_rbp
    <3> QED
      BY <3>2, <3>3
  <2> QED
    BY <2>1, <2>3, <2>4 DEF Programs, HandlerFrame, Encrypting
<1>18. CASE RestoreSegment
  BY <1>18, <1>a DEF RestoreSegment, AtSegment, kernel, Programs, HandlerFrame, Encrypting, TypeOK
<1>19. CASE RestoreUndefined
  BY <1>19, <1>a DEF RestoreUndefined, AtSegment, kernel, locals, Programs, HandlerFrame, Encrypting
<1>20. CASE DecryptReturn
  <2>1. /\ acts # <<>> /\ SetTop(Answered) /\ UNCHANGED call_stack /\ pc = "restore" /\ pc' = "user"
    BY <1>20 DEF DecryptReturn, TypeOK
  <2>2. /\ DOMAIN acts' = DOMAIN acts /\ Len(acts') = Len(acts)
        /\ ActsOrdered'
        /\ \A m \in DOMAIN acts : acts'[m].sp = acts[m].sp /\ acts'[m].rbp = acts[m].rbp
        /\ \A m \in DOMAIN acts : m # Len(acts) => acts'[m].enc = acts[m].enc
    BY <2>1, ActivationUpdates, SameFrames
  <2>3. RecordsOwned'
    <3> SUFFICES ASSUME NEW n \in DOMAIN call_stack
                 PROVE  /\ call_stack[n].rsp <= call_stack[n].rbp
                        /\ \E m \in DOMAIN acts' : Owner(call_stack[n], m)'
      BY <2>1 DEF RecordsOwned, Owner
    <3>1. PICK m \in DOMAIN acts : Owner(call_stack[n], m)
      BY DEF Programs, RecordsOwned
    <3>2. call_stack[n].rsp > Top.rbp /\ call_stack[n].rsp <= call_stack[n].rbp
      BY <2>1 DEF Programs, HandlerFrame, RecordsOwned
    <3>3. call_stack[n].rsp \in Nat /\ call_stack[n].rbp \in Nat /\ Top.rbp \in Nat
      BY <2>1, RecordType, FrameType DEF user_rbp
    <3>4. call_stack[n].rbp # Top.rbp
      BY <3>2, <3>3
    <3>5. m # Len(acts)
      BY <3>1, <3>4 DEF Owner, Top
    <3>6. Owner(call_stack[n], m)'
      BY <2>1, <2>2, <3>1, <3>5 DEF Owner
    <3> QED
      BY <2>2, <3>2, <3>6
  <2> QED
    BY <2>1, <2>2, <2>3 DEF Programs, RecordsOrdered, HandlerFrame, Encrypting
<1>21. CASE Halted \/ UNCHANGED vars
  BY <1>21, <1>a DEF Halted, vars, Programs, HandlerFrame, Encrypting
<1> QED
  BY <1>1, <1>2, <1>3, <1>4, <1>5, <1>6, <1>7, <1>8, <1>9, <1>10, <1>11, <1>12, <1>13, <1>14,
     <1>15, <1>16, <1>17, <1>18, <1>19, <1>20, <1>21
  DEF Next, Encrypt, EncryptStep, Decrypt, DecryptStep
-----------------------------------------------------------------------------
(* Where the segments are *)

SameSegs == \A d \in 0 .. SbufDepth - 1 : sbuf_stack'[d].segs = sbuf_stack[d].segs

(* Slots that keep their segments stay where they are. *)
LEMMA SameSegsWithin ==
    ASSUME SameSegs, NEW d \in 0 .. SbufDepth - 1
    PROVE  /\ Ascending(d) => Ascending(d)'
           /\ \A lo, hi : Within(d, lo, hi) =>
                 \A n \in DOMAIN sbuf_stack'[d].segs :
                    /\ lo <= sbuf_stack'[d].segs[n].start
                    /\ sbuf_stack'[d].segs[n].start + sbuf_stack'[d].segs[n].len <= hi
BY DEF SameSegs, Ascending, Within

(* Giving cells back changes no segment. *)
LEMMA GiveBackSegs ==
    ASSUME TypeOK, Encrypting, NEW a, NEW len, GiveBack(a, len)
    PROVE  SameSegs
<1>1. EncSlot \in 0 .. SbufDepth - 1 /\ sbuf_stack \in [0 .. SbufDepth - 1 -> Sbuf]
  BY SlotType DEF TypeOK
<1>2. \A sbuf \in Sbuf : \A n, b, l : list_add_tail(sbuf, n, b, l).segs = sbuf.segs
  BY DEF list_add_tail, Sbuf
<1> QED
  BY <1>1, <1>2 DEF GiveBack, SameSegs

(* Taking cells off the stack touches only the slot being filled, whose segments stay *)
(* in order, inside the asking function's frame and below i.                          *)
LEMMA TakeOffSlots ==
    ASSUME TypeOK, Programs, Slots, pc = "scan", i <= user_rbp, TakeOff
    PROVE  /\ \A d \in 0 .. SbufDepth - 1 : d # EncSlot => sbuf_stack'[d] = sbuf_stack[d]
           /\ LET segs == sbuf_stack'[EncSlot].segs
              IN  /\ \A n \in DOMAIN segs : user_rsp <= segs[n].start /\ segs[n].start + segs[n].len <= i
                  /\ \A m, n \in DOMAIN segs : m < n => segs[m].start + segs[m].len <= segs[n].start
<1> DEFINE old == sbuf_stack[EncSlot].segs
           new == sbuf_stack'[EncSlot].segs
<1>1. /\ acts # <<>> /\ mem \in [Addr -> Val] /\ sbuf_stack \in [0 .. SbufDepth - 1 -> Sbuf]
      /\ i \in Nat /\ prev_rsp \in Nat /\ Encrypting
  BY DEF TypeOK, Encrypting
<1>2. EncSlot \in 0 .. SbufDepth - 1 /\ sbuf_stack[EncSlot] \in Sbuf
  BY <1>1, SlotType
<1>3. user_rsp \in Nat /\ user_rbp \in Nat /\ user_rbp <= MaxAddr
  BY <1>1, FrameType
<1>4. user_rsp <= prev_rsp /\ prev_rsp <= i /\ Within(EncSlot, 0, prev_rsp) /\ Ascending(EncSlot)
  BY <1>2 DEF Slots
<1>5. Within(EncSlot, user_rsp, user_rbp)
  <2>1. EncSlot \in 0 .. sbuf_stack_top - 1 /\ EncSlot + 1 = Len(call_stack)
    BY <1>2, SlotType DEF EncSlot, TypeOK
  <2>2. /\ call_stack[Len(call_stack)].rsp = user_rsp
        /\ call_stack[Len(call_stack)].rbp = user_rbp
    BY <1>1 DEF Programs, HandlerFrame, Owner, user_rsp, user_rbp, Top
  <2> QED
    BY <2>1, <2>2 DEF Slots
<1>6. old \in Seq(Segment) /\ \A n \in DOMAIN old : old[n].start \in Nat /\ old[n].len \in Nat
  <2>1. old \in Seq(Segment)
    BY <1>2 DEF Sbuf
  <2>2. \A n \in DOMAIN old : old[n] \in Segment
    BY <2>1
  <2> QED
    BY <2>1, <2>2, MemoryAssumption DEF Segment, Addr
<1>7. CASE sbuf_stack' = sbuf_stack
  <2>1. \A n \in DOMAIN old : user_rsp <= old[n].start /\ old[n].start + old[n].len <= i
    BY <1>1, <1>4, <1>5, <1>6 DEF Within
  <2> QED
    BY <1>4, <1>7, <2>1 DEF Ascending
<1>8. CASE /\ i > prev_rsp
           /\ sbuf_stack' = [sbuf_stack EXCEPT ![EncSlot] =
                                copy_stack_buf(sbuf_stack[EncSlot], mem, prev_rsp, i - prev_rsp)]
  <2>1. prev_rsp \in Addr /\ i - prev_rsp \in Nat \ {0}
    BY <1>1, <1>3, <1>8, MemoryAssumption DEF Addr
  <2>2. new = copy_stack_buf(sbuf_stack[EncSlot], mem, prev_rsp, i - prev_rsp).segs
        /\ \A d \in 0 .. SbufDepth - 1 : d # EncSlot => sbuf_stack'[d] = sbuf_stack[d]
    BY <1>1, <1>2, <1>8
  <2>3. /\ Len(new) = Len(old) + 1 /\ \A n \in 1 .. Len(old) : new[n] = old[n]
        /\ new[Len(old) + 1].start = prev_rsp /\ new[Len(old) + 1].len = i - prev_rsp
        /\ copy_stack_buf(sbuf_stack[EncSlot], mem, prev_rsp, i - prev_rsp) \in Sbuf
    BY <1>1, <2>1, <2>2, TakenSegment
  <2>4. new \in Seq(Segment)
    BY <2>2, <2>3 DEF Sbuf
  <2> HIDE DEF new, old
  <2>5. DOMAIN new = 1 .. Len(old) + 1 /\ DOMAIN old = 1 .. Len(old) /\ Len(old) \in Nat
    BY <1>6, <2>3, <2>4
  <2>6. \A n \in DOMAIN old : /\ user_rsp <= old[n].start
                              /\ old[n].start + old[n].len <= prev_rsp
    BY <1>4, <1>5 DEF Within, old
  <2>7. \A n \in DOMAIN new : user_rsp <= new[n].start /\ new[n].start + new[n].len <= i
    <3> SUFFICES ASSUME NEW n \in DOMAIN new
                 PROVE  user_rsp <= new[n].start /\ new[n].start + new[n].len <= i
      OBVIOUS
    <3>1. CASE n = Len(old) + 1
      BY <1>1, <1>4, <2>3, <3>1
    <3>2. CASE n # Len(old) + 1
      <4>1. n \in DOMAIN old /\ new[n] = old[n]
        BY <2>3, <2>5, <3>2
      <4> QED
        BY <1>1, <1>4, <1>6, <2>6, <4>1
    <3> QED
      BY <3>1, <3>2
  <2>8. \A m, n \in DOMAIN new : m < n => new[m].start + new[m].len <= new[n].start
    <3> SUFFICES ASSUME NEW m \in DOMAIN new, NEW n \in DOMAIN new, m < n
                 PROVE  new[m].start + new[m].len <= new[n].start
      OBVIOUS
    <3>1. m \in DOMAIN old /\ new[m] = old[m]
      BY <2>3, <2>5
    <3>2. CASE n = Len(old) + 1
      BY <2>3, <2>6, <3>1, <3>2
    <3>3. CASE n # Len(old) + 1
      <4>1. n \in DOMAIN old /\ new[n] = old[n]
        BY <2>3, <2>5, <3>3
      <4> QED
        BY <1>4, <3>1, <4>1 DEF Ascending, old
    <3> QED
      BY <3>2, <3>3
  <2> QED
    BY <2>2, <2>7, <2>8 DEF new
<1> QED
  BY <1>7, <1>8 DEF TakeOff

(* Every step keeps the segments in order and inside their frames. *)
LEMMA SlotsStep == IInv /\ [Next]_vars => Slots'
<1> SUFFICES ASSUME IInv, [Next]_vars PROVE Slots'
  OBVIOUS
<1>0. TypeOK /\ Programs /\ Slots /\ TypeOK'
  BY TypeStep DEF IInv
<1> USE <1>0
<1>b. /\ sbuf_stack_top \in 0 .. SbufDepth /\ SbufDepth \in Nat /\ sbuf_stack_top = Len(call_stack)
      /\ DOMAIN call_stack = 1 .. Len(call_stack)
  BY ParameterAssumption DEF TypeOK
<1>c. ASSUME SameSegs, UNCHANGED <<sbuf_stack_top, call_stack>>, pc' # "scan", pc' = "restore" <=> pc = "restore"
      PROVE  Slots'
  <2>1. \A d \in 0 .. sbuf_stack_top - 1 : d \in 0 .. SbufDepth - 1
    BY <1>b
  <2>2. \A d \in 0 .. sbuf_stack_top' - 1 : Within(d, call_stack[d + 1].rsp, call_stack[d + 1].rbp)'
    BY <1>c, <2>1 DEF Slots, Within, SameSegs
  <2>3. \A d \in 0 .. SbufDepth - 1 : Ascending(d)'
    BY <1>c, SameSegsWithin DEF Slots
  <2>4. \A d \in sbuf_stack_top' .. SbufDepth - 1 :
           (pc' = "restore" => d # sbuf_stack_top') => sbuf_stack'[d].segs = <<>>
    BY <1>b, <1>c DEF Slots, SameSegs
  <2>5. pc' = "restore" => /\ Within(sbuf_stack_top, 0, MaxAddr)'
                           /\ \A n \in DOMAIN call_stack' : Within(sbuf_stack_top, 0, call_stack[n].rsp)'
    <3>1. pc' = "restore" => sbuf_stack_top \in 0 .. SbufDepth - 1
      BY <1>b, <1>c DEF TypeOK
    <3> QED
      BY <1>c, <3>1 DEF Slots, Within, SameSegs
  <2> QED
    BY <1>c, <2>2, <2>3, <2>4, <2>5 DEF Slots
<1>1. ASSUME NEW s \in Sites, Call(s) PROVE Slots'
  BY <1>1, <1>c DEF Call, Running, kernel, SameSegs
<1>2. CASE Return
  BY <1>2, <1>c DEF Return, Running, kernel, SameSegs
<1>3. ASSUME NEW w \in Stores, Store(w[1], w[2]) PROVE Slots'
  BY <1>3, <1>c DEF Store, Running, kernel, SameSegs
<1>4. CASE EncryptRefused \/ EncryptOverflow
  BY <1>4, <1>c DEF EncryptRefused, EncryptOverflow, Running, SameSegs
<1>5. CASE EncryptEnter
  <2>1. /\ acts # <<>> /\ SetTop(Requested) /\ pc = "user" /\ pc' = "scan" /\ UNCHANGED sbuf_stack
        /\ sbuf_stack_top' = sbuf_stack_top + 1 /\ sbuf_stack_top < SbufDepth
        /\ i' = user_rsp /\ prev_rsp' = user_rsp
        /\ call_stack' = Append(call_stack, [func |-> Top.func, rsp |-> user_rsp, rbp |-> user_rbp])
    BY <1>5 DEF EncryptEnter, Running
  <2>2. sbuf_stack[sbuf_stack_top].segs = <<>>
    BY <1>b, <2>1 DEF Slots
  <2>3. \A n \in DOMAIN call_stack : call_stack'[n] = call_stack[n]
    BY <1>b, <2>1 DEF TypeOK
  <2>4. user_rsp' = user_rsp /\ user_rsp \in Nat
    <3>1. Top' = Requested /\ Requested.sp = Top.sp
      BY <2>1, ActivationUpdates, SameFrames
    <3> QED
      BY <2>1, <3>1, FrameType DEF user_rsp
  <2>5. \A d \in 0 .. sbuf_stack_top' - 1 : Within(d, call_stack[d + 1].rsp, call_stack[d + 1].rbp)'
    <3> SUFFICES ASSUME NEW d \in 0 .. sbuf_stack_top
                 PROVE  Within(d, call_stack[d + 1].rsp, call_stack[d + 1].rbp)'
      BY <1>b, <2>1
    <3>1. CASE d = sbuf_stack_top
      BY <2>1, <2>2, <3>1 DEF Within
    <3>2. CASE d # sbuf_stack_top
      <4>1. d \in 0 .. sbuf_stack_top - 1 /\ call_stack'[d + 1] = call_stack[d + 1]
        BY <1>b, <2>3, <3>2
      <4> QED
        BY <2>1, <4>1 DEF Slots, Within
    <3> QED
      BY <3>1, <3>2
  <2>6. Within(EncSlot, 0, prev_rsp)'
    BY <1>b, <2>1, <2>2 DEF Within, EncSlot
  <2>7. \A d \in 0 .. SbufDepth - 1 : Ascending(d)'
    BY <2>1 DEF Slots, Ascending
  <2>8. \A d \in sbuf_stack_top' .. SbufDepth - 1 : sbuf_stack'[d].segs = <<>>
    BY <1>b, <2>1 DEF Slots
  <2>9. user_rsp' <= prev_rsp' /\ prev_rsp' <= i'
    BY <2>1, <2>4
  <2> QED
    BY <2>1, <2>5, <2>6, <2>7, <2>8, <2>9 DEF Slots
<1>6. ASSUME ScanParameter \/ ScanLast \/ ScanCell PROVE Slots'
  <2>1. /\ pc = "scan" /\ pc' = "scan" /\ i <= user_rbp
        /\ UNCHANGED <<acts, call_stack, sbuf_stack_top>>
        /\ i \in Nat /\ prev_rsp \in Nat /\ Encrypting /\ acts # <<>>
    BY <1>6 DEF ScanParameter, ScanLast, ScanCell, Scanning, kernel, TypeOK, Encrypting
  <2>2. user_rsp \in Nat /\ user_rbp \in Nat /\ user_rsp' = user_rsp /\ user_rbp' = user_rbp
    BY <2>1, FrameType DEF user_rsp, user_rbp, Top
  <2>3. user_rsp <= prev_rsp /\ prev_rsp <= i /\ Within(EncSlot, 0, prev_rsp)
    BY <2>1 DEF Slots
  <2>4. /\ EncSlot \in 0 .. sbuf_stack_top - 1 /\ EncSlot \in 0 .. SbufDepth - 1
        /\ EncSlot + 1 = Len(call_stack) /\ EncSlot' = EncSlot
        /\ call_stack[EncSlot + 1].rsp = user_rsp /\ call_stack[EncSlot + 1].rbp = user_rbp
    <3>1. EncSlot \in 0 .. SbufDepth - 1 /\ EncSlot \in 0 .. sbuf_stack_top - 1
          /\ EncSlot + 1 = Len(call_stack) /\ EncSlot' = EncSlot
      BY <1>b, <2>1, SlotType DEF EncSlot
    <3> QED
      BY <2>1, <3>1 DEF Programs, HandlerFrame, Owner, user_rsp, user_rbp, Top
  <2>5. CASE ScanCell
    <3>1. UNCHANGED sbuf_stack /\ i' = i + 1 /\ prev_rsp' = prev_rsp
      BY <2>5 DEF ScanCell, kernel
    <3>2. user_rsp' <= prev_rsp' /\ prev_rsp' <= i'
      BY <2>1, <2>2, <2>3, <3>1
    <3>3. Within(EncSlot, 0, prev_rsp)'
      BY <2>3, <2>4, <3>1 DEF Within
    <3>4. \A d \in 0 .. sbuf_stack_top - 1 : Within(d, call_stack[d + 1].rsp, call_stack[d + 1].rbp)'
      BY <2>1, <3>1 DEF Slots, Within
    <3>5. \A d \in 0 .. SbufDepth - 1 : Ascending(d)'
      BY <3>1 DEF Slots, Ascending
    <3> QED
      BY <2>1, <3>1, <3>2, <3>3, <3>4, <3>5 DEF Slots
  <2>6. CASE ScanParameter \/ ScanLast
    <3> DEFINE segs == sbuf_stack'[EncSlot].segs
    <3>1. TakeOff
      BY <2>6 DEF ScanParameter, ScanLast
    <3>2. /\ \A d \in 0 .. SbufDepth - 1 : d # EncSlot => sbuf_stack'[d] = sbuf_stack[d]
          /\ \A n \in DOMAIN segs : user_rsp <= segs[n].start /\ segs[n].start + segs[n].len <= i
          /\ \A m, n \in DOMAIN segs : m < n => segs[m].start + segs[m].len <= segs[n].start
      BY <2>1, <3>1, TakeOffSlots
    <3>3. \A n \in DOMAIN segs : segs[n].start \in Nat /\ segs[n].len \in Nat
      <4>1. segs \in Seq(Segment)
        BY <2>4 DEF TypeOK, Sbuf
      <4>2. \A n \in DOMAIN segs : segs[n] \in Segment
        BY <4>1
      <4> QED
        BY <4>2, MemoryAssumption DEF Segment, Addr
    <3> HIDE DEF segs
    <3>4. \A d \in 0 .. sbuf_stack_top' - 1 : Within(d, call_stack[d + 1].rsp, call_stack[d + 1].rbp)'
      <4> SUFFICES ASSUME NEW d \in 0 .. sbuf_stack_top - 1
                   PROVE  Within(d, call_stack[d + 1].rsp, call_stack[d + 1].rbp)'
        BY <2>1
      <4>1. CASE d = EncSlot
        <5>1. \A n \in DOMAIN segs : /\ call_stack[d + 1].rsp <= segs[n].start
                                     /\ segs[n].start + segs[n].len <= call_stack[d + 1].rbp
          BY <2>1, <2>2, <2>4, <3>2, <3>3, <4>1
        <5> QED
          BY <2>1, <4>1, <5>1 DEF Within, segs
      <4>2. CASE d # EncSlot
        <5>1. d \in 0 .. SbufDepth - 1 /\ sbuf_stack'[d] = sbuf_stack[d]
          BY <1>b, <3>2, <4>2
        <5> QED
          BY <2>1, <5>1 DEF Slots, Within
      <4> QED
        BY <4>1, <4>2
    <3>5. \A d \in 0 .. SbufDepth - 1 : Ascending(d)'
      <4> SUFFICES ASSUME NEW d \in 0 .. SbufDepth - 1 PROVE Ascending(d)'
        OBVIOUS
      <4>1. CASE d = EncSlot
        BY <3>2, <4>1 DEF Ascending, segs
      <4>2. CASE d # EncSlot
        BY <3>2, <4>2 DEF Slots, Ascending
      <4> QED
        BY <4>1, <4>2
    <3>6. \A d \in sbuf_stack_top' .. SbufDepth - 1 : sbuf_stack'[d].segs = <<>>
      <4> SUFFICES ASSUME NEW d \in sbuf_stack_top .. SbufDepth - 1 PROVE sbuf_stack'[d].segs = <<>>
        BY <2>1
      <4>1. d \in 0 .. SbufDepth - 1 /\ d # EncSlot
        BY <1>b, <2>4
      <4> QED
        BY <2>1, <3>2, <4>1 DEF Slots
    <3>7. CASE ScanParameter
      <4>1. i' = i + contains(i, Top.plist) /\ prev_rsp' = i' /\ contains(i, Top.plist) \in Nat
        BY <2>1, <3>7, ContainsType DEF ScanParameter
      <4>2. user_rsp' <= prev_rsp' /\ prev_rsp' <= i'
        BY <2>1, <2>2, <2>3, <4>1
      <4>3. \A n \in DOMAIN segs : 0 <= segs[n].start /\ segs[n].start + segs[n].len <= prev_rsp'
        BY <2>1, <3>2, <3>3, <4>1
      <4>4. Within(EncSlot, 0, prev_rsp)'
        BY <2>4, <4>3 DEF Within, segs
      <4> QED
        BY <2>1, <3>4, <3>5, <3>6, <4>2, <4>4 DEF Slots
    <3>8. CASE ScanLast
      <4>1. i' = i + 1 /\ prev_rsp' = prev_rsp /\ i = user_rbp
        BY <3>8 DEF ScanLast
      <4>2. user_rsp' <= prev_rsp' /\ prev_rsp' <= i' /\ ~(i' <= user_rbp')
        BY <2>1, <2>2, <2>3, <4>1
      <4> QED
        BY <2>1, <3>4, <3>5, <3>6, <4>2 DEF Slots
    <3> QED
      BY <2>6, <3>7, <3>8
  <2> QED
    BY <1>6, <2>5, <2>6
<1>7. CASE ScanDone \/ PassByValue \/ PassPointerStale \/ PassPointerMissing
           \/ FollowPointerMissing \/ EncryptReturn
  BY <1>7, <1>c DEF ScanDone, PassByValue, PassPointerStale, PassPointerMissing, FollowPointerMissing,
                    EncryptReturn, AtEntry, Chasing, kernel, locals, SameSegs
<1>8. CASE PassPointer \/ FollowPointer \/ PassObject
  <2>1. /\ Encrypting /\ UNCHANGED <<sbuf_stack_top, call_stack>>
        /\ pc # "restore" /\ pc' # "restore" /\ pc' # "scan"
    BY <1>8 DEF PassPointer, FollowPointer, PassObject, AtEntry, Chasing, Encrypting
  <2>2. SameSegs
    BY <1>8, <2>1, GiveBackSegs DEF PassPointer, FollowPointer, PassObject, SameSegs
  <2> QED
    BY <1>c, <2>1, <2>2
<1>9. CASE DecryptNoMapper \/ DecryptRefused \/ DecryptNoName
  BY <1>9, <1>c DEF DecryptNoMapper, DecryptRefused, DecryptNoName, Asks, Running, kernel, SameSegs
<1>10. CASE DecryptEnter
  <2>1. /\ call_stack # <<>> /\ pc = "user" /\ pc' = "restore" /\ UNCHANGED sbuf_stack
        /\ call_stack' = SubSeq(call_stack, 1, Len(call_stack) - 1)
        /\ sbuf_stack_top' = sbuf_stack_top - 1
    BY <1>10 DEF DecryptEnter, Asks, Running
  <2> DEFINE top == sbuf_stack_top - 1
             rec == call_stack[Len(call_stack)]
  <2>2. /\ \A n \in DOMAIN call_stack' :
              n \in DOMAIN call_stack /\ n < Len(call_stack) /\ call_stack'[n] = call_stack[n]
        /\ DOMAIN call_stack' = 1 .. top
    BY <1>b, <2>1, PopType
  <2>3. top \in 0 .. SbufDepth - 1 /\ Len(call_stack) \in DOMAIN call_stack /\ top + 1 = Len(call_stack)
    BY <1>b, <2>1, <2>2
  <2>4. rec.rsp \in Nat /\ rec.rbp \in Nat /\ rec.rbp <= MaxAddr
    BY <2>3, RecordType
  <2>5. Within(top, rec.rsp, rec.rbp)
    BY <1>b, <2>3 DEF Slots
  <2>6. \A n \in DOMAIN sbuf_stack[top].segs : sbuf_stack[top].segs[n].start \in Nat
                                              /\ sbuf_stack[top].segs[n].len \in Nat
    <3>1. sbuf_stack[top].segs \in Seq(Segment)
      BY <2>3 DEF TypeOK, Sbuf
    <3>2. \A n \in DOMAIN sbuf_stack[top].segs : sbuf_stack[top].segs[n] \in Segment
      BY <3>1
    <3> QED
      BY <3>2, MemoryAssumption DEF Segment, Addr
  <2>7. Within(sbuf_stack_top, 0, MaxAddr)'
    BY <2>1, <2>4, <2>5, <2>6, MemoryAssumption, SMTT(30) DEF Within
  <2>8. ASSUME NEW n \in DOMAIN call_stack' PROVE Within(sbuf_stack_top, 0, call_stack[n].rsp)'
    <3> DEFINE lim == call_stack'[n].rsp
               held == sbuf_stack[top].segs
    <3>1. rec.rbp < lim /\ lim \in Nat
      <4>1. n \in DOMAIN call_stack /\ n < Len(call_stack) /\ lim = call_stack[n].rsp
        BY <2>2, <2>8
      <4>2. lim \in Nat
        BY <4>1, RecordType
      <4>3. rec.rbp < call_stack[n].rsp
        BY <2>3, <4>1 DEF Programs, RecordsOrdered
      <4> QED
        BY <4>1, <4>2, <4>3
    <3>2. ASSUME NEW m \in DOMAIN held PROVE 0 <= held[m].start /\ held[m].start + held[m].len <= lim
      <4>1. held[m].start + held[m].len <= rec.rbp
        BY <2>5 DEF Within
      <4>2. held[m].start \in Nat /\ held[m].len \in Nat
        BY <2>6
      <4> HIDE DEF lim, held, rec
      <4> QED
        BY <2>4, <3>1, <4>1, <4>2
    <3>3. sbuf_stack'[sbuf_stack_top'].segs = held
      BY <2>1
    <3> HIDE DEF held
    <3> QED
      BY <3>2, <3>3 DEF Within
  <2>9. \A d \in 0 .. sbuf_stack_top' - 1 : Within(d, call_stack[d + 1].rsp, call_stack[d + 1].rbp)'
    <3> SUFFICES ASSUME NEW d \in 0 .. top - 1
                 PROVE  Within(d, call_stack[d + 1].rsp, call_stack[d + 1].rbp)'
      BY <2>1
    <3>1. d \in 0 .. sbuf_stack_top - 1 /\ call_stack'[d + 1] = call_stack[d + 1]
      BY <1>b, <2>2
    <3> QED
      BY <2>1, <3>1 DEF Slots, Within
  <2>10. \A d \in 0 .. SbufDepth - 1 : Ascending(d)'
    BY <2>1 DEF Slots, Ascending
  <2>11. \A d \in sbuf_stack_top' .. SbufDepth - 1 : d # sbuf_stack_top' => sbuf_stack'[d].segs = <<>>
    <3> SUFFICES ASSUME NEW d \in top .. SbufDepth - 1, d # top PROVE sbuf_stack[d].segs = <<>>
      BY <2>1
    <3>1. d \in sbuf_stack_top .. SbufDepth - 1
      BY <1>b
    <3> QED
      BY <2>1, <3>1 DEF Slots
  <2> QED
    BY <2>1, <2>7, <2>8, <2>9, <2>10, <2>11 DEF Slots
<1>11. CASE RestoreSegment \/ RestoreUndefined
  BY <1>11, <1>c DEF RestoreSegment, RestoreUndefined, AtSegment, kernel, locals, SameSegs
<1>12. CASE DecryptReturn
  <2>1. /\ pc = "restore" /\ pc' = "user" /\ UNCHANGED <<call_stack, sbuf_stack_top>>
        /\ sbuf_stack' = [sbuf_stack EXCEPT ![DecSlot].segs = <<>>]
    BY <1>12 DEF DecryptReturn
  <2>2. DecSlot = sbuf_stack_top /\ DecSlot \in 0 .. SbufDepth - 1 /\ sbuf_stack[DecSlot] \in Sbuf
    BY <2>1, SlotType DEF DecSlot
  <2>3. /\ sbuf_stack'[DecSlot].segs = <<>>
        /\ \A d \in 0 .. SbufDepth - 1 : d # DecSlot => sbuf_stack'[d] = sbuf_stack[d]
    BY <2>1, <2>2 DEF TypeOK, Sbuf
  <2>4. \A d \in 0 .. sbuf_stack_top' - 1 : Within(d, call_stack[d + 1].rsp, call_stack[d + 1].rbp)'
    <3> SUFFICES ASSUME NEW d \in 0 .. sbuf_stack_top - 1
                 PROVE  Within(d, call_stack[d + 1].rsp, call_stack[d + 1].rbp)'
      BY <2>1
    <3>1. sbuf_stack'[d] = sbuf_stack[d]
      BY <1>b, <2>2, <2>3
    <3> QED
      BY <2>1, <3>1 DEF Slots, Within
  <2>5. \A d \in 0 .. SbufDepth - 1 : Ascending(d)'
    <3> SUFFICES ASSUME NEW d \in 0 .. SbufDepth - 1 PROVE Ascending(d)'
      OBVIOUS
    <3>1. CASE d = DecSlot
      BY <2>3, <3>1 DEF Ascending
    <3>2. CASE d # DecSlot
      BY <2>3, <3>2 DEF Slots, Ascending
    <3> QED
      BY <3>1, <3>2
  <2>6. \A d \in sbuf_stack_top' .. SbufDepth - 1 : sbuf_stack'[d].segs = <<>>
    <3> SUFFICES ASSUME NEW d \in sbuf_stack_top .. SbufDepth - 1 PROVE sbuf_stack'[d].segs = <<>>
      BY <2>1
    <3>1. CASE d = DecSlot
      BY <2>3, <3>1
    <3>2. CASE d # DecSlot
      BY <1>b, <2>1, <2>2, <2>3, <3>2 DEF Slots
    <3> QED
      BY <3>1, <3>2
  <2> QED
    BY <2>1, <2>4, <2>5, <2>6 DEF Slots
<1>13. CASE Halted \/ UNCHANGED vars
  <2>1. UNCHANGED vars
    BY <1>13 DEF Halted
  <2> QED
    BY <2>1 DEF vars, Slots, Within, Ascending, EncSlot, user_rsp, user_rbp, Top
<1> QED
  BY <1>1, <1>2, <1>3, <1>4, <1>5, <1>6, <1>7, <1>8, <1>9, <1>10, <1>11, <1>12, <1>13
  DEF Next, Encrypt, EncryptStep, Decrypt, DecryptStep
-----------------------------------------------------------------------------
(* What is hidden *)

(* No stack cell is in two live segments. *)
LEMMA LiveDisjoint ==
    ASSUME TypeOK, Programs, Slots,
           NEW d \in LiveSlots, NEW e \in LiveSlots,
           NEW m \in DOMAIN sbuf_stack[d].segs, NEW n \in DOMAIN sbuf_stack[e].segs,
           NEW a \in Cells(sbuf_stack[d].segs[m]), a \in Cells(sbuf_stack[e].segs[n])
    PROVE  d = e /\ m = n
<1>1. /\ sbuf_stack_top \in 0 .. SbufDepth /\ SbufDepth \in Nat /\ sbuf_stack_top = Len(call_stack)
      /\ DOMAIN call_stack = 1 .. Len(call_stack)
      /\ pc = "restore" => sbuf_stack_top < SbufDepth
  BY ParameterAssumption DEF TypeOK
<1>2. d \in 0 .. SbufDepth - 1 /\ e \in 0 .. SbufDepth - 1
  BY <1>1 DEF LiveSlots
<1>3. ASSUME NEW x \in 0 .. SbufDepth - 1, NEW y \in DOMAIN sbuf_stack[x].segs
      PROVE  /\ sbuf_stack[x].segs[y].start \in Nat /\ sbuf_stack[x].segs[y].len \in Nat
             /\ DOMAIN sbuf_stack[x].segs \subseteq Nat
  BY SegType
<1>4. /\ a \in Int
      /\ sbuf_stack[d].segs[m].start <= a /\ a < sbuf_stack[d].segs[m].start + sbuf_stack[d].segs[m].len
      /\ sbuf_stack[e].segs[n].start <= a /\ a < sbuf_stack[e].segs[n].start + sbuf_stack[e].segs[n].len
  BY <1>2, <1>3 DEF Cells, Span
<1>5. ASSUME NEW x \in LiveSlots, NEW y \in LiveSlots, x < y,
             NEW p \in DOMAIN sbuf_stack[x].segs, NEW q \in DOMAIN sbuf_stack[y].segs,
             sbuf_stack[x].segs[p].start <= a,
             a < sbuf_stack[y].segs[q].start + sbuf_stack[y].segs[q].len
      PROVE  FALSE
  <2>1. x \in 0 .. sbuf_stack_top - 1 /\ x + 1 \in DOMAIN call_stack
        /\ x \in 0 .. SbufDepth - 1 /\ y \in 0 .. SbufDepth - 1
    BY <1>1, <1>5 DEF LiveSlots
  <2>2. /\ call_stack[x + 1].rsp <= sbuf_stack[x].segs[p].start
        /\ call_stack[x + 1].rsp \in Nat
    BY <2>1, RecordType DEF Slots, Within
  <2>3. /\ sbuf_stack[x].segs[p].start \in Nat /\ sbuf_stack[y].segs[q].start \in Nat
        /\ sbuf_stack[y].segs[q].len \in Nat
    BY <1>3, <2>1
  <2>4. sbuf_stack[y].segs[q].start + sbuf_stack[y].segs[q].len <= call_stack[x + 1].rsp
    <3>1. CASE y \in 0 .. sbuf_stack_top - 1
      <4>1. y + 1 \in DOMAIN call_stack /\ x + 1 < y + 1
        BY <1>1, <1>5, <2>1, <3>1
      <4>2. /\ sbuf_stack[y].segs[q].start + sbuf_stack[y].segs[q].len <= call_stack[y + 1].rbp
            /\ call_stack[y + 1].rbp < call_stack[x + 1].rsp /\ call_stack[y + 1].rbp \in Nat
        BY <2>1, <3>1, <4>1, RecordType DEF Slots, Within, Programs, RecordsOrdered
      <4> QED
        BY <2>2, <2>3, <4>2
    <3>2. CASE y \notin 0 .. sbuf_stack_top - 1
      <4>1. pc = "restore" /\ y = sbuf_stack_top
        BY <1>1, <3>2 DEF LiveSlots
      <4> QED
        BY <2>1, <4>1 DEF Slots, Within
    <3> QED
      BY <3>1, <3>2
  <2> QED
    BY <1>4, <1>5, <2>2, <2>3, <2>4
<1>6. d = e
  BY <1>2, <1>4, <1>5
<1>7. m = n
  <2>1. Ascending(d) /\ m \in Nat /\ n \in Nat
    BY <1>2, <1>3, <1>6 DEF Slots
  <2>2. /\ sbuf_stack[d].segs[m].start \in Nat /\ sbuf_stack[d].segs[m].len \in Nat
        /\ sbuf_stack[d].segs[n].start \in Nat /\ sbuf_stack[d].segs[n].len \in Nat
    BY <1>2, <1>3, <1>6
  <2>3. ~(m < n) /\ ~(n < m)
    BY <1>4, <1>6, <2>1, <2>2 DEF Ascending
  <2> QED
    BY <2>1, <2>3
<1> QED
  BY <1>6, <1>7

(* The live slots are slots of sbuf_stack[], after a step as well. *)
LEMMA LiveRange ==
    ASSUME TypeOK' PROVE LiveSlots' \subseteq 0 .. SbufDepth - 1
<1> DEFINE t == sbuf_stack_top'
<1>1. t \in Int /\ 0 <= t /\ t <= SbufDepth /\ SbufDepth \in Int
      /\ (pc' = "restore" => t < SbufDepth)
  BY ParameterAssumption DEF TypeOK
<1>2. CASE pc' = "restore"
  <2>1. LiveSlots' = 0 .. t
    BY <1>2 DEF LiveSlots
  <2> HIDE DEF t
  <2> QED
    BY <1>1, <1>2, <2>1
<1>3. CASE pc' # "restore"
  <2>1. LiveSlots' = 0 .. t - 1
    BY <1>3 DEF LiveSlots
  <2> HIDE DEF t
  <2> QED
    BY <1>1, <2>1
<1> QED
  BY <1>2, <1>3

(* Every step leaves the cells hidden after it with the fill pattern. *)
LEMMA ConcealmentStep == IInv /\ [Next]_vars => Concealment'
<1> SUFFICES ASSUME IInv, [Next]_vars, NEW a \in Addr, Hidden(a)' PROVE mem'[a] = Fill
  BY DEF Concealment, Hidden, Addr
<1>0. TypeOK /\ Programs /\ Slots /\ TypeOK' /\ (Hidden(a) => mem[a] = Fill)
  BY TypeStep DEF IInv, Concealment
<1> USE <1>0
<1>s. PICK d \in LiveSlots' : HiddenBy(d, a)'
  BY DEF Hidden
<1>n. PICK n \in DOMAIN sbuf_stack'[d].segs : HiddenIn(d, n, a)'
  BY <1>s DEF HiddenBy
<1>1. d \in LiveSlots' /\ n \in DOMAIN sbuf_stack'[d].segs /\ HiddenIn(d, n, a)'
  BY <1>s, <1>n
<1>2. /\ n >= FirstLive(d)' /\ a \in Cells(sbuf_stack'[d].segs[n]) /\ ~InHole(sbuf_stack'[d], n, a)
  BY <1>1 DEF HiddenIn
<1>b. /\ sbuf_stack_top \in 0 .. SbufDepth /\ SbufDepth \in Nat /\ sbuf_stack_top = Len(call_stack)
      /\ sbuf_stack_top' \in 0 .. SbufDepth
      /\ pc' = "restore" => sbuf_stack_top' < SbufDepth
      /\ mem \in [Addr -> Val]
  BY ParameterAssumption DEF TypeOK
<1>d. d \in 0 .. SbufDepth - 1
  BY <1>1, LiveRange
<1>e. n \in DOMAIN sbuf_stack'[d].segs /\ n \in Nat
  <2>1. sbuf_stack'[d].segs \in Seq(Segment)
    BY <1>d DEF TypeOK, Sbuf
  <2> QED
    BY <1>1, <2>1
<1>c. ASSUME UNCHANGED <<mem, sbuf_stack, sbuf_stack_top>>,
             pc' = "restore" <=> pc = "restore", pc = "restore" => k' >= k /\ k' \in Int /\ k \in Int
      PROVE  mem'[a] = Fill
  <2>1. d \in LiveSlots /\ n >= FirstLive(d)
    BY <1>1, <1>2, <1>c, <1>e DEF LiveSlots, FirstLive
  <2> QED
    BY <1>1, <1>2, <1>c, <2>1 DEF Hidden, HiddenBy, HiddenIn
<1>3. ASSUME NEW s \in Sites, Call(s) PROVE mem'[a] = Fill
  BY <1>3, <1>c DEF Call, Running, kernel
<1>4. CASE Return
  BY <1>4, <1>c DEF Return, Running, kernel
<1>5. ASSUME NEW w \in Stores, Store(w[1], w[2]) PROVE mem'[a] = Fill
  <2>1. /\ ~Hidden(w[1]) /\ mem' = [mem EXCEPT ![w[1]] = w[2]]
        /\ UNCHANGED <<sbuf_stack, sbuf_stack_top, pc, k>> /\ pc = "user"
    BY <1>5 DEF Store, Running, kernel, locals
  <2>2. Hidden(a)
    BY <1>1, <2>1 DEF Hidden, HiddenBy, HiddenIn, LiveSlots, FirstLive
  <2> QED
    BY <1>b, <2>1, <2>2
<1>6. CASE EncryptRefused \/ EncryptOverflow
  BY <1>6, <1>c DEF EncryptRefused, EncryptOverflow, Running
<1>7. CASE EncryptEnter
  <2>1. /\ pc = "user" /\ pc' = "scan" /\ UNCHANGED <<mem, sbuf_stack>>
        /\ sbuf_stack_top' = sbuf_stack_top + 1 /\ sbuf_stack_top < SbufDepth
    BY <1>7 DEF EncryptEnter, Running
  <2>2. sbuf_stack[sbuf_stack_top].segs = <<>>
    BY <1>b, <2>1 DEF Slots
  <2>3. d # sbuf_stack_top
    BY <1>1, <2>1, <2>2
  <2>4. d \in LiveSlots
    BY <1>1, <1>b, <2>1, <2>3 DEF LiveSlots
  <2> QED
    BY <1>1, <1>2, <2>1, <2>4 DEF Hidden, HiddenBy, HiddenIn, FirstLive
<1>8. CASE ScanParameter \/ ScanLast
  <2>1. /\ TakeOff /\ pc = "scan" /\ pc' = "scan" /\ UNCHANGED <<sbuf_stack_top, acts>> /\ i <= user_rbp
        /\ i \in Nat /\ prev_rsp \in Nat /\ Encrypting /\ acts # <<>>
    BY <1>8 DEF ScanParameter, ScanLast, Scanning, TypeOK, Encrypting
  <2>2. d \in LiveSlots /\ FirstLive(d) = FirstLive(d)'
    BY <1>1, <2>1 DEF LiveSlots, FirstLive
  <2>3. CASE UNCHANGED <<sbuf_stack, mem>>
    BY <1>1, <1>2, <2>2, <2>3 DEF Hidden, HiddenBy, HiddenIn
  <2>4. CASE /\ i > prev_rsp
             /\ mem' = Filled(mem, prev_rsp, i - prev_rsp)
    <3>1. CASE a \in Span(prev_rsp, i - prev_rsp)
      BY <2>4, <3>1 DEF Filled
    <3>2. CASE a \notin Span(prev_rsp, i - prev_rsp)
      <4>1. mem'[a] = mem[a]
        BY <2>4, <3>2 DEF Filled
      <4>2. CASE UNCHANGED sbuf_stack
        BY <1>1, <1>2, <2>2, <4>1, <4>2 DEF Hidden, HiddenBy, HiddenIn
      <4>3. CASE sbuf_stack' = [sbuf_stack EXCEPT ![EncSlot] =
                                   copy_stack_buf(sbuf_stack[EncSlot], mem, prev_rsp, i - prev_rsp)]
        <5>1. EncSlot \in 0 .. SbufDepth - 1 /\ sbuf_stack[EncSlot] \in Sbuf
          BY <2>1, SlotType
        <5>2. CASE d # EncSlot
          <6>1. sbuf_stack'[d] = sbuf_stack[d]
            BY <1>d, <4>3, <5>2 DEF TypeOK
          <6> QED
            BY <1>1, <1>2, <2>2, <4>1, <6>1 DEF Hidden, HiddenBy, HiddenIn
        <5>3. CASE d = EncSlot
          <6> DEFINE old == sbuf_stack[EncSlot]
                     new == copy_stack_buf(old, mem, prev_rsp, i - prev_rsp)
          <6>1. sbuf_stack'[d] = new
            BY <1>d, <4>3, <5>1, <5>3 DEF TypeOK
          <6>2. prev_rsp \in Addr /\ i - prev_rsp \in Nat \ {0}
            <7>1. user_rbp \in Nat /\ user_rbp <= MaxAddr
              BY <2>1, FrameType
            <7> QED
              BY <2>1, <2>4, <7>1, MemoryAssumption DEF Addr
          <6>3. /\ Len(new.segs) = Len(old.segs) + 1 /\ new \in Sbuf
                /\ \A x \in 1 .. Len(old.segs) : new.segs[x] = old.segs[x]
                /\ new.segs[Len(old.segs) + 1].start = prev_rsp
                /\ new.segs[Len(old.segs) + 1].len = i - prev_rsp
            BY <2>1, <6>2, TakenSegment
          <6>4. new.holes = IF old.segs = <<>> THEN <<>> ELSE old.holes
            BY DEF copy_stack_buf
          <6>5. old.segs \in Seq(Segment) /\ new.segs \in Seq(Segment)
            BY <5>1, <6>3 DEF Sbuf
          <6> HIDE DEF new, old
          <6>6. n # Len(old.segs) + 1
            BY <1>2, <3>2, <6>1, <6>3 DEF Cells
          <6>7. n \in DOMAIN old.segs /\ new.segs[n] = old.segs[n] /\ old.segs # <<>>
            BY <1>e, <6>1, <6>3, <6>5, <6>6
          <6>8. ~InHole(old, n, a)
            BY <1>2, <6>1, <6>4, <6>7 DEF InHole
          <6>9. HiddenIn(d, n, a)
            BY <1>2, <2>2, <5>3, <6>1, <6>7, <6>8 DEF HiddenIn, old
          <6> QED
            BY <2>2, <4>1, <5>3, <6>7, <6>9 DEF Hidden, HiddenBy, old
        <5> QED
          BY <5>2, <5>3
      <4> QED
        BY <2>1, <4>2, <4>3 DEF TakeOff
    <3> QED
      BY <3>1, <3>2
  <2> QED
    BY <2>1, <2>3, <2>4 DEF TakeOff
<1>9. CASE ScanCell \/ ScanDone \/ PassByValue \/ PassPointerStale \/ PassPointerMissing
           \/ FollowPointerMissing \/ EncryptReturn
  BY <1>9, <1>c DEF ScanCell, ScanDone, PassByValue, PassPointerStale, PassPointerMissing,
                    FollowPointerMissing, EncryptReturn, Scanning, AtEntry, Chasing, kernel, locals
<1>10. ASSUME NEW c, NEW len \in Nat, InBuf(c, len), GiveBack(c, len), Encrypting, Encrypting',
              UNCHANGED sbuf_stack_top
       PROVE  mem'[a] = Fill
  <2> DEFINE x == find_in_stack_buf(sbuf_stack[EncSlot], c, len)
             old == sbuf_stack[EncSlot]
             new == list_add_tail(old, x, c, len)
  <2>1. EncSlot \in 0 .. SbufDepth - 1 /\ old \in Sbuf
    BY <1>10, SlotType
  <2>2. /\ x \in DOMAIN old.segs /\ x \in Nat \ {0} /\ old.segs[x] \in Segment
        /\ c \in Int /\ Span(c, len) \subseteq Cells(old.segs[x])
    BY <1>10, <2>1, FindIsFound DEF InBuf
  <2>3. c \in Addr
    BY <1>10, GiveBackType
  <2>4. /\ new \in Sbuf /\ new.segs = old.segs /\ Len(new.holes) = Len(old.holes) + 1
        /\ \A y \in 1 .. Len(old.holes) : new.holes[y] = old.holes[y]
        /\ new.holes[Len(old.holes) + 1] = [seg |-> x, start |-> c, len |-> len]
    BY <1>10, <2>3, AddedHole
  <2>5. /\ mem' = CopiedBack(mem, old.segs[x], c, len)
        /\ sbuf_stack' = [sbuf_stack EXCEPT ![EncSlot] = new]
    BY <1>10 DEF GiveBack
  <2>6. EncSlot \in LiveSlots /\ d \in LiveSlots /\ FirstLive(d) = FirstLive(d)'
    BY <1>1, <1>10, <1>b, <2>1 DEF LiveSlots, Encrypting, EncSlot, FirstLive
  <2>7. sbuf_stack'[d].segs = sbuf_stack[d].segs
    BY <1>d, <2>1, <2>4, <2>5 DEF TypeOK
  <2>8. old.holes \in Seq(Hole) /\ new.holes \in Seq(Hole)
    BY <2>1, <2>4 DEF Sbuf
  <2> HIDE DEF x, old, new
  <2>9. a \notin Span(c, len)
    <3> SUFFICES ASSUME a \in Span(c, len) PROVE FALSE
      OBVIOUS
    <3>1. a \in Cells(sbuf_stack[EncSlot].segs[x]) /\ x \in DOMAIN sbuf_stack[EncSlot].segs
      BY <2>2 DEF old
    <3>2. d = EncSlot /\ n = x
      BY <1>1, <1>2, <2>6, <2>7, <3>1, LiveDisjoint
    <3>3. sbuf_stack'[d] = new
      BY <1>d, <2>1, <2>5, <3>2 DEF TypeOK
    <3>4. Len(old.holes) + 1 \in DOMAIN new.holes
      BY <2>4, <2>8
    <3>5. InHole(new, n, a)
      BY <2>4, <3>2, <3>4 DEF InHole
    <3> QED
      BY <1>2, <3>3, <3>5
  <2>10. mem'[a] = mem[a]
    BY <2>5, <2>9 DEF CopiedBack
  <2>11. ~InHole(sbuf_stack[d], n, a)
    <3>1. CASE d # EncSlot
      <4>1. sbuf_stack'[d] = sbuf_stack[d]
        BY <1>d, <2>5, <3>1 DEF TypeOK
      <4> QED
        BY <1>2, <4>1
    <3>2. CASE d = EncSlot
      <4>1. sbuf_stack'[d] = new
        BY <1>d, <2>1, <2>5, <3>2 DEF TypeOK
      <4>2. \A y \in DOMAIN old.holes : y \in DOMAIN new.holes /\ new.holes[y] = old.holes[y]
        BY <2>4, <2>8, SMTT(30)
      <4> QED
        BY <1>2, <3>2, <4>1, <4>2 DEF InHole, old
    <3> QED
      BY <3>1, <3>2
  <2>12. HiddenIn(d, n, a)
    BY <1>1, <1>2, <2>6, <2>7, <2>11 DEF HiddenIn
  <2> QED
    BY <2>6, <2>10, <2>12 DEF Hidden, HiddenBy, HiddenIn
<1>11. CASE PassPointer
  <2>1. Encrypting /\ Encrypting' /\ UNCHANGED sbuf_stack_top
    BY <1>11 DEF PassPointer, AtEntry, Encrypting
  <2> QED
    BY <1>10, <1>11, <2>1 DEF PassPointer
<1>12. CASE FollowPointer
  <2>1. Encrypting /\ Encrypting' /\ UNCHANGED sbuf_stack_top
    BY <1>12 DEF FollowPointer, Chasing, Encrypting
  <2> QED
    BY <1>10, <1>12, <2>1 DEF FollowPointer
<1>13. CASE PassObject
  <2>1. Encrypting /\ Encrypting' /\ UNCHANGED sbuf_stack_top /\ pc = "chase" /\ pc' = "pointers"
    BY <1>13 DEF PassObject, Chasing, Encrypting
  <2>2. Top.plist[k].size \in Nat
    <3>1. Top.plist[k] \in Para
      BY <1>13, EntryType DEF PassObject
    <3> QED
      BY <3>1 DEF Para
  <2>3. CASE InBuf(addr_in_stack, Top.plist[k].size)
    BY <1>10, <1>13, <2>1, <2>2, <2>3 DEF PassObject
  <2>4. CASE ~InBuf(addr_in_stack, Top.plist[k].size)
    BY <1>13, <1>c, <2>1, <2>4 DEF PassObject
  <2> QED
    BY <2>3, <2>4
<1>14. CASE DecryptNoMapper \/ DecryptRefused \/ DecryptNoName
  BY <1>14, <1>c DEF DecryptNoMapper, DecryptRefused, DecryptNoName, Asks, Running, kernel, locals
<1>15. CASE DecryptEnter
  <2>1. /\ pc = "user" /\ pc' = "restore" /\ k' = 1 /\ UNCHANGED <<mem, sbuf_stack>>
        /\ sbuf_stack_top' = sbuf_stack_top - 1
    BY <1>15 DEF DecryptEnter, Asks, Running
  <2>2. d \in LiveSlots /\ n >= FirstLive(d)
    BY <1>1, <1>2, <1>b, <1>e, <2>1 DEF LiveSlots, FirstLive
  <2> QED
    BY <1>1, <1>2, <2>1, <2>2 DEF Hidden, HiddenBy, HiddenIn
<1>16. CASE RestoreSegment
  <2>1. /\ pc = "restore" /\ pc' = "restore" /\ k' = k + 1 /\ k \in Nat /\ k >= 1
        /\ k <= Len(sbuf_stack[DecSlot].segs)
        /\ mem' = RestoredSegment(mem, sbuf_stack[DecSlot], k)
        /\ UNCHANGED <<sbuf_stack, sbuf_stack_top>>
    BY <1>16 DEF RestoreSegment, AtSegment, kernel, TypeOK, Programs, HandlerFrame
  <2>2. DecSlot \in 0 .. SbufDepth - 1 /\ sbuf_stack[DecSlot] \in Sbuf /\ DecSlot \in LiveSlots
    BY <1>b, <2>1, SlotType DEF DecSlot, LiveSlots
  <2>3. k \in DOMAIN sbuf_stack[DecSlot].segs
    BY <2>1, <2>2 DEF Sbuf
  <2>4. d \in LiveSlots /\ n >= FirstLive(d) /\ ~(d = DecSlot /\ n = k)
    BY <1>1, <1>2, <1>e, <2>1 DEF LiveSlots, FirstLive, DecSlot
  <2>5. HiddenIn(d, n, a)
    BY <1>1, <1>2, <2>1, <2>4 DEF HiddenIn
  <2>6. a \notin Cells(sbuf_stack[DecSlot].segs[k])
    BY <1>1, <1>2, <2>1, <2>2, <2>3, <2>4, LiveDisjoint
  <2>7. mem'[a] = mem[a]
    BY <2>1, <2>6 DEF RestoredSegment, Gaps
  <2> QED
    BY <2>4, <2>5, <2>7 DEF Hidden, HiddenBy, HiddenIn
<1>17. CASE RestoreUndefined
  BY <1>17, <1>c DEF RestoreUndefined, AtSegment, kernel, locals, TypeOK
<1>18. CASE DecryptReturn
  <2>1. /\ pc = "restore" /\ pc' = "user" /\ UNCHANGED <<mem, sbuf_stack_top>>
        /\ sbuf_stack' = [sbuf_stack EXCEPT ![DecSlot].segs = <<>>]
    BY <1>18 DEF DecryptReturn
  <2>2. d \in LiveSlots /\ d # DecSlot /\ FirstLive(d) = FirstLive(d)'
    BY <1>1, <1>b, <2>1 DEF LiveSlots, DecSlot, FirstLive
  <2>3. sbuf_stack'[d] = sbuf_stack[d]
    BY <1>d, <2>1, <2>2 DEF TypeOK
  <2> QED
    BY <1>1, <1>2, <2>1, <2>2, <2>3 DEF Hidden, HiddenBy, HiddenIn
<1>19. CASE Halted \/ UNCHANGED vars
  BY <1>19, <1>c DEF Halted, vars, TypeOK
<1> QED
  BY <1>3, <1>4, <1>5, <1>6, <1>7, <1>8, <1>9, <1>11, <1>12, <1>13, <1>14, <1>15, <1>16, <1>17,
     <1>18, <1>19
  DEF Next, Encrypt, EncryptStep, Decrypt, DecryptStep
-----------------------------------------------------------------------------
(* The invariant holds at the start. *)
LEMMA InitIInv == Init => IInv
<1> SUFFICES ASSUME Init PROVE IInv
  OBVIOUS
<1>1. init_stack_buf(SbufCap) \in Sbuf /\ init_stack_buf(SbufCap).segs = <<>>
  <2>1. <<>> \in Seq(Segment) /\ <<>> \in Seq(Hole)
    OBVIOUS
  <2> QED
    BY <2>1, ParameterAssumption DEF init_stack_buf, Sbuf
<1>2. sbuf_stack \in [0 .. SbufDepth - 1 -> Sbuf]
      /\ \A d \in 0 .. SbufDepth - 1 : sbuf_stack[d].segs = <<>>
  BY <1>1 DEF Init
<1>3. mem \in [Addr -> Val]
  BY ParameterAssumption DEF Init, Val
<1>4. TypeOK
  BY <1>2, <1>3, ParameterAssumption DEF Init, TypeOK, Faults
<1>5. Programs
  BY DEF Init, Programs, ActsOrdered, RecordsOwned, RecordsOrdered, HandlerFrame, Encrypting
<1>6. Slots
  BY <1>2 DEF Init, Slots, Within, Ascending
<1>7. Concealment
  BY DEF Init, Concealment, Hidden, LiveSlots
<1> QED
  BY <1>4, <1>5, <1>6, <1>7 DEF IInv

(* The inductive invariant holds throughout. *)
THEOREM Invariant == Spec => []IInv
<1>1. IInv /\ [Next]_vars => IInv'
  BY TypeStep, ProgramsStep, SlotsStep, ConcealmentStep DEF IInv
<1> QED
  BY InitIInv, <1>1, PTL DEF Spec

(* Whatever the program and the limits, the handlers' data keep their types, and the   *)
(* heights of call_stack[] and sbuf_stack[] agree.                                     *)
THEOREM TypeCorrect == Spec => []TypeOK
<1>1. IInv => TypeOK
  BY DEF IInv
<1> QED
  BY Invariant, <1>1, PTL

(* Whatever the program, its parameter lists, its failed or stray requests and the      *)
(* limits, a cell that a live buffer keeps and no hole gives back reads as the fill     *)
(* pattern, up to the step that breaks the kernel, if any.                              *)
THEOREM ConcealmentHolds == Spec => []Concealment
<1>1. IInv => Concealment
  BY DEF IInv
<1> QED
  BY Invariant, <1>1, PTL
-----------------------------------------------------------------------------

(* What the stack would be without the handlers *)

(* Segment n of slot d keeps cell a out of sight. *)
Hides(d, n, a) == d \in LiveSlots /\ HiddenIn(d, n, a)

(* Whatever plainStack's choices are, a hidden cell has the value its one segment keeps, *)
(* and a cell that nothing hides the value it shows.                                     *)
PlainIs ==
    \A a \in Addr :
        /\ (\A d, n : ~Hides(d, n, a)) => ~Hidden(a) /\ plainStack[a] = mem[a]
        /\ \A d, n : Hides(d, n, a) => Hidden(a) /\ plainStack[a] = sbuf_stack[d].segs[n].buf[a]

(* No cell is in two live segments, so plainStack has no choice. *)
LEMMA PlainRead == IInv => PlainIs
<1> SUFFICES ASSUME IInv, NEW a \in Addr
             PROVE  /\ (\A d, n : ~Hides(d, n, a)) => ~Hidden(a) /\ plainStack[a] = mem[a]
                    /\ \A d, n : Hides(d, n, a) => Hidden(a) /\ plainStack[a] = sbuf_stack[d].segs[n].buf[a]
  BY DEF PlainIs
<1>1. ASSUME \A d, n : ~Hides(d, n, a) PROVE ~Hidden(a) /\ plainStack[a] = mem[a]
  <2>1. ~Hidden(a)
    BY <1>1 DEF Hidden, HiddenBy, Hides
  <2> QED
    BY <2>1 DEF plainStack
<1>2. ASSUME NEW d, NEW n, Hides(d, n, a)
      PROVE  Hidden(a) /\ plainStack[a] = sbuf_stack[d].segs[n].buf[a]
  <2>1. /\ d \in LiveSlots /\ n \in DOMAIN sbuf_stack[d].segs
        /\ HiddenIn(d, n, a) /\ HiddenBy(d, a)
    BY <1>2 DEF Hides, HiddenIn, HiddenBy
  <2>2. Hidden(a)
    BY <2>1 DEF Hidden
  <2>3. Keeper(a) \in LiveSlots /\ HiddenBy(Keeper(a), a)
    BY <2>2 DEF Keeper, Hidden
  <2>4. KeptIn(a) \in DOMAIN sbuf_stack[Keeper(a)].segs /\ HiddenIn(Keeper(a), KeptIn(a), a)
    BY <2>3 DEF KeptIn, HiddenBy
  <2>5. PICK e, m : e = Keeper(a) /\ m = KeptIn(a)
    OBVIOUS
  <2>6. /\ e \in LiveSlots /\ m \in DOMAIN sbuf_stack[e].segs
        /\ a \in Cells(sbuf_stack[e].segs[m]) /\ a \in Cells(sbuf_stack[d].segs[n])
    BY <2>1, <2>3, <2>4, <2>5 DEF HiddenIn
  <2>7. d = e /\ n = m
    BY <2>1, <2>6, LiveDisjoint DEF IInv
  <2>8. plainStack[a] = sbuf_stack[Keeper(a)].segs[KeptIn(a)].buf[a]
    BY <2>2 DEF plainStack
  <2> QED
    BY <2>2, <2>5, <2>7, <2>8
<1> QED
  BY <1>1, <1>2

(* The same after a step. *)
LEMMA PlainReadNext == IInv' => PlainIs'
BY PlainRead, PTL

(* Cell a is hidden after the step where it was before, with the same value kept for it. *)
SameHiding(a) ==
    \A d, n : /\ Hides(d, n, a)' <=> Hides(d, n, a)
              /\ Hides(d, n, a) => sbuf_stack'[d].segs[n].buf[a] = sbuf_stack[d].segs[n].buf[a]

(* Such a cell keeps its plain value if it shows what it showed. *)
LEMMA PlainCell ==
    ASSUME PlainIs, PlainIs', NEW a \in Addr, SameHiding(a), mem'[a] = mem[a]
    PROVE  plainStack'[a] = plainStack[a]
<1>1. CASE \A d, n : ~Hides(d, n, a)
  <2>1. \A d, n : ~Hides(d, n, a)'
    BY <1>1 DEF SameHiding
  <2>2. plainStack[a] = mem[a]
    BY <1>1 DEF PlainIs
  <2>3. plainStack'[a] = mem'[a]
    BY <2>1 DEF PlainIs, Addr
  <2> QED
    BY <2>2, <2>3
<1>2. ASSUME NEW d, NEW n, Hides(d, n, a) PROVE plainStack'[a] = plainStack[a]
  <2>1. Hides(d, n, a)'
    BY <1>2 DEF SameHiding
  <2>2. plainStack[a] = sbuf_stack[d].segs[n].buf[a]
    BY <1>2 DEF PlainIs
  <2>3. plainStack'[a] = sbuf_stack'[d].segs[n].buf[a]
    BY <2>1 DEF PlainIs, Addr
  <2> QED
    BY <1>2, <2>2, <2>3 DEF SameHiding
<1> QED
  BY <1>1, <1>2

(* Two stacks that agree on every cell are equal. *)
LEMMA PlainSame ==
    ASSUME \A a \in Addr : plainStack'[a] = plainStack[a]
    PROVE  plainStack' = plainStack
<1>1. plainStack' = [a \in Addr |-> plainStack'[a]] /\ plainStack = [a \in Addr |-> plainStack[a]]
  BY DEF plainStack, Addr
<1> QED
  BY <1>1

(* A step that changes neither the stack nor the buffers leaves the plain stack alone. *)
LEMMA QuietPlain ==
    ASSUME PlainIs, PlainIs', UNCHANGED <<mem, sbuf_stack, sbuf_stack_top>>,
           pc' = "restore" <=> pc = "restore", pc = "restore" => k' = k
    PROVE  plainStack' = plainStack
<1>1. ASSUME NEW a \in Addr PROVE SameHiding(a)
  BY DEF SameHiding, Hides, HiddenIn, FirstLive, LiveSlots
<1>2. \A a \in Addr : plainStack'[a] = plainStack[a]
  BY <1>1, PlainCell
<1> QED
  BY <1>2, PlainSame
-----------------------------------------------------------------------------

(* What holes say *)

(* While an encrypt scans, no hole belongs to its slot: those of an earlier use go with *)
(* the first copy.                                                                      *)
ScanUnholed ==
    pc = "scan" => sbuf_stack[EncSlot].segs = <<>> \/ sbuf_stack[EncSlot].holes = <<>>

(* What restore_pointers has given back shows the value that the buffer has for it. *)
GivenBackShown ==
    Encrypting =>
        \A n \in DOMAIN sbuf_stack[EncSlot].segs : \A a \in Cells(sbuf_stack[EncSlot].segs[n]) :
            InHole(sbuf_stack[EncSlot], n, a) => mem[a] = sbuf_stack[EncSlot].segs[n].buf[a]

(* restore_stack_buf gets past the first segment only if every hole points into it. *)
HolesInFirst ==
    pc = "restore" /\ k > 1 =>
        \A x \in DOMAIN sbuf_stack[DecSlot].holes : sbuf_stack[DecSlot].holes[x].seg = 1

(* Live segments hold cells of the stack. *)
LEMMA LiveCells ==
    ASSUME TypeOK, Programs, Slots, NEW d \in LiveSlots, NEW n \in DOMAIN sbuf_stack[d].segs
    PROVE  Cells(sbuf_stack[d].segs[n]) \subseteq Addr
<1>1. /\ sbuf_stack_top \in 0 .. SbufDepth /\ SbufDepth \in Nat /\ sbuf_stack_top = Len(call_stack)
      /\ DOMAIN call_stack = 1 .. Len(call_stack)
      /\ pc = "restore" => sbuf_stack_top < SbufDepth
  BY ParameterAssumption DEF TypeOK
<1>2. d \in 0 .. SbufDepth - 1
  BY <1>1 DEF LiveSlots
<1>3. PICK st, ln \in Nat : st = sbuf_stack[d].segs[n].start /\ ln = sbuf_stack[d].segs[n].len
  BY <1>2, SegType
<1>4. st + ln <= MaxAddr /\ MaxAddr \in Nat
  <2>1. CASE d \in 0 .. sbuf_stack_top - 1
    <3>1. d + 1 \in DOMAIN call_stack /\ st + ln <= call_stack[d + 1].rbp
      BY <1>1, <1>3, <2>1 DEF Slots, Within
    <3>2. call_stack[d + 1].rbp \in Addr
      BY <3>1, RecordType
    <3> QED
      BY <1>3, <3>1, <3>2, MemoryAssumption DEF Addr
  <2>2. CASE d \notin 0 .. sbuf_stack_top - 1
    <3>1. pc = "restore" /\ d = sbuf_stack_top
      BY <1>1, <2>2 DEF LiveSlots
    <3> QED
      BY <1>3, <3>1, MemoryAssumption DEF Slots, Within
  <2> QED
    BY <2>1, <2>2
<1> QED
  BY <1>3, <1>4 DEF Cells, Span, Addr

GivenBack == ScanUnholed /\ GivenBackShown /\ HolesInFirst
-----------------------------------------------------------------------------

(* One step of restore_pointers *)

(* Giving cells back copies them from one segment and makes them that segment's hole; *)
(* no segment, no other slot and no other hole changes.                               *)
LEMMA GiveBackIs ==
    ASSUME TypeOK, Programs, Slots, Encrypting, NEW c, NEW len \in Nat,
           InBuf(c, len), GiveBack(c, len)
    PROVE  /\ SameSegs
           /\ \A d \in 0 .. SbufDepth - 1 : d # EncSlot => sbuf_stack'[d] = sbuf_stack[d]
           /\ \E x \in DOMAIN sbuf_stack[EncSlot].segs :
                 /\ Span(c, len) \subseteq Cells(sbuf_stack[EncSlot].segs[x])
                 /\ mem' = CopiedBack(mem, sbuf_stack[EncSlot].segs[x], c, len)
                 /\ \A n, a : InHole(sbuf_stack'[EncSlot], n, a) <=>
                                 InHole(sbuf_stack[EncSlot], n, a) \/ (n = x /\ a \in Span(c, len))
<1> DEFINE x == find_in_stack_buf(sbuf_stack[EncSlot], c, len)
           old == sbuf_stack[EncSlot]
           new == list_add_tail(old, x, c, len)
<1>1. EncSlot \in 0 .. SbufDepth - 1 /\ old \in Sbuf /\ sbuf_stack \in [0 .. SbufDepth - 1 -> Sbuf]
  BY SlotType DEF TypeOK
<1>2. /\ x \in DOMAIN old.segs /\ Span(c, len) \subseteq Cells(old.segs[x])
  BY <1>1, FindIsFound DEF InBuf
<1>3. c \in Addr
  BY GiveBackType
<1>4. /\ new \in Sbuf /\ Len(new.holes) = Len(old.holes) + 1
      /\ \A y \in 1 .. Len(old.holes) : new.holes[y] = old.holes[y]
      /\ new.holes[Len(old.holes) + 1] = [seg |-> x, start |-> c, len |-> len]
  BY <1>3, AddedHole
<1>5. /\ mem' = CopiedBack(mem, old.segs[x], c, len)
      /\ sbuf_stack' = [sbuf_stack EXCEPT ![EncSlot] = new]
  BY DEF GiveBack
<1>6. SameSegs
  BY GiveBackSegs
<1> HIDE DEF x, old, new
<1>7. /\ sbuf_stack'[EncSlot] = new
      /\ \A d \in 0 .. SbufDepth - 1 : d # EncSlot => sbuf_stack'[d] = sbuf_stack[d]
  BY <1>1, <1>5
<1>8. DOMAIN new.holes = DOMAIN old.holes \cup {Len(old.holes) + 1}
      /\ \A y \in DOMAIN old.holes : new.holes[y] = old.holes[y]
  <2>1. old.holes \in Seq(Hole) /\ new.holes \in Seq(Hole)
    BY <1>1, <1>4 DEF Sbuf
  <2> QED
    BY <1>4, <2>1
<1>9. ASSUME NEW n, NEW a
      PROVE  InHole(new, n, a) <=> InHole(old, n, a) \/ (n = x /\ a \in Span(c, len))
  BY <1>4, <1>8 DEF InHole
<1> QED
  BY <1>2, <1>5, <1>6, <1>7, <1>9 DEF old, new

(* Which steps give cells back, and that they leave the rest alone. *)
GivesBack(c, len) == /\ Encrypting /\ Encrypting' /\ pc # "scan" /\ pc' # "scan" /\ UNCHANGED sbuf_stack_top
                     /\ InBuf(c, len) /\ GiveBack(c, len)

(* A step of restore_pointers gives cells of the buffer back or moves no datum. *)
LEMMA PointerSteps ==
    ASSUME TypeOK, Programs, PassPointer \/ FollowPointer \/ PassObject
    PROVE  \/ /\ Encrypting /\ Encrypting' /\ pc' # "scan"
              /\ UNCHANGED <<mem, sbuf_stack, sbuf_stack_top>>
           \/ \E c : \E len \in Nat : GivesBack(c, len)
<1>1. CASE PassPointer
  <2>1. GivesBack(Top.plist[k].addr, 1)
    BY <1>1 DEF PassPointer, GivesBack, AtEntry, Encrypting
  <2> QED
    BY <2>1
<1>2. CASE FollowPointer
  <2>1. GivesBack(addr_in_stack, 1)
    BY <1>2 DEF FollowPointer, GivesBack, Chasing, Encrypting
  <2> QED
    BY <2>1
<1>3. CASE PassObject
  <2>1. Top.plist[k].size \in Nat
    BY <1>3, EntryType DEF PassObject, Para
  <2>2. CASE InBuf(addr_in_stack, Top.plist[k].size)
    <3>1. GivesBack(addr_in_stack, Top.plist[k].size)
      BY <1>3, <2>2 DEF PassObject, GivesBack, Chasing, Encrypting
    <3> QED
      BY <2>1, <3>1
  <2>3. CASE ~InBuf(addr_in_stack, Top.plist[k].size)
    BY <1>3, <2>3 DEF PassObject, Chasing, Encrypting
  <2> QED
    BY <2>2, <2>3
<1> QED
  BY <1>1, <1>2, <1>3

(* Every step keeps what the holes say. *)
LEMMA GivenBackStep == IInv /\ GivenBack /\ [Next]_vars => GivenBack'
<1> SUFFICES ASSUME IInv, GivenBack, [Next]_vars PROVE GivenBack'
  OBVIOUS
<1>0. TypeOK /\ Programs /\ Slots
  BY DEF IInv
<1>u. ASSUME pc' = "user" PROVE GivenBack'
  BY <1>u DEF GivenBack, ScanUnholed, GivenBackShown, HolesInFirst, Encrypting
<1>s. ASSUME pc' = "scan", sbuf_stack'[EncSlot'].segs = <<>> \/ sbuf_stack'[EncSlot'].holes = <<>>
      PROVE  GivenBack'
  BY <1>s DEF GivenBack, ScanUnholed, GivenBackShown, HolesInFirst, InHole
<1>e. ASSUME Encrypting, Encrypting', pc' # "scan", UNCHANGED <<mem, sbuf_stack, sbuf_stack_top>>
      PROVE  GivenBack'
  BY <1>e DEF GivenBack, ScanUnholed, GivenBackShown, HolesInFirst, Encrypting, EncSlot, InHole
<1>1. ASSUME NEW s \in Sites, Call(s) PROVE GivenBack'
  BY <1>1, <1>u DEF Call, Running
<1>2. CASE Return \/ EncryptRefused \/ EncryptOverflow \/ EncryptReturn
           \/ DecryptNoMapper \/ DecryptRefused \/ DecryptNoName \/ DecryptReturn
  BY <1>2, <1>u DEF Return, EncryptRefused, EncryptOverflow, EncryptReturn, DecryptNoMapper,
                    DecryptRefused, DecryptNoName, DecryptReturn, Running, Asks
<1>3. ASSUME NEW w \in Stores, Store(w[1], w[2]) PROVE GivenBack'
  BY <1>3, <1>u DEF Store, Running
<1>4. CASE EncryptEnter
  <2>1. /\ pc = "user" /\ pc' = "scan" /\ UNCHANGED sbuf_stack
        /\ sbuf_stack_top' = sbuf_stack_top + 1 /\ sbuf_stack_top < SbufDepth
    BY <1>4 DEF EncryptEnter, Running
  <2>2. sbuf_stack_top \in Nat /\ SbufDepth \in Nat
    BY <1>0, ParameterAssumption DEF TypeOK
  <2>3. sbuf_stack[sbuf_stack_top].segs = <<>> /\ EncSlot' = sbuf_stack_top
    BY <1>0, <2>1, <2>2 DEF Slots, EncSlot
  <2> QED
    BY <1>s, <2>1, <2>3
<1>5. CASE ScanParameter \/ ScanLast
  <2>1. TakeOff /\ pc = "scan" /\ pc' = "scan" /\ EncSlot' = EncSlot
    BY <1>5 DEF ScanParameter, ScanLast, Scanning, EncSlot
  <2>2. EncSlot \in 0 .. SbufDepth - 1 /\ sbuf_stack \in [0 .. SbufDepth - 1 -> Sbuf]
    BY <1>0, <2>1, SlotType DEF Encrypting, TypeOK
  <2>3. sbuf_stack[EncSlot].segs = <<>> \/ sbuf_stack[EncSlot].holes = <<>>
    BY <2>1 DEF GivenBack, ScanUnholed
  <2>4. CASE UNCHANGED sbuf_stack
    BY <1>s, <2>1, <2>3, <2>4
  <2>5. CASE sbuf_stack' = [sbuf_stack EXCEPT ![EncSlot] =
                               copy_stack_buf(sbuf_stack[EncSlot], mem, prev_rsp, i - prev_rsp)]
    <3>1. sbuf_stack'[EncSlot].holes = <<>>
      BY <2>2, <2>3, <2>5 DEF copy_stack_buf
    <3> QED
      BY <1>s, <2>1, <3>1
  <2> QED
    BY <2>1, <2>4, <2>5 DEF TakeOff
<1>6. CASE ScanCell
  <2>1. pc' = "scan" /\ pc = "scan" /\ UNCHANGED <<sbuf_stack, EncSlot>>
    BY <1>6 DEF ScanCell, Scanning, kernel, EncSlot
  <2> QED
    BY <1>s, <2>1 DEF GivenBack, ScanUnholed
<1>7. CASE ScanDone \/ PassByValue \/ PassPointerMissing \/ PassPointerStale \/ FollowPointerMissing
  BY <1>7, <1>e DEF ScanDone, PassByValue, PassPointerMissing, PassPointerStale, FollowPointerMissing,
                    AtEntry, Chasing, Encrypting, kernel
<1>8. ASSUME NEW c, NEW len \in Nat, GivesBack(c, len) PROVE GivenBack'
  <2>1. /\ Encrypting /\ Encrypting' /\ pc' # "scan" /\ EncSlot' = EncSlot
        /\ InBuf(c, len) /\ GiveBack(c, len)
    BY <1>8 DEF GivesBack, EncSlot
  <2>2. PICK x \in DOMAIN sbuf_stack[EncSlot].segs :
                 /\ Span(c, len) \subseteq Cells(sbuf_stack[EncSlot].segs[x])
                 /\ mem' = CopiedBack(mem, sbuf_stack[EncSlot].segs[x], c, len)
                 /\ \A n, a : InHole(sbuf_stack'[EncSlot], n, a) <=>
                                 InHole(sbuf_stack[EncSlot], n, a) \/ (n = x /\ a \in Span(c, len))
    BY <1>0, <2>1, GiveBackIs
  <2>3. sbuf_stack'[EncSlot].segs = sbuf_stack[EncSlot].segs
    BY <1>0, <2>1, SlotType, GiveBackIs DEF SameSegs
  <2>4. EncSlot \in LiveSlots
    BY <1>0, <2>1, ParameterAssumption DEF LiveSlots, Encrypting, EncSlot, TypeOK
  <2>5. ASSUME NEW n \in DOMAIN sbuf_stack'[EncSlot].segs,
               NEW a \in Cells(sbuf_stack'[EncSlot].segs[n]),
               InHole(sbuf_stack'[EncSlot], n, a)
        PROVE  mem'[a] = sbuf_stack'[EncSlot].segs[n].buf[a]
    <3>1. n \in DOMAIN sbuf_stack[EncSlot].segs /\ a \in Cells(sbuf_stack[EncSlot].segs[n])
      BY <2>3
    <3>a. a \in Addr
      BY <1>0, <2>4, <3>1, LiveCells
    <3>2. CASE a \in Span(c, len)
      <4>1. n = x
        BY <1>0, <2>2, <2>4, <3>1, <3>2, LiveDisjoint
      <4> QED
        BY <2>2, <2>3, <3>2, <3>a, <4>1 DEF CopiedBack
    <3>3. CASE a \notin Span(c, len)
      <4>1. InHole(sbuf_stack[EncSlot], n, a)
        BY <2>2, <2>5, <3>3
      <4>2. mem[a] = sbuf_stack[EncSlot].segs[n].buf[a]
        BY <2>1, <3>1, <4>1 DEF GivenBack, GivenBackShown
      <4> QED
        BY <2>2, <2>3, <3>3, <3>a, <4>2 DEF CopiedBack
    <3> QED
      BY <3>2, <3>3
  <2> QED
    BY <2>1, <2>5 DEF GivenBack, ScanUnholed, GivenBackShown, HolesInFirst, Encrypting
<1>9. CASE PassPointer \/ FollowPointer \/ PassObject
  BY <1>0, <1>8, <1>9, <1>e, PointerSteps
<1>10. CASE DecryptEnter
  BY <1>10 DEF DecryptEnter, GivenBack, ScanUnholed, GivenBackShown, HolesInFirst, Encrypting
<1>11. CASE RestoreSegment
  <2>1. /\ pc = "restore" /\ pc' = "restore" /\ k \in Nat /\ k >= 1 /\ k' = k + 1
        /\ GapsDefined(sbuf_stack[DecSlot], k) /\ UNCHANGED <<sbuf_stack, DecSlot>>
    BY <1>0, <1>11 DEF RestoreSegment, AtSegment, kernel, DecSlot, Programs, HandlerFrame, TypeOK
  <2>2. \A x \in DOMAIN sbuf_stack[DecSlot].holes : sbuf_stack[DecSlot].holes[x].seg = 1
    <3>1. CASE k = 1
      BY <2>1, <3>1 DEF GapsDefined, HolesOf
    <3>2. CASE k > 1
      BY <2>1, <3>2 DEF GivenBack, HolesInFirst
    <3> QED
      BY <2>1, <3>1, <3>2
  <2> QED
    BY <2>1, <2>2 DEF GivenBack, ScanUnholed, GivenBackShown, HolesInFirst, Encrypting
<1>12. CASE RestoreUndefined \/ Halted \/ UNCHANGED vars
  <2>1. UNCHANGED <<mem, sbuf_stack, sbuf_stack_top, pc, k>>
    BY <1>12 DEF RestoreUndefined, Halted, vars, kernel, locals
  <2> QED
    BY <2>1 DEF GivenBack, ScanUnholed, GivenBackShown, HolesInFirst, Encrypting, EncSlot, DecSlot, InHole
<1> QED
  BY <1>1, <1>2, <1>3, <1>4, <1>5, <1>6, <1>7, <1>9, <1>10, <1>11, <1>12
  DEF Next, Encrypt, EncryptStep, Decrypt, DecryptStep
-----------------------------------------------------------------------------

(* StackVault implements FrameVault *)

VaultVars == <<plainStack, mem, Asking>>

(* A step that changes neither stack begins no protection unless it enters the scan. *)
LEMMA QuietVault ==
    ASSUME mem' = mem, plainStack' = plainStack, pc' # "scan" \/ UNCHANGED <<pc, acts>>
    PROVE  [Vault!Next]_VaultVars
<1>1. CASE pc' # "scan"
  <2>1. Asking' = {}
    BY <1>1 DEF Asking
  <2>2. Vault!Done
    BY <2>1 DEF Vault!Done
  <2> QED
    BY <2>2 DEF Vault!Next
<1>2. CASE UNCHANGED <<pc, acts>>
  <2>1. Asking' = Asking
    BY <1>2 DEF Asking, Frame, user_rsp, user_rbp, Top
  <2> QED
    BY <2>1 DEF VaultVars
<1> QED
  BY <1>1, <1>2

(* The cells an encrypt takes off the stack were not hidden before. *)
LEMMA ScanFresh ==
    ASSUME TypeOK, Programs, Slots, pc = "scan", i <= user_rbp,
           NEW a \in Span(prev_rsp, i - prev_rsp)
    PROVE  \A d, n : ~Hides(d, n, a)
<1> SUFFICES ASSUME NEW d, NEW n, Hides(d, n, a) PROVE FALSE
  OBVIOUS
<1>1. /\ sbuf_stack_top \in 1 .. SbufDepth /\ SbufDepth \in Nat /\ sbuf_stack_top = Len(call_stack)
      /\ DOMAIN call_stack = 1 .. Len(call_stack) /\ Encrypting /\ acts # <<>>
      /\ i \in Nat /\ prev_rsp \in Nat
  BY ParameterAssumption DEF TypeOK, Encrypting
<1>2. d \in 0 .. sbuf_stack_top - 1 /\ d \in 0 .. SbufDepth - 1
      /\ n \in DOMAIN sbuf_stack[d].segs /\ a \in Cells(sbuf_stack[d].segs[n])
  BY <1>1 DEF Hides, HiddenIn, LiveSlots
<1>3. PICK st, ln \in Nat : st = sbuf_stack[d].segs[n].start /\ ln = sbuf_stack[d].segs[n].len
  BY <1>2, SegType
<1>4. PICK lo, hi \in Nat : lo = prev_rsp /\ hi = i
  BY <1>1
<1>4a. a \in lo .. (lo + (hi - lo) - 1) /\ a \in st .. (st + ln - 1)
  BY <1>2, <1>3, <1>4 DEF Cells, Span
<1>4b. a \in Int /\ st <= a /\ a < st + ln /\ lo <= a /\ a < hi
  BY <1>4a
<1>5. CASE d = EncSlot
  <2>1. st + ln <= lo
    BY <1>2, <1>3, <1>4, <1>5 DEF Slots, Within
  <2> QED
    BY <1>4b, <2>1
<1>6. CASE d # EncSlot
  <2>1. d + 1 \in DOMAIN call_stack /\ Len(call_stack) \in DOMAIN call_stack
        /\ d + 1 < Len(call_stack)
    BY <1>1, <1>2, <1>6 DEF EncSlot
  <2>2. PICK r \in Nat : r = call_stack[d + 1].rsp
    BY <2>1, RecordType
  <2>3. r <= st
    BY <1>2, <1>3, <2>2 DEF Slots, Within
  <2>4. call_stack[Len(call_stack)].rbp < r
    BY <2>1, <2>2 DEF Programs, RecordsOrdered
  <2>5. call_stack[Len(call_stack)].rbp = user_rbp /\ user_rbp \in Nat
    BY <1>1, FrameType DEF Programs, HandlerFrame, Owner, user_rbp, Top
  <2> QED
    BY <1>4, <1>4b, <2>3, <2>4, <2>5
<1> QED
  BY <1>5, <1>6

(* What copying the cells from prev_rsp up to i to the slot does to what is hidden: they *)
(* are, with the values they had, and nothing else changes.                              *)
LEMMA CopiedHiding ==
    ASSUME TypeOK, Programs, Slots, GivenBack, pc = "scan", pc' = "scan", UNCHANGED sbuf_stack_top,
           i <= user_rbp, i > prev_rsp,
           sbuf_stack' = [sbuf_stack EXCEPT ![EncSlot] =
                             copy_stack_buf(sbuf_stack[EncSlot], mem, prev_rsp, i - prev_rsp)],
           NEW a \in Addr
    PROVE  /\ a \notin Span(prev_rsp, i - prev_rsp) => SameHiding(a)
           /\ a \in Span(prev_rsp, i - prev_rsp) =>
                 \E d, n : Hides(d, n, a)' /\ sbuf_stack'[d].segs[n].buf[a] = mem[a]
<1> DEFINE old == sbuf_stack[EncSlot]
           len == i - prev_rsp
           new == copy_stack_buf(old, mem, prev_rsp, len)
           l   == Len(old.segs)
<1>1. /\ EncSlot \in 0 .. SbufDepth - 1 /\ old \in Sbuf /\ sbuf_stack \in [0 .. SbufDepth - 1 -> Sbuf]
      /\ mem \in [Addr -> Val] /\ Encrypting /\ acts # <<>> /\ i \in Nat /\ prev_rsp \in Nat
  BY SlotType DEF TypeOK, Encrypting
<1>2. prev_rsp \in Addr /\ len \in Nat \ {0}
  BY <1>1, FrameType, MemoryAssumption DEF Addr
<1>3. /\ new \in Sbuf /\ Len(new.segs) = l + 1
      /\ \A x \in 1 .. l : new.segs[x] = old.segs[x]
      /\ new.segs[l + 1].start = prev_rsp /\ new.segs[l + 1].len = len
      /\ \A c \in Span(prev_rsp, len) \cap Addr : new.segs[l + 1].buf[c] = mem[c]
  <2> HIDE DEF old, len
  <2> QED
    BY <1>1, <1>2, CopyAppends, SMTT(30)
<1>4. new.holes = <<>> /\ (old.segs = <<>> \/ old.holes = <<>>)
  BY DEF copy_stack_buf, GivenBack, ScanUnholed
<1>5. sbuf_stack'[EncSlot] = new /\ EncSlot' = EncSlot /\ LiveSlots' = LiveSlots
      /\ EncSlot \in LiveSlots
      /\ \A d \in 0 .. SbufDepth - 1 : d # EncSlot => sbuf_stack'[d] = sbuf_stack[d]
  <2>1. EncSlot \in LiveSlots
    BY <1>1, ParameterAssumption DEF LiveSlots, EncSlot, TypeOK
  <2> QED
    BY <1>1, <2>1 DEF EncSlot, LiveSlots
<1>6. LiveSlots \subseteq 0 .. SbufDepth - 1
  BY ParameterAssumption DEF LiveSlots, TypeOK
<1>7. /\ old.segs \in Seq(Segment) /\ new.segs \in Seq(Segment) /\ l \in Nat
      /\ DOMAIN old.segs = 1 .. l /\ DOMAIN new.segs = 1 .. l + 1
  <2>1. old.segs \in Seq(Segment) /\ new.segs \in Seq(Segment)
    BY <1>1, <1>3 DEF Sbuf
  <2> QED
    BY <1>3, <2>1
<1> HIDE DEF old, len, new, l
<1>8. ASSUME NEW d, NEW n
      PROVE  /\ Hides(d, n, a)' <=> \/ Hides(d, n, a)
                                    \/ d = EncSlot /\ n = l + 1 /\ a \in Span(prev_rsp, len)
             /\ Hides(d, n, a) => sbuf_stack'[d].segs[n] = sbuf_stack[d].segs[n]
  <2>1. CASE d \notin LiveSlots
    BY <1>5, <2>1 DEF Hides
  <2>2. CASE d \in LiveSlots /\ d # EncSlot
    <3>1. sbuf_stack'[d] = sbuf_stack[d]
      BY <1>5, <1>6, <2>2
    <3> QED
      BY <1>5, <2>2, <3>1 DEF Hides, HiddenIn, FirstLive
  <2>3. CASE d = EncSlot
    <3>1. Hides(d, n, a)' <=> n \in DOMAIN new.segs /\ n >= 1 /\ a \in Cells(new.segs[n])
      BY <1>4, <1>5, <2>3 DEF Hides, HiddenIn, FirstLive, InHole
    <3>2. ~InHole(old, n, a) \/ DOMAIN old.segs = {}
      BY <1>4 DEF InHole
    <3>3. Hides(d, n, a) <=> n \in DOMAIN old.segs /\ n >= 1 /\ a \in Cells(old.segs[n])
      BY <1>5, <2>3, <3>2 DEF Hides, HiddenIn, FirstLive, old
    <3>4. CASE n = l + 1
      <4>1. n \in DOMAIN new.segs /\ n >= 1 /\ n \notin DOMAIN old.segs
        BY <1>7, <3>4
      <4> QED
        BY <1>3, <2>3, <3>1, <3>3, <3>4, <4>1 DEF Cells
    <3>5. CASE n # l + 1
      <4>1. n \in DOMAIN new.segs <=> n \in DOMAIN old.segs
        BY <1>7, <3>5
      <4>2. n \in DOMAIN old.segs => new.segs[n] = old.segs[n]
        BY <1>3, <1>7
      <4>3. Hides(d, n, a)' <=> Hides(d, n, a)
        BY <3>1, <3>3, <4>1, <4>2
      <4> QED
        BY <1>5, <2>3, <3>3, <3>5, <4>2, <4>3 DEF old
    <3> QED
      BY <3>4, <3>5
  <2> QED
    BY <2>1, <2>2, <2>3
<1>9. a \notin Span(prev_rsp, len) => SameHiding(a)
  BY <1>8 DEF SameHiding
<1>10. a \in Span(prev_rsp, len) =>
          \E d, n : Hides(d, n, a)' /\ sbuf_stack'[d].segs[n].buf[a] = mem[a]
  <2>1. PICK e, m : e = EncSlot /\ m = l + 1
    OBVIOUS
  <2>2. a \in Span(prev_rsp, len) => Hides(e, m, a)'
    BY <1>8, <2>1
  <2>3. a \in Span(prev_rsp, len) => sbuf_stack'[e].segs[m].buf[a] = mem[a]
    BY <1>3, <1>5, <2>1
  <2> QED
    BY <2>2, <2>3
<1> QED
  BY <1>9, <1>10 DEF len

(* The steps that do not leave both stacks alone *)

(* Taking cells off the stack hides them, or loses them where the copy is refused. *)
LEMMA TakeOffVault ==
    ASSUME IInv, GivenBack, PlainIs, PlainIs', ScanParameter \/ ScanLast
    PROVE  /\ [Vault!Next]_VaultVars
           /\ ~AllocFails => plainStack' = plainStack
<1>0. TypeOK /\ Programs /\ Slots
  BY DEF IInv
<1>1. /\ TakeOff /\ pc = "scan" /\ pc' = "scan" /\ UNCHANGED sbuf_stack_top /\ i <= user_rbp
      /\ mem \in [Addr -> Val]
  BY <1>0 DEF ScanParameter, ScanLast, Scanning, TypeOK
<1>a. Asking' = Asking /\ Span(prev_rsp, i - prev_rsp) \subseteq Asking
  <2>1. Asking' = Frame /\ Asking = Frame
    BY <1>1 DEF Asking, Frame, user_rsp, user_rbp, Top, ScanParameter, ScanLast
  <2>2. /\ user_rsp \in Nat /\ user_rbp \in Nat /\ i \in Nat /\ prev_rsp \in Nat
        /\ user_rsp <= prev_rsp /\ i <= user_rbp
    BY <1>0, <1>1, FrameType DEF TypeOK, Slots
  <2>3. Span(prev_rsp, i - prev_rsp) \subseteq Frame
    BY <2>2 DEF Span, Frame
  <2> QED
    BY <2>1, <2>3
<1>2. CASE UNCHANGED <<sbuf_stack, mem>>
  BY <1>1, <1>2, <1>a, QuietPlain DEF VaultVars
<1>3. CASE /\ i > prev_rsp
           /\ mem' = Filled(mem, prev_rsp, i - prev_rsp)
           /\ sbuf_stack' = [sbuf_stack EXCEPT ![EncSlot] =
                                copy_stack_buf(sbuf_stack[EncSlot], mem, prev_rsp, i - prev_rsp)]
  <2>1. ASSUME NEW a \in Addr
        PROVE  /\ plainStack'[a] = plainStack[a]
               /\ mem'[a] = mem[a] \/ (a \in Asking /\ mem'[a] = Fill)
    <3>1. CASE a \notin Span(prev_rsp, i - prev_rsp)
      <4>1. SameHiding(a)
        BY <1>0, <1>1, <1>3, <3>1, CopiedHiding
      <4>2. mem'[a] = mem[a]
        BY <1>3, <3>1 DEF Filled
      <4> QED
        BY <4>1, <4>2, PlainCell
    <3>2. CASE a \in Span(prev_rsp, i - prev_rsp)
      <4>1. PICK d, n : Hides(d, n, a)' /\ sbuf_stack'[d].segs[n].buf[a] = mem[a]
        BY <1>0, <1>1, <1>3, <3>2, CopiedHiding
      <4>3. plainStack'[a] = sbuf_stack'[d].segs[n].buf[a]
        BY <4>1 DEF PlainIs, Addr
      <4>4. \A e, m : ~Hides(e, m, a)
        BY <1>0, <1>1, <3>2, ScanFresh
      <4>5. plainStack[a] = mem[a]
        BY <4>4 DEF PlainIs
      <4>6. mem'[a] = Fill
        BY <1>3, <3>2 DEF Filled
      <4> QED
        BY <1>a, <3>2, <4>1, <4>3, <4>5, <4>6
    <3> QED
      BY <3>1, <3>2
  <2>a. \A a \in Addr : plainStack'[a] = plainStack[a]
    BY <2>1
  <2>2. plainStack' = plainStack
    BY <2>a, PlainSame
  <2>3. Vault!Conceal
    BY <1>a, <2>1, <2>2 DEF Vault!Conceal
  <2> QED
    BY <2>2, <2>3 DEF Vault!Next
<1>4. CASE /\ i > prev_rsp /\ AllocFails
           /\ mem' = Filled(mem, prev_rsp, i - prev_rsp)
           /\ UNCHANGED sbuf_stack
  <2>1. ASSUME NEW a \in Addr
        PROVE  \/ plainStack'[a] = plainStack[a] /\ mem'[a] = mem[a]
               \/ a \in Asking /\ plainStack[a] = mem[a] /\ plainStack'[a] = Fill /\ mem'[a] = Fill
    <3>1. SameHiding(a)
      BY <1>1, <1>4 DEF SameHiding, Hides, HiddenIn, LiveSlots, FirstLive
    <3>2. CASE a \notin Span(prev_rsp, i - prev_rsp)
      <4>1. mem'[a] = mem[a]
        BY <1>4, <3>2 DEF Filled
      <4> QED
        BY <3>1, <4>1, PlainCell
    <3>3. CASE a \in Span(prev_rsp, i - prev_rsp)
      <4>1. \A d, m : ~Hides(d, m, a)
        BY <1>0, <1>1, <3>3, ScanFresh
      <4>2. \A d, m : ~Hides(d, m, a)'
        BY <3>1, <4>1 DEF SameHiding
      <4>3. plainStack[a] = mem[a]
        BY <4>1 DEF PlainIs
      <4>4. plainStack'[a] = mem'[a]
        BY <4>2 DEF PlainIs, Addr
      <4>5. mem'[a] = Fill
        BY <1>4, <3>3 DEF Filled
      <4> QED
        BY <1>a, <3>3, <4>3, <4>4, <4>5
    <3> QED
      BY <3>2, <3>3
  <2>2. Vault!Lose
    BY <1>4, <1>a, <2>1 DEF Vault!Lose
  <2> QED
    BY <1>4, <2>2 DEF Vault!Next
<1> QED
  BY <1>1, <1>2, <1>3, <1>4 DEF TakeOff

(* Giving cells back reveals them, and changes none that was in sight already. *)
LEMMA GiveBackVault ==
    ASSUME IInv, GivenBack, PlainIs, PlainIs', NEW c, NEW len \in Nat, GivesBack(c, len)
    PROVE  [Vault!Next]_VaultVars /\ plainStack' = plainStack
<1>0. TypeOK /\ Programs /\ Slots
  BY DEF IInv
<1>1. /\ Encrypting /\ Encrypting' /\ EncSlot' = EncSlot /\ UNCHANGED sbuf_stack_top
      /\ InBuf(c, len) /\ GiveBack(c, len) /\ mem \in [Addr -> Val]
  BY <1>0 DEF GivesBack, EncSlot, TypeOK
<1>2. /\ SameSegs
      /\ \A d \in 0 .. SbufDepth - 1 : d # EncSlot => sbuf_stack'[d] = sbuf_stack[d]
  BY <1>0, <1>1, GiveBackIs
<1>3. PICK x \in DOMAIN sbuf_stack[EncSlot].segs :
                 /\ Span(c, len) \subseteq Cells(sbuf_stack[EncSlot].segs[x])
                 /\ mem' = CopiedBack(mem, sbuf_stack[EncSlot].segs[x], c, len)
                 /\ \A n, a : InHole(sbuf_stack'[EncSlot], n, a) <=>
                                 InHole(sbuf_stack[EncSlot], n, a) \/ (n = x /\ a \in Span(c, len))
  BY <1>0, <1>1, GiveBackIs
<1>4. /\ LiveSlots' = LiveSlots /\ LiveSlots \subseteq 0 .. SbufDepth - 1 /\ EncSlot \in LiveSlots
      /\ \A d : FirstLive(d)' = FirstLive(d)
  <2>1. pc # "restore" /\ pc' # "restore"
    BY <1>1 DEF Encrypting
  <2> QED
    BY <1>0, <1>1, <2>1, ParameterAssumption DEF LiveSlots, FirstLive, TypeOK, EncSlot, Encrypting
<1>5. \A d \in LiveSlots : sbuf_stack'[d].segs = sbuf_stack[d].segs
  BY <1>2, <1>4 DEF SameSegs
<1>6. ASSUME NEW a \in Addr PROVE plainStack'[a] = plainStack[a] /\ mem'[a] \in {mem[a], plainStack[a]}
  <2>1. CASE a \notin Span(c, len)
    <3>1. ASSUME NEW d, NEW n PROVE Hides(d, n, a)' <=> Hides(d, n, a)
      <4>1. CASE d \notin LiveSlots
        BY <1>4, <4>1 DEF Hides
      <4>2. CASE d \in LiveSlots /\ d # EncSlot
        <5>1. sbuf_stack'[d] = sbuf_stack[d]
          BY <1>2, <1>4, <4>2
        <5> QED
          BY <1>4, <4>2, <5>1 DEF Hides, HiddenIn
      <4>3. CASE d = EncSlot
        <5>1. InHole(sbuf_stack'[d], n, a) <=> InHole(sbuf_stack[d], n, a)
          BY <1>3, <2>1, <4>3
        <5> QED
          BY <1>4, <1>5, <4>3, <5>1 DEF Hides, HiddenIn
      <4> QED
        BY <4>1, <4>2, <4>3
    <3>2. SameHiding(a)
      BY <1>5, <3>1 DEF SameHiding, Hides
    <3>3. mem'[a] = mem[a]
      BY <1>3, <2>1 DEF CopiedBack
    <3> QED
      BY <3>2, <3>3, PlainCell
  <2>2. CASE a \in Span(c, len)
    <3>1. a \in Cells(sbuf_stack[EncSlot].segs[x])
      BY <1>3, <2>2
    <3>2. mem'[a] = sbuf_stack[EncSlot].segs[x].buf[a]
      BY <1>3, <2>2 DEF CopiedBack
    <3>3. ASSUME NEW d, NEW n, d \in LiveSlots, n \in DOMAIN sbuf_stack[d].segs,
                 a \in Cells(sbuf_stack[d].segs[n])
          PROVE  d = EncSlot /\ n = x
      BY <1>0, <1>4, <3>1, <3>3, LiveDisjoint
    <3>4. InHole(sbuf_stack'[EncSlot], x, a)
      BY <1>3, <2>2
    <3>5. \A d, n : ~Hides(d, n, a)'
      <4> SUFFICES ASSUME NEW d, NEW n, Hides(d, n, a)' PROVE FALSE
        OBVIOUS
      <4>1. d \in LiveSlots /\ n \in DOMAIN sbuf_stack[d].segs /\ a \in Cells(sbuf_stack[d].segs[n])
            /\ ~InHole(sbuf_stack'[d], n, a)
        BY <1>4, <1>5 DEF Hides, HiddenIn
      <4> QED
        BY <3>3, <3>4, <4>1
    <3>6. plainStack'[a] = mem'[a]
      BY <3>5 DEF PlainIs, Addr
    <3>7. plainStack[a] = sbuf_stack[EncSlot].segs[x].buf[a]
      <4>1. CASE InHole(sbuf_stack[EncSlot], x, a)
        <5>1. mem[a] = sbuf_stack[EncSlot].segs[x].buf[a]
          BY <1>1, <3>1, <4>1 DEF GivenBack, GivenBackShown
        <5>2. \A d, n : ~Hides(d, n, a)
          BY <3>3, <4>1 DEF Hides, HiddenIn
        <5>3. plainStack[a] = mem[a]
          BY <5>2 DEF PlainIs
        <5> QED
          BY <5>1, <5>3
      <4>2. CASE ~InHole(sbuf_stack[EncSlot], x, a)
        <5>1. x >= FirstLive(EncSlot)
          <6>1. FirstLive(EncSlot) = 1
            BY <1>1 DEF FirstLive, Encrypting
          <6>2. x \in Nat \ {0}
            <7>1. sbuf_stack[EncSlot].segs \in Seq(Segment)
              BY <1>0, <1>1, SlotType DEF Sbuf
            <7> QED
              BY <7>1
          <6> QED
            BY <6>1, <6>2
        <5>2. Hides(EncSlot, x, a)
          BY <1>4, <3>1, <4>2, <5>1 DEF Hides, HiddenIn
        <5> QED
          BY <5>2 DEF PlainIs
      <4> QED
        BY <4>1, <4>2
    <3> QED
      BY <3>2, <3>6, <3>7
  <2> QED
    BY <2>1, <2>2
<1>7. plainStack' = plainStack
  BY <1>6, PlainSame
<1>8. Asking = {} /\ Asking' = {}
  BY DEF GivesBack, Asking
<1>9. Vault!Reveal
  BY <1>6, <1>7, <1>8 DEF Vault!Reveal
<1> QED
  BY <1>7, <1>9 DEF Vault!Next

(* Restoring, and the theorem *)

(* Restoring a segment reveals what it hides, and changes no cell given back before. *)
LEMMA RestoreVault ==
    ASSUME IInv, GivenBack, PlainIs, PlainIs', RestoreSegment
    PROVE  [Vault!Next]_VaultVars
<1> DEFINE sbuf == sbuf_stack[DecSlot]
<1>0. TypeOK /\ Programs /\ Slots
  BY DEF IInv
<1>1. /\ pc = "restore" /\ pc' = "restore" /\ k' = k + 1 /\ k \in Nat /\ k >= 1
      /\ k <= Len(sbuf.segs) /\ GapsDefined(sbuf, k)
      /\ mem' = RestoredSegment(mem, sbuf, k)
      /\ UNCHANGED <<sbuf_stack, sbuf_stack_top>>
  BY <1>0 DEF RestoreSegment, AtSegment, kernel, TypeOK, Programs, HandlerFrame
<1>2. /\ LiveSlots' = LiveSlots /\ DecSlot \in LiveSlots /\ LiveSlots \subseteq 0 .. SbufDepth - 1
      /\ sbuf \in Sbuf
  BY <1>0, <1>1, SlotType, ParameterAssumption DEF LiveSlots, DecSlot, TypeOK
<1>3. k \in DOMAIN sbuf.segs
  BY <1>1, <1>2 DEF Sbuf
<1>4. ASSUME NEW a PROVE a \in Gaps(sbuf, k) <=> Hides(DecSlot, k, a)
  <2>1. Hides(DecSlot, k, a) <=> a \in Cells(sbuf.segs[k]) /\ ~InHole(sbuf, k, a)
    BY <1>1, <1>2, <1>3 DEF Hides, HiddenIn, FirstLive, DecSlot
  <2>2. CASE k = 1
    <3>1. \A y \in DOMAIN sbuf.holes : sbuf.holes[y].seg = k
      BY <1>1, <2>2 DEF GapsDefined, HolesOf
    <3> QED
      BY <2>1, <2>2, <3>1 DEF Gaps, HolesOf, InHole
  <2>3. CASE k > 1
    <3>1. \A y \in DOMAIN sbuf.holes : sbuf.holes[y].seg = 1
      BY <1>1, <2>3 DEF GivenBack, HolesInFirst
    <3>2. ~InHole(sbuf, k, a)
      BY <2>3, <3>1 DEF InHole
    <3>3. Gaps(sbuf, k) = Cells(sbuf.segs[k])
      BY <2>3 DEF Gaps, HolesOf
    <3> QED
      BY <2>1, <3>2, <3>3
  <2> QED
    BY <1>1, <2>2, <2>3
<1>5. ASSUME NEW a, NEW d, NEW n PROVE Hides(d, n, a)' <=> Hides(d, n, a) /\ ~(d = DecSlot /\ n = k)
  <2>1. CASE d = DecSlot /\ d \in LiveSlots /\ n \in DOMAIN sbuf.segs
    <3>1. n \in Nat
      BY <1>2, <2>1 DEF Sbuf
    <3>2. FirstLive(d) = k /\ FirstLive(d)' = k + 1
      BY <1>1, <2>1 DEF FirstLive, DecSlot
    <3>3. n >= k + 1 <=> n >= k /\ n # k
      BY <1>1, <3>1
    <3> QED
      BY <1>1, <1>2, <2>1, <3>2, <3>3 DEF Hides, HiddenIn
  <2>2. CASE d = DecSlot /\ ~(d \in LiveSlots /\ n \in DOMAIN sbuf.segs)
    BY <1>1, <1>2, <2>2 DEF Hides, HiddenIn
  <2>3. CASE d # DecSlot
    BY <1>1, <1>2, <2>3 DEF Hides, HiddenIn, FirstLive, DecSlot
  <2> QED
    BY <2>1, <2>2, <2>3
<1>6. ASSUME NEW a \in Addr PROVE plainStack'[a] = plainStack[a] /\ mem'[a] \in {mem[a], plainStack[a]}
  <2>1. CASE a \notin Gaps(sbuf, k)
    <3>1. SameHiding(a)
      BY <1>1, <1>4, <1>5, <2>1 DEF SameHiding
    <3>2. mem'[a] = mem[a]
      BY <1>1, <2>1 DEF RestoredSegment
    <3> QED
      BY <3>1, <3>2, PlainCell
  <2>2. CASE a \in Gaps(sbuf, k)
    <3>1. PICK e : e = DecSlot
      OBVIOUS
    <3>2. Hides(e, k, a)
      BY <1>4, <2>2, <3>1
    <3>3. plainStack[a] = sbuf_stack[e].segs[k].buf[a]
      BY <3>2 DEF PlainIs
    <3>4. mem'[a] = sbuf_stack[e].segs[k].buf[a]
      BY <1>1, <2>2, <3>1 DEF RestoredSegment
    <3>5. \A d, n : ~Hides(d, n, a)'
      <4> SUFFICES ASSUME NEW d, NEW n, Hides(d, n, a), ~(d = e /\ n = k) PROVE FALSE
        BY <1>5, <3>1
      <4>1. /\ e \in LiveSlots /\ k \in DOMAIN sbuf_stack[e].segs /\ a \in Cells(sbuf_stack[e].segs[k])
            /\ d \in LiveSlots /\ n \in DOMAIN sbuf_stack[d].segs /\ a \in Cells(sbuf_stack[d].segs[n])
        BY <3>2 DEF Hides, HiddenIn
      <4> QED
        BY <1>0, <4>1, LiveDisjoint
    <3>6. plainStack'[a] = mem'[a]
      BY <3>5 DEF PlainIs, Addr
    <3> QED
      BY <3>3, <3>4, <3>6
  <2> QED
    BY <2>1, <2>2
<1>7. plainStack' = plainStack
  BY <1>6, PlainSame
<1>8. Asking = {} /\ Asking' = {}
  BY <1>1 DEF Asking
<1>9. Vault!Reveal
  BY <1>6, <1>7, <1>8 DEF Vault!Reveal
<1> QED
  BY <1>7, <1>9 DEF Vault!Next

(* A store goes to a cell in sight, and only there. *)
LEMMA StoreVault ==
    ASSUME IInv, PlainIs, PlainIs', NEW w \in Stores, Store(w[1], w[2])
    PROVE  [Vault!Next]_VaultVars
<1>1. /\ ~Hidden(w[1]) /\ mem' = [mem EXCEPT ![w[1]] = w[2]] /\ mem \in [Addr -> Val]
      /\ UNCHANGED <<sbuf_stack, sbuf_stack_top, pc, k>>
      /\ w[1] \in Addr /\ w[2] \in Data
  BY ParameterAssumption DEF Store, kernel, locals, IInv, TypeOK
<1>2. \A a \in Addr : SameHiding(a)
  BY <1>1 DEF SameHiding, Hides, HiddenIn, LiveSlots, FirstLive
<1>3. \A d, n : ~Hides(d, n, w[1])
  BY <1>1 DEF PlainIs
<1>4. plainStack[w[1]] = mem[w[1]]
  BY <1>1, <1>3 DEF PlainIs
<1>5. ASSUME NEW a \in Addr PROVE plainStack'[a] = IF a = w[1] THEN w[2] ELSE plainStack[a]
  <2>1. CASE a = w[1]
    <3>1. \A d, n : ~Hides(d, n, a)'
      BY <1>2, <1>3, <2>1 DEF SameHiding
    <3>2. plainStack'[a] = mem'[a]
      BY <3>1 DEF PlainIs, Addr
    <3> QED
      BY <1>1, <2>1, <3>2
  <2>2. CASE a # w[1]
    BY <1>1, <1>2, <2>2, PlainCell
  <2> QED
    BY <2>1, <2>2
<1>6. plainStack' = [plainStack EXCEPT ![w[1]] = w[2]]
  <2>1. plainStack' = [a \in Addr |-> plainStack'[a]] /\ plainStack = [a \in Addr |-> plainStack[a]]
    BY DEF plainStack, Addr
  <2> QED
    BY <1>1, <1>5, <2>1
<1>7. Asking = {} /\ Asking' = {}
  BY <1>1 DEF Asking, Store, Running
<1>8. Vault!Store
  BY <1>1, <1>4, <1>6, <1>7 DEF Vault!Store
<1> QED
  BY <1>8 DEF Vault!Next

(* An encrypt that begins hides nothing yet: its slot is empty. *)
LEMMA EnterPlain ==
    ASSUME TypeOK, Slots, PlainIs, PlainIs', EncryptEnter
    PROVE  plainStack' = plainStack
<1>b. sbuf_stack_top \in 0 .. SbufDepth /\ SbufDepth \in Nat
  BY ParameterAssumption DEF TypeOK
<1>1. /\ pc = "user" /\ pc' = "scan" /\ UNCHANGED <<mem, sbuf_stack>>
      /\ sbuf_stack_top' = sbuf_stack_top + 1 /\ sbuf_stack_top < SbufDepth
  BY DEF EncryptEnter, Running
<1>2. sbuf_stack[sbuf_stack_top].segs = <<>>
  BY <1>b, <1>1 DEF Slots
<1>3. LiveSlots' = LiveSlots \cup {sbuf_stack_top}
  BY <1>b, <1>1 DEF LiveSlots
<1>4. \A a \in Addr : SameHiding(a)
  BY <1>1, <1>2, <1>3 DEF SameHiding, Hides, HiddenIn, FirstLive
<1>5. \A a \in Addr : plainStack'[a] = plainStack[a]
  BY <1>1, <1>4, PlainCell
<1> QED
  BY <1>5, PlainSame

(* Every step is one of FrameVault's, or leaves its variables alone. *)
LEMMA VaultStep ==
    ASSUME IInv, IInv', GivenBack, [Next]_vars
    PROVE  [Vault!Next]_VaultVars
<1>0. TypeOK /\ Programs /\ Slots /\ PlainIs /\ PlainIs'
  BY PlainRead, PlainReadNext DEF IInv
<1>b. sbuf_stack_top \in 0 .. SbufDepth /\ SbufDepth \in Nat /\ sbuf_stack_top = Len(call_stack)
  BY <1>0, ParameterAssumption DEF TypeOK
<1>q. ASSUME UNCHANGED <<mem, sbuf_stack, sbuf_stack_top>>,
             pc' = "restore" <=> pc = "restore", pc = "restore" => k' = k,
             pc' # "scan" \/ UNCHANGED <<pc, acts>>
      PROVE  [Vault!Next]_VaultVars
  BY <1>0, <1>q, QuietPlain, QuietVault
<1>h. ASSUME mem' = mem, \A a \in Addr : SameHiding(a), pc' # "scan" PROVE [Vault!Next]_VaultVars
  <2>1. \A a \in Addr : plainStack'[a] = plainStack[a]
    BY <1>0, <1>h, PlainCell
  <2> QED
    BY <1>h, <2>1, PlainSame, QuietVault
<1>1. CASE (\E s \in Sites : Call(s)) \/ Return
  BY <1>1, <1>q DEF Call, Return, Running, kernel
<1>2. ASSUME NEW w \in Stores, Store(w[1], w[2]) PROVE [Vault!Next]_VaultVars
  BY <1>0, <1>2, StoreVault
<1>3. CASE EncryptRefused \/ EncryptOverflow
  BY <1>3, <1>q DEF EncryptRefused, EncryptOverflow, Running
<1>4. CASE EncryptEnter
  <2>1. Asking = {} /\ mem' = mem /\ SetTop(Requested) /\ acts # <<>>
    BY <1>4 DEF Asking, EncryptEnter, Running
  <2>2. /\ Requested \in Activation /\ Requested.sp = Top.sp /\ Requested.rbp = Top.rbp
    BY <1>0, <2>1, ActivationUpdates
  <2>3. Top' = Requested
    BY <1>0, <2>1, <2>2, SetTopOnly DEF Top
  <2>4. Asking' = Frame
    BY <1>4, <2>2, <2>3 DEF Asking, Frame, user_rsp, user_rbp, EncryptEnter
  <2>5. Frame \subseteq Addr
    BY <1>0, <2>1, FrameType, MemoryAssumption DEF Frame, Addr
  <2>6. plainStack' = plainStack
    BY <1>0, <1>4, EnterPlain
  <2>7. Vault!Ask
    BY <2>1, <2>4, <2>5, <2>6 DEF Vault!Ask
  <2> QED
    BY <2>7 DEF Vault!Next
<1>5. CASE ScanParameter \/ ScanLast
  BY <1>0, <1>5, TakeOffVault
<1>6. CASE ScanCell \/ ScanDone \/ PassByValue \/ PassPointerStale \/ PassPointerMissing
           \/ FollowPointerMissing \/ EncryptReturn
  BY <1>6, <1>q DEF ScanCell, ScanDone, PassByValue, PassPointerStale, PassPointerMissing,
                    FollowPointerMissing, EncryptReturn, Scanning, AtEntry, Chasing, kernel
<1>7. CASE PassPointer \/ FollowPointer \/ PassObject
  <2>1. CASE /\ Encrypting /\ Encrypting' /\ pc' # "scan"
             /\ UNCHANGED <<mem, sbuf_stack, sbuf_stack_top>>
    BY <1>q, <2>1 DEF Encrypting
  <2>2. ASSUME NEW c, NEW len \in Nat, GivesBack(c, len)
        PROVE  [Vault!Next]_VaultVars
    BY <1>0, <2>2, GiveBackVault
  <2> QED
    BY <1>0, <1>7, <2>1, <2>2, PointerSteps
<1>8. CASE DecryptNoMapper \/ DecryptRefused \/ DecryptNoName
  BY <1>8, <1>q DEF DecryptNoMapper, DecryptRefused, DecryptNoName, Asks, Running, kernel
<1>9. CASE DecryptEnter
  <2>1. /\ pc = "user" /\ pc' = "restore" /\ k' = 1 /\ UNCHANGED <<mem, sbuf_stack>>
        /\ sbuf_stack_top' = sbuf_stack_top - 1
    BY <1>9 DEF DecryptEnter, Asks, Running
  <2>2. LiveSlots' = LiveSlots
    BY <1>b, <2>1 DEF LiveSlots
  <2>3. \A d : FirstLive(d)' = 1 /\ FirstLive(d) = 1
    BY <2>1 DEF FirstLive
  <2>4. \A a \in Addr : SameHiding(a)
    BY <2>1, <2>2, <2>3 DEF SameHiding, Hides, HiddenIn
  <2> QED
    BY <1>h, <2>1, <2>4
<1>10. CASE RestoreSegment
  BY <1>0, <1>10, RestoreVault
<1>11. CASE RestoreUndefined \/ Halted \/ UNCHANGED vars
  BY <1>11, <1>q DEF RestoreUndefined, Halted, vars, kernel, locals
<1>12. CASE DecryptReturn
  <2>1. /\ pc = "restore" /\ pc' = "user" /\ UNCHANGED <<mem, sbuf_stack_top>>
        /\ sbuf_stack' = [sbuf_stack EXCEPT ![DecSlot].segs = <<>>]
        /\ k > Len(sbuf_stack[DecSlot].segs) /\ k \in Nat
    BY <1>0, <1>12 DEF DecryptReturn, TypeOK
  <2>2. /\ LiveSlots = LiveSlots' \cup {DecSlot} /\ DecSlot \notin LiveSlots'
        /\ LiveSlots' \subseteq 0 .. SbufDepth - 1
    BY <1>b, <2>1 DEF LiveSlots, DecSlot
  <2>3. \A n, a : ~Hides(DecSlot, n, a)
    <3>1. sbuf_stack[DecSlot].segs \in Seq(Segment)
      BY <1>0, <2>1, SlotType DEF Sbuf
    <3>2. FirstLive(DecSlot) = k
      BY <2>1 DEF FirstLive, DecSlot
    <3> QED
      BY <2>1, <3>1, <3>2 DEF Hides, HiddenIn
  <2>4. \A d \in LiveSlots' : /\ sbuf_stack'[d] = sbuf_stack[d] /\ d # DecSlot
                              /\ FirstLive(d)' = FirstLive(d)
    BY <1>0, <2>1, <2>2 DEF TypeOK, FirstLive, DecSlot
  <2>5. ASSUME NEW a, NEW d, NEW n PROVE Hides(d, n, a)' <=> Hides(d, n, a)
    <3>1. CASE d \in LiveSlots'
      BY <2>2, <2>4, <3>1 DEF Hides, HiddenIn
    <3>2. CASE d \notin LiveSlots'
      <4>1. d = DecSlot \/ d \notin LiveSlots
        BY <2>2, <3>2
      <4> QED
        BY <2>3, <3>2, <4>1 DEF Hides
    <3> QED
      BY <3>1, <3>2
  <2>6. \A a \in Addr : SameHiding(a)
    BY <2>4, <2>5 DEF SameHiding, Hides
  <2> QED
    BY <1>h, <2>1, <2>6
<1> QED
  BY <1>1, <1>2, <1>3, <1>4, <1>5, <1>6, <1>7, <1>8, <1>9, <1>10, <1>11, <1>12
  DEF Next, Encrypt, EncryptStep, Decrypt, DecryptStep

(* An encrypt leaves the stack as the program knows it alone, from its first step to its last. *)
LEMMA HandlerPlain ==
    ASSUME IInv, IInv', GivenBack, ~AllocFails, EncryptEnter \/ EncryptStep
    PROVE  plainStack' = plainStack
<1>0. TypeOK /\ Programs /\ Slots /\ PlainIs /\ PlainIs'
  BY PlainRead, PlainReadNext DEF IInv
<1>1. CASE EncryptEnter
  BY <1>0, <1>1, EnterPlain
<1>2. CASE ScanParameter \/ ScanLast
  BY <1>0, <1>2, TakeOffVault
<1>3. CASE ScanCell \/ ScanDone \/ PassByValue \/ PassPointerStale \/ PassPointerMissing
           \/ FollowPointerMissing \/ EncryptReturn
  <2>1. /\ UNCHANGED <<mem, sbuf_stack, sbuf_stack_top>> /\ pc # "restore" /\ pc' # "restore"
    BY <1>3 DEF ScanCell, ScanDone, PassByValue, PassPointerStale, PassPointerMissing,
                FollowPointerMissing, EncryptReturn, Scanning, AtEntry, Chasing, kernel
  <2> QED
    BY <1>0, <2>1, QuietPlain
<1>4. CASE PassPointer \/ FollowPointer \/ PassObject
  <2>1. CASE /\ Encrypting /\ Encrypting' /\ UNCHANGED <<mem, sbuf_stack, sbuf_stack_top>>
    BY <1>0, <2>1, QuietPlain DEF Encrypting
  <2>2. ASSUME NEW c, NEW len \in Nat, GivesBack(c, len) PROVE plainStack' = plainStack
    BY <1>0, <2>2, GiveBackVault
  <2> QED
    BY <1>0, <1>4, <2>1, <2>2, PointerSteps
<1> QED
  BY <1>1, <1>2, <1>3, <1>4 DEF EncryptStep

(* At the start nothing is hidden, and the two stacks are the same. *)
LEMMA VaultInit == Init => Vault!Init /\ GivenBack
<1> SUFFICES ASSUME Init PROVE Vault!Init /\ GivenBack
  OBVIOUS
<1>1. \A a \in Addr : ~Hidden(a)
  BY DEF Init, Hidden, LiveSlots
<1>2. plainStack = InitMem
  BY <1>1, ParameterAssumption DEF plainStack, Init
<1> QED
  BY <1>2, ParameterAssumption DEF Vault!Init, Init, GivenBack, ScanUnholed, GivenBackShown,
                                   HolesInFirst, Encrypting, Asking

(* Whatever the program, its parameter lists, its failed or stray requests and the limits, *)
(* protection is transparent up to the step that breaks the kernel, if any: the handlers   *)
(* only hide cells of the frame they scan or show cells again with the value they had, a   *)
(* callee's store survives its caller's decrypt, and only an array that could not be grown *)
(* loses cells, those of the frame being scanned at that moment.                           *)
THEOREM TransparentHolds == Spec => Transparent
<1>1. IInv /\ GivenBack /\ [Next]_vars => IInv' /\ GivenBack'
  BY TypeStep, ProgramsStep, SlotsStep, ConcealmentStep, GivenBackStep DEF IInv
<1>2. IInv /\ IInv' /\ GivenBack /\ [Next]_vars => [Vault!Next]_VaultVars
  BY VaultStep
<1> QED
  BY InitIInv, VaultInit, <1>1, <1>2, PTL DEF Spec, Transparent, Vault!Spec, VaultVars
-----------------------------------------------------------------------------

(* Whose record a decrypt pops *)

(* A program as jprobe.c expects it: every function is in the symbol table, has a frame  *)
(* larger than the slack, and asks for a decrypt only after an encrypt; kmalloc does not *)
(* fail, so the symbol map is whole or, if the file could not be read, empty.            *)
WellAsked ==
    /\ ~StrayDecrypts /\ ~AllocFails
    /\ \A s \in Sites : s.sp + Slack <= s.rbp /\ \E m \in DOMAIN Symbols : Symbols[m] = s.func

(* The record an encrypt on behalf of activation m pushes. *)
OwnRecord(m) == [func |-> acts[m].func, rsp |-> acts[m].sp + Slack, rbp |-> acts[m].rbp]

Fits == \A m \in DOMAIN acts : acts[m].sp + Slack <= acts[m].rbp

MapperWhole == /\ mapper # {} => {s.func : s \in Sites} \subseteq mapper
               /\ mapper = {} => call_stack = <<>>
               /\ init = 0 => mapper = {} /\ \A m \in DOMAIN acts : ~acts[m].enc

(* Activation m has asked for protection and its frame has not been popped. *)
Protected(m) == acts[m].enc /\ ~(pc = "restore" /\ m = Len(acts))

Covered == mapper # {} => \A m \in DOMAIN acts : Protected(m) =>
                             \E n \in DOMAIN call_stack : call_stack[n] = OwnRecord(m)

AskInv == Fits /\ MapperWhole /\ Covered

(* The record of the innermost protected activation is the newest. *)
LEMMA NewestIsTop ==
    ASSUME TypeOK, Programs, AskInv, acts # <<>>, Top.enc, pc # "restore", mapper # {}
    PROVE  /\ call_stack # <<>> /\ Popped = OwnRecord(Len(acts))
           /\ \A m \in DOMAIN acts, n \in DOMAIN call_stack :
                 m # Len(acts) /\ call_stack[n] = OwnRecord(m) => n # Len(call_stack)
<1>1. Len(acts) \in DOMAIN acts /\ Top = acts[Len(acts)] /\ DOMAIN acts = 1 .. Len(acts)
      /\ Len(acts) \in Nat
  BY TopType DEF Top, TypeOK
<1>2. PICK n \in DOMAIN call_stack : call_stack[n] = OwnRecord(Len(acts))
  BY <1>1 DEF AskInv, Covered, Protected
<1>3. /\ DOMAIN call_stack = 1 .. Len(call_stack) /\ Len(call_stack) \in DOMAIN call_stack
      /\ call_stack # <<>> /\ Len(call_stack) \in Nat
  BY <1>2 DEF TypeOK
<1>4. PICK sp, rbp \in Nat : sp = Top.sp /\ rbp = Top.rbp
  BY <1>1, ActsType
<1>5. call_stack[n].rbp = rbp /\ call_stack[n].rsp = sp + Slack /\ sp + Slack <= rbp
  BY <1>1, <1>2, <1>4 DEF OwnRecord, AskInv, Fits
<1>6. n = Len(call_stack)
  <2> SUFFICES ASSUME n < Len(call_stack) PROVE FALSE
    BY <1>3
  <2>1. call_stack[Len(call_stack)].rbp < call_stack[n].rsp
    BY <1>3 DEF Programs, RecordsOrdered
  <2>2. call_stack[Len(call_stack)].rbp >= rbp
    BY <1>3, <1>4, RecordsAbove
  <2>3. call_stack[Len(call_stack)].rbp \in Nat
    BY <1>3, RecordType
  <2> QED
    BY <1>4, <1>5, <2>1, <2>2, <2>3, ParameterAssumption, SMTT(30)
<1>7. ASSUME NEW m \in DOMAIN acts, m # Len(acts), call_stack[Len(call_stack)] = OwnRecord(m)
      PROVE  FALSE
  <2>1. PICK b, c \in Nat : b = acts[m].sp /\ c = acts[m].rbp
    BY ActsType
  <2>2. rbp < b /\ b <= c
    <3>1. m < Len(acts)
      BY <1>1, <1>7
    <3>2. acts[Len(acts)].rbp < acts[m].sp /\ acts[m].sp <= acts[m].rbp
      BY <1>1, <3>1 DEF Programs, ActsOrdered
    <3> QED
      BY <1>1, <1>4, <2>1, <3>2
  <2>3. c = rbp
    BY <1>5, <1>6, <1>7, <2>1 DEF OwnRecord
  <2> QED
    BY <1>4, <2>1, <2>2, <2>3
<1> QED
  BY <1>2, <1>3, <1>6, <1>7 DEF Popped

(* A step that keeps the symbol map, the records and the places of the activations, and *)
(* protects no activation anew, keeps the invariant.                                     *)
LEMMA AskQuiet ==
    ASSUME AskInv, UNCHANGED <<init, mapper, call_stack>>, DOMAIN acts' = DOMAIN acts,
           \A m \in DOMAIN acts : /\ acts'[m].func = acts[m].func /\ acts'[m].sp = acts[m].sp
                                  /\ acts'[m].rbp = acts[m].rbp
                                  /\ acts'[m].enc => acts[m].enc
                                  /\ Protected(m)' => Protected(m)
    PROVE  AskInv'
<1>1. Fits'
  BY DEF AskInv, Fits
<1>2. MapperWhole'
  BY DEF AskInv, MapperWhole
<1>3. \A m \in DOMAIN acts : OwnRecord(m)' = OwnRecord(m)
  BY DEF OwnRecord
<1>4. Covered'
  BY <1>3 DEF AskInv, Covered
<1> QED
  BY <1>1, <1>2, <1>4 DEF AskInv

(* What writing the innermost activation back keeps. *)
LEMMA SetTopKeeps ==
    ASSUME TypeOK, acts # <<>>, NEW t \in Activation, SetTop(t),
           t.func = Top.func, t.sp = Top.sp, t.rbp = Top.rbp
    PROVE  /\ DOMAIN acts' = DOMAIN acts /\ Len(acts') = Len(acts) /\ acts'[Len(acts)] = t
           /\ \A m \in DOMAIN acts : /\ acts'[m].func = acts[m].func /\ acts'[m].sp = acts[m].sp
                                     /\ acts'[m].rbp = acts[m].rbp
                                     /\ m # Len(acts) => acts'[m].enc = acts[m].enc
<1>1. /\ acts' \in Seq(Activation) /\ Len(acts') = Len(acts) /\ acts'[Len(acts)] = t
      /\ \A m \in DOMAIN acts : m # Len(acts) => acts'[m] = acts[m]
  BY SetTopOnly
<1>2. DOMAIN acts' = DOMAIN acts
  BY <1>1 DEF TypeOK
<1> QED
  BY <1>1, <1>2 DEF Top

(* The symbol map is loaded whole or not at all. *)
LEMMA LoadsWhole ==
    ASSUME WellAsked, TypeOK, AskInv, LoadMapper
    PROVE  /\ init' = 1
           /\ mapper' # {} => {s.func : s \in Sites} \subseteq mapper'
           /\ mapper' = {} => call_stack = <<>>
           /\ init = 1 => mapper' = mapper
           /\ init = 0 => call_stack = <<>> /\ \A m \in DOMAIN acts : ~acts[m].enc
<1>1. CASE init = 1
  BY <1>1 DEF LoadMapper, AskInv, MapperWhole
<1>2. CASE init = 0
  <2>1. init' = 1 /\ call_stack = <<>> /\ \A m \in DOMAIN acts : ~acts[m].enc
    BY <1>2 DEF LoadMapper, AskInv, MapperWhole
  <2>2. PICK n \in {0, Len(Symbols)} : mapper' = {Symbols[m] : m \in 1 .. n}
    BY <1>2 DEF LoadMapper, WellAsked
  <2>3. ASSUME mapper' # {}, NEW s \in Sites PROVE s.func \in mapper'
    <3>1. n = Len(Symbols)
      BY <2>2, <2>3
    <3>2. PICK m \in DOMAIN Symbols : Symbols[m] = s.func
      BY DEF WellAsked
    <3>3. m \in 1 .. n
      BY <3>1, <3>2, ParameterAssumption
    <3> QED
      BY <2>2, <3>2, <3>3
  <2> QED
    BY <1>2, <2>1, <2>3
<1> QED
  BY <1>1, <1>2 DEF TypeOK

(* Every step keeps a record for every protected activation. *)
LEMMA AskStep ==
    ASSUME WellAsked, IInv, IInv', AskInv, [Next]_vars PROVE AskInv'
<1>0. TypeOK /\ Programs /\ TypeOK' /\ DOMAIN acts = 1 .. Len(acts) /\ Len(acts) \in Nat
  BY DEF IInv, TypeOK
<1>a. ASSUME UNCHANGED <<init, mapper, call_stack, acts>>, pc' = "restore" <=> pc = "restore"
      PROVE  AskInv'
  <2>1. \A m \in DOMAIN acts : Protected(m)' => Protected(m)
    BY <1>a DEF Protected
  <2> QED
    BY <1>a, <2>1, AskQuiet
<1>f. acts # <<>> => Top.func \in {s.func : s \in Sites} /\ user_rsp <= user_rbp
  <2> SUFFICES ASSUME acts # <<>>
               PROVE  Top.func \in {s.func : s \in Sites} /\ Top.sp + Slack <= Top.rbp
    BY DEF user_rsp, user_rbp
  <2> QED
    BY <1>0, TopType DEF Activation, AskInv, Fits, Top
<1>1. ASSUME NEW s \in Sites, Call(s) PROVE AskInv'
  <2> DEFINE t == [func |-> s.func, sp |-> s.sp, rbp |-> s.rbp,
                   want |-> s.plist, plist |-> s.plist, enc |-> FALSE]
  <2>1. acts' = Append(acts, t) /\ UNCHANGED <<pc, call_stack, init, mapper>> /\ pc = "user"
    BY <1>1 DEF Call, kernel, Running
  <2>2. t \in Activation
    BY SiteAssumption DEF Activation
  <2>3. /\ DOMAIN acts' = 1 .. Len(acts) + 1 /\ acts'[Len(acts) + 1] = t
        /\ \A m \in 1 .. Len(acts) : acts'[m] = acts[m]
    BY <1>0, <2>1, <2>2, AppendProperties DEF TypeOK
  <2>4. t.sp + Slack <= t.rbp /\ ~t.enc
    BY DEF WellAsked
  <2> HIDE DEF t
  <2>5. Fits'
    BY <1>0, <2>3, <2>4 DEF AskInv, Fits
  <2>6. MapperWhole'
    BY <1>0, <2>1, <2>3, <2>4 DEF AskInv, MapperWhole
  <2>7. \A m \in DOMAIN acts : OwnRecord(m)' = OwnRecord(m)
    BY <1>0, <2>3 DEF OwnRecord
  <2>8. \A m \in DOMAIN acts' : Protected(m)' => m \in DOMAIN acts /\ Protected(m)
    BY <1>0, <2>1, <2>3, <2>4 DEF Protected
  <2>9. Covered'
    BY <2>1, <2>7, <2>8 DEF AskInv, Covered
  <2> QED
    BY <2>5, <2>6, <2>9 DEF AskInv
<1>2. CASE Return
  <2>1. acts' = SubSeq(acts, 1, Len(acts) - 1) /\ UNCHANGED <<pc, call_stack, init, mapper>>
        /\ pc = "user" /\ acts # <<>>
    BY <1>2 DEF Return, kernel, Running
  <2>2. DOMAIN acts' \subseteq DOMAIN acts /\ \A m \in DOMAIN acts' : acts'[m] = acts[m]
    BY <1>0, <2>1 DEF TypeOK
  <2>3. \A m \in DOMAIN acts' : OwnRecord(m)' = OwnRecord(m) /\ (Protected(m)' => Protected(m))
    BY <2>1, <2>2 DEF OwnRecord, Protected
  <2>4. Covered'
    BY <2>1, <2>2, <2>3 DEF AskInv, Covered
  <2> QED
    BY <2>1, <2>2, <2>4 DEF AskInv, Fits, MapperWhole
<1>3. ASSUME NEW w \in Stores, Store(w[1], w[2]) PROVE AskInv'
  BY <1>3, <1>a DEF Store, kernel
<1>4. CASE EncryptRefused
  <2>1. /\ LoadMapper /\ SetTop(Requested) /\ Refused /\ acts # <<>> /\ UNCHANGED <<call_stack, pc>>
    BY <1>4 DEF EncryptRefused
  <2>2. mapper' = {} /\ init' = 1 /\ call_stack = <<>>
    BY <1>0, <1>f, <2>1, LoadsWhole, FrameType DEF Refused
  <2>3. Requested \in Activation /\ Requested.func = Top.func
        /\ Requested.sp = Top.sp /\ Requested.rbp = Top.rbp
    BY <1>0, <2>1, ActivationUpdates, TopType DEF Requested, Activation
  <2>4. /\ DOMAIN acts' = DOMAIN acts
        /\ \A m \in DOMAIN acts : acts'[m].sp = acts[m].sp /\ acts'[m].rbp = acts[m].rbp
    BY <1>0, <2>1, <2>3, SetTopKeeps
  <2>5. Fits'
    BY <2>4 DEF AskInv, Fits
  <2> QED
    BY <2>1, <2>2, <2>5 DEF AskInv, MapperWhole, Covered
<1>5. CASE EncryptOverflow
  <2>1. LoadMapper /\ UNCHANGED <<call_stack, pc, acts>>
    BY <1>5 DEF EncryptOverflow
  <2>2. Fits' /\ MapperWhole'
    BY <1>0, <2>1, LoadsWhole DEF AskInv, Fits, MapperWhole
  <2>3. Covered'
    BY <1>0, <2>1, LoadsWhole DEF AskInv, Covered, Protected, OwnRecord, TypeOK
  <2> QED
    BY <2>2, <2>3 DEF AskInv
<1>6. CASE EncryptEnter
  <2> DEFINE r == [func |-> Top.func, rsp |-> user_rsp, rbp |-> user_rbp]
  <2>1. /\ LoadMapper /\ SetTop(Requested) /\ acts # <<>> /\ pc = "user" /\ pc' = "scan"
        /\ call_stack' = Append(call_stack, r) /\ Top.func \in mapper'
    BY <1>6 DEF EncryptEnter, Running, Refused
  <2>2. /\ Requested \in Activation /\ Requested.func = Top.func
        /\ Requested.sp = Top.sp /\ Requested.rbp = Top.rbp
    BY <1>0, <2>1, ActivationUpdates, TopType DEF Requested, Activation
  <2>3. /\ DOMAIN acts' = DOMAIN acts
        /\ \A m \in DOMAIN acts : /\ acts'[m].func = acts[m].func /\ acts'[m].sp = acts[m].sp
                                  /\ acts'[m].rbp = acts[m].rbp
                                  /\ m # Len(acts) => acts'[m].enc = acts[m].enc
    BY <1>0, <2>1, <2>2, SetTopKeeps
  <2>4. r \in CsItem
    BY <1>0, <1>f, <2>1, FrameType DEF CsItem
  <2>5. /\ DOMAIN call_stack' = 1 .. Len(call_stack) + 1 /\ call_stack'[Len(call_stack) + 1] = r
        /\ \A n \in DOMAIN call_stack : n \in DOMAIN call_stack' /\ call_stack'[n] = call_stack[n]
        /\ Len(call_stack) \in Nat
    BY <1>0, <2>1, <2>4, AppendProperties DEF TypeOK
  <2> HIDE DEF r
  <2>6. \A m \in DOMAIN acts : OwnRecord(m)' = OwnRecord(m)
    BY <2>3 DEF OwnRecord
  <2>7. r = OwnRecord(Len(acts))
    BY DEF r, OwnRecord, Top, user_rsp, user_rbp
  <2>8. ASSUME NEW m \in DOMAIN acts, Protected(m)'
        PROVE  \E n \in DOMAIN call_stack' : call_stack'[n] = OwnRecord(m)'
    <3>1. CASE m = Len(acts)
      <4>1. Len(call_stack) + 1 \in DOMAIN call_stack'
        BY <2>5
      <4> QED
        BY <2>5, <2>6, <2>7, <3>1, <4>1
    <3>2. CASE m # Len(acts)
      <4>1. acts[m].enc /\ Protected(m)
        BY <2>1, <2>3, <2>8, <3>2 DEF Protected
      <4>2. init = 1 /\ mapper' = mapper
        BY <1>0, <2>1, <4>1, LoadsWhole DEF TypeOK
      <4>3. PICK n \in DOMAIN call_stack : call_stack[n] = OwnRecord(m)
        BY <2>1, <4>1, <4>2 DEF AskInv, Covered
      <4> QED
        BY <2>5, <2>6, <4>3
    <3> QED
      BY <3>1, <3>2
  <2>9. Covered'
    BY <2>3, <2>8 DEF Covered
  <2>10. Fits'
    BY <2>3 DEF AskInv, Fits
  <2>11. MapperWhole'
    BY <1>0, <2>1, LoadsWhole DEF MapperWhole
  <2> QED
    BY <2>9, <2>10, <2>11 DEF AskInv
<1>7. CASE ScanParameter \/ ScanLast \/ ScanCell \/ ScanDone \/ PassByValue \/ FollowPointerMissing
           \/ PassObject \/ EncryptReturn
  BY <1>7, <1>a DEF ScanParameter, ScanLast, ScanCell, ScanDone, PassByValue, FollowPointerMissing,
                    PassObject, EncryptReturn, Scanning, AtEntry, Chasing, kernel
<1>8. CASE PassPointer \/ PassPointerStale \/ PassPointerMissing \/ FollowPointer
  <2>1. /\ acts # <<>> /\ k \in 1 .. Len(Top.plist) /\ Top.plist[k] \in Para /\ Top.plist[k].pointer # 0
        /\ SetLevels(Below(Top.plist[k].pointer)) /\ UNCHANGED <<init, mapper, call_stack>>
        /\ pc # "restore" /\ pc' # "restore"
    <3>1. AtEntry \/ Chasing
      BY <1>8 DEF PassPointer, PassPointerStale, PassPointerMissing, FollowPointer
    <3>2. acts # <<>> /\ k \in 1 .. Len(Top.plist) /\ Top.plist[k] \in Para
      BY <1>0, <3>1, EntryType
    <3> QED
      BY <1>8, <3>2 DEF PassPointer, PassPointerStale, PassPointerMissing, FollowPointer,
                        AtEntry, Chasing, kernel
  <2> DEFINE p == Below(Top.plist[k].pointer)
             t == [Top EXCEPT !.plist[k].pointer = p]
  <2>2. p \in CInt
    BY <2>1, BelowType DEF Para
  <2>3. t \in Activation /\ t.sp = Top.sp /\ t.rbp = Top.rbp /\ t.enc = Top.enc
    <3> HIDE DEF p
    <3> QED
      BY <1>0, <2>1, <2>2, LevelUpdate
  <2>4. t.func = Top.func
    BY <1>0, <2>1, TopType DEF Activation
  <2>5. SetTop(t)
    BY <2>1 DEF SetLevels
  <2> HIDE DEF t
  <2>6. /\ DOMAIN acts' = DOMAIN acts /\ Len(acts') = Len(acts) /\ acts'[Len(acts)] = t
        /\ \A m \in DOMAIN acts : /\ acts'[m].func = acts[m].func /\ acts'[m].sp = acts[m].sp
                                  /\ acts'[m].rbp = acts[m].rbp
                                  /\ m # Len(acts) => acts'[m].enc = acts[m].enc
    BY <1>0, <2>1, <2>3, <2>4, <2>5, SetTopKeeps
  <2>7. \A m \in DOMAIN acts : acts'[m].enc = acts[m].enc
    BY <2>3, <2>6 DEF Top
  <2>8. \A m \in DOMAIN acts : Protected(m)' => Protected(m)
    BY <2>1, <2>7 DEF Protected
  <2> QED
    BY <2>1, <2>6, <2>7, <2>8, AskQuiet
<1>9. CASE DecryptNoMapper \/ DecryptNoName \/ RestoreSegment \/ RestoreUndefined
           \/ Halted \/ UNCHANGED vars
  BY <1>9, <1>a DEF DecryptNoMapper, DecryptNoName, RestoreSegment, RestoreUndefined, Halted, vars, kernel
<1>10. CASE DecryptRefused \/ DecryptReturn
  <2>1. SetTop(Answered) /\ acts # <<>> /\ UNCHANGED <<init, mapper, call_stack>> /\ pc' = "user"
    BY <1>0, <1>10 DEF DecryptRefused, DecryptReturn, Asks, Running, kernel, TypeOK
  <2>2. /\ Answered \in Activation /\ Answered.func = Top.func /\ ~Answered.enc
        /\ Answered.sp = Top.sp /\ Answered.rbp = Top.rbp
    BY <1>0, <2>1, ActivationUpdates, TopType DEF Answered, Activation
  <2>3. /\ DOMAIN acts' = DOMAIN acts /\ Len(acts') = Len(acts) /\ acts'[Len(acts)] = Answered
        /\ \A m \in DOMAIN acts : /\ acts'[m].func = acts[m].func /\ acts'[m].sp = acts[m].sp
                                  /\ acts'[m].rbp = acts[m].rbp
                                  /\ m # Len(acts) => acts'[m].enc = acts[m].enc
    BY <1>0, <2>1, <2>2, SetTopKeeps
  <2>4. \A m \in DOMAIN acts : acts'[m].enc => acts[m].enc
    BY <2>2, <2>3
  <2>5. \A m \in DOMAIN acts : Protected(m)' => Protected(m)
    BY <2>2, <2>3 DEF Protected
  <2> QED
    BY <2>1, <2>3, <2>4, <2>5, AskQuiet
<1>11. CASE DecryptEnter
  <2>1. /\ acts # <<>> /\ Top.enc /\ pc = "user" /\ pc' = "restore" /\ mapper # {}
        /\ call_stack # <<>> /\ call_stack' = SubSeq(call_stack, 1, Len(call_stack) - 1)
        /\ UNCHANGED <<acts, init, mapper>>
    BY <1>11 DEF DecryptEnter, Asks, Running, WellAsked
  <2>2. \A m \in DOMAIN acts, n \in DOMAIN call_stack :
           m # Len(acts) /\ call_stack[n] = OwnRecord(m) => n # Len(call_stack)
    BY <1>0, <2>1, NewestIsTop
  <2>3. /\ DOMAIN call_stack = 1 .. Len(call_stack) /\ Len(call_stack) \in Nat
        /\ DOMAIN call_stack' = 1 .. Len(call_stack) - 1
        /\ \A n \in DOMAIN call_stack' : call_stack'[n] = call_stack[n]
    <3>1. /\ call_stack' \in Seq(CsItem) /\ Len(call_stack') = Len(call_stack) - 1
          /\ \A n \in DOMAIN call_stack' : call_stack'[n] = call_stack[n]
      BY <1>0, <2>1, PopType
    <3> QED
      BY <1>0, <3>1 DEF TypeOK
  <2>4. ASSUME NEW m \in DOMAIN acts, Protected(m)'
        PROVE  \E n \in DOMAIN call_stack' : call_stack'[n] = OwnRecord(m)'
    <3>1. m # Len(acts) /\ Protected(m) /\ OwnRecord(m)' = OwnRecord(m)
      BY <2>1, <2>4 DEF Protected, OwnRecord
    <3>2. PICK n \in DOMAIN call_stack : call_stack[n] = OwnRecord(m)
      BY <2>1, <3>1 DEF AskInv, Covered
    <3>3. n \in DOMAIN call_stack'
      BY <2>2, <2>3, <3>1, <3>2
    <3> QED
      BY <2>3, <3>1, <3>2, <3>3
  <2>5. Covered'
    BY <2>1, <2>4 DEF Covered
  <2> QED
    BY <2>1, <2>5 DEF AskInv, Fits, MapperWhole
<1> QED
  BY <1>1, <1>2, <1>3, <1>4, <1>5, <1>6, <1>7, <1>8, <1>9, <1>10, <1>11
  DEF Next, Encrypt, EncryptStep, Decrypt, DecryptStep

(* At the start nothing has been asked. *)
LEMMA AskInit == Init => AskInv
BY DEF Init, AskInv, Fits, MapperWhole, Covered

(* In a program as jprobe.c expects it, a decrypt restores the frame of the function that *)
(* asks for it and never its caller's, however the calls nest and recur, and whether the  *)
(* symbol table could be read or not.                                                     *)
THEOREM DecryptPopsOwnHolds ==
    ASSUME WellAsked PROVE Spec => DecryptPopsOwn
<1>1. IInv /\ AskInv /\ [Next]_vars => IInv' /\ AskInv'
  BY TypeStep, ProgramsStep, SlotsStep, ConcealmentStep, AskStep DEF IInv
<1>2. IInv /\ AskInv /\ [Next]_vars =>
        [sbuf_stack_top' < sbuf_stack_top =>
            Popped = [func |-> Top.func, rsp |-> user_rsp, rbp |-> user_rbp]]_vars
  <2> SUFFICES ASSUME IInv, AskInv, [Next]_vars, sbuf_stack_top' < sbuf_stack_top
               PROVE  Popped = [func |-> Top.func, rsp |-> user_rsp, rbp |-> user_rbp]
    OBVIOUS
  <2>1. TypeOK /\ Programs /\ sbuf_stack_top \in Nat
    BY DEF IInv, TypeOK
  <2>2. DecryptEnter
    <3>1. CASE (\E s \in Sites : Call(s)) \/ Return \/ (\E w \in Stores : Store(w[1], w[2]))
      <4>1. sbuf_stack_top' = sbuf_stack_top
        BY <3>1 DEF Call, Return, Store, kernel
      <4> QED
        BY <2>1, <4>1
    <3>2. CASE Encrypt
      BY <2>1, <3>2 DEF Encrypt, EncryptRefused, EncryptEnter, EncryptOverflow
    <3>3. CASE EncryptStep
      BY <2>1, <3>3 DEF EncryptStep, ScanParameter, ScanLast, ScanCell, ScanDone, PassByValue,
                        PassPointer, PassPointerStale, PassPointerMissing, FollowPointer,
                        FollowPointerMissing, PassObject, EncryptReturn, kernel
    <3>4. CASE DecryptNoMapper \/ DecryptRefused \/ DecryptNoName \/ DecryptStep
      BY <2>1, <3>4 DEF DecryptNoMapper, DecryptRefused, DecryptNoName, DecryptStep,
                        RestoreSegment, RestoreUndefined, DecryptReturn, kernel
    <3>5. CASE Halted \/ UNCHANGED vars
      BY <2>1, <3>5 DEF Halted, vars
    <3> QED
      BY <3>1, <3>2, <3>3, <3>4, <3>5 DEF Next, Decrypt
  <2>3. acts # <<>> /\ Top.enc /\ pc # "restore" /\ mapper # {}
    BY <2>2 DEF DecryptEnter, Asks, Running, WellAsked
  <2>4. Popped = OwnRecord(Len(acts))
    BY <2>1, <2>3, NewestIsTop
  <2> QED
    BY <2>4 DEF OwnRecord, Top, user_rsp, user_rbp
<1> QED
  BY InitIInv, AskInit, <1>1, <1>2, PTL DEF Spec, DecryptPopsOwn
-----------------------------------------------------------------------------

(* Requests that break nothing *)

(* A request: the entries passed by value and those that are pointers, the cells of the *)
(* values, the cells of the frame that are left for the buffer, those of the first      *)
(* segment, and what restore_pointers gives back for level l of entry n.                *)
ValueEntries   == {n \in DOMAIN Top.want : Top.want[n].pointer = 0}
PointerEntries == {n \in DOMAIN Top.want : Top.want[n].pointer # 0}
Value(n)    == Span(Top.want[n].addr, Top.want[n].size)
Values      == UNION {Value(n) : n \in ValueEntries}
Spare       == Frame \ Values
FirstPiece  == {a \in Spare : \A b \in Spare, v \in Values : ~(b < v /\ v < a)}
Levels(n)   == 0 .. Top.want[n].pointer
Piece(n, l) == IF l < Top.want[n].pointer THEN {Chain(Top.want[n])[l]} ELSE Object(Top.want[n])

(* Nothing of size 0 is asked for, and no number of levels is negative; the values lie  *)
(* in the frame and do not overlap; every pointer, level by level, and the object at    *)
(* its end, if that is in the frame, lie in the first piece of the frame between the    *)
(* values, and no two of them overlap.                                                  *)
RequestFits ==
    /\ \A n \in DOMAIN Top.want : Top.want[n].size # 0 /\ Top.want[n].pointer >= 0
    /\ \A n \in ValueEntries : Value(n) \subseteq Frame
    /\ \A n, m \in ValueEntries : n # m => Value(n) \cap Value(m) = {}
    /\ \A n \in PointerEntries : \A l \in Levels(n) : Piece(n, l) \subseteq FirstPiece
    /\ \A n, m \in PointerEntries : \A l \in Levels(n), j \in Levels(m) :
          n # m \/ l # j => Piece(n, l) \cap Piece(m, j) = {}

(* Whenever the program may ask for an encrypt, its request is such a one. *)
RequestsFit == Running /\ acts # <<>> /\ ~Top.enc => RequestFits

(* The nests of n activations, outermost first. *)
Nests(n) == {c \in [1 .. n -> Sites] : \A x, y \in 1 .. n : x < y => c[y].rbp < c[x].sp}

(* The limits suffice for the program: no nest is deeper than the kernel's two stacks,  *)
(* and an array has room for the piece above each value and the one above the last.     *)
(* Every request has a list of its own, and a cell holds a word.                        *)
LimitsSuffice ==
    /\ Nests(CallDepth + 1) = {} /\ Nests(SbufDepth + 1) = {}
    /\ \A s \in Sites : Cardinality({n \in DOMAIN s.plist : s.plist[n].pointer = 0}) < SbufCap
    /\ FreshLists /\ Val \subseteq Nat
-----------------------------------------------------------------------------

(* The invariant *)

FromSites == \A m \in DOMAIN acts : \E s \in Sites :
                 /\ acts[m].func = s.func /\ acts[m].sp = s.sp /\ acts[m].rbp = s.rbp
                 /\ acts[m].want = s.plist

(* No array was ever grown. *)
NoGrowth == \A d \in 0 .. SbufDepth - 1 : sbuf_stack[d].cap = SbufCap /\ ~sbuf_stack[d].freed

(* The holes of a slot in use lie in its first segment, have cells and do not overlap. *)
HolesApart(d) ==
    sbuf_stack[d].segs # <<>> =>
        LET hs == sbuf_stack[d].holes
        IN  /\ \A x \in DOMAIN hs : hs[x].seg = 1 /\ hs[x].len # 0
            /\ \A x, y \in DOMAIN hs :
                  x # y => Span(hs[x].start, hs[x].len) \cap Span(hs[y].start, hs[y].len) = {}

(* The list that the handler works on is the request, but for the levels it has counted *)
(* down; addr_in_stack is where the chain of pointers has led.                          *)
ListKept ==
    /\ DOMAIN Top.plist = DOMAIN Top.want
    /\ \A n \in DOMAIN Top.want : /\ Top.plist[n].addr = Top.want[n].addr /\ Top.plist[n].size = Top.want[n].size
                                  /\ Top.plist[n].pointer >= 0
    /\ \A n \in DOMAIN Top.want : (pc = "scan" \/ n > k \/ (n = k /\ pc = "pointers")) =>
                                     Top.plist[n].pointer = Top.want[n].pointer
    /\ \A n \in DOMAIN Top.want : (n = k /\ pc = "chase") =>
          /\ Top.plist[n].pointer < Top.want[n].pointer
          /\ addr_in_stack = Chain(Top.want[n])[Top.want[n].pointer - Top.plist[n].pointer]

(* The cells the scan has put in the buffer. *)
Taken == {a \in Addr : \E n \in DOMAIN sbuf_stack[EncSlot].segs : a \in Cells(sbuf_stack[EncSlot].segs[n])}

(* The first segment is the first piece; where there is none, nothing was left to take. *)
FirstTaken == sbuf_stack[EncSlot].segs # <<>> => Cells(sbuf_stack[EncSlot].segs[1]) = FirstPiece

(* No value crosses the cells that the scan has passed since it took some off last, and *)
(* each segment ends where a value begins.                                              *)
ScanPlace ==
    pc = "scan" =>
        /\ i <= user_rbp + 1
        /\ i <= user_rbp =>
              /\ \A a \in Addr : a \in Taken <=> a \in Spare /\ a < prev_rsp
              /\ \A n \in ValueEntries : \/ Top.want[n].addr + Top.want[n].size <= prev_rsp
                                         \/ Top.want[n].addr >= i
              /\ \A x \in DOMAIN sbuf_stack[EncSlot].segs : \E n \in ValueEntries :
                    Top.want[n].addr = sbuf_stack[EncSlot].segs[x].start + sbuf_stack[EncSlot].segs[x].len

ScanOver == Encrypting /\ (pc = "scan" => i > user_rbp)

(* What restore_pointers has passed, and so given back. *)
Passed(n, l) == n < k \/ (n = k /\ pc = "chase" /\ l < Top.want[n].pointer - Top.plist[n].pointer)

PiecesGiven ==
    pc \in {"pointers", "chase"} /\ sbuf_stack[EncSlot].segs # <<>> =>
        \A a \in Addr : InHole(sbuf_stack[EncSlot], 1, a) <=>
              \E n \in PointerEntries : \E l \in Levels(n) : Passed(n, l) /\ a \in Piece(n, l)

(* Where the handler is in the request. *)
RequestPlace ==
    Encrypting => /\ RequestFits /\ ListKept /\ FirstTaken /\ ScanPlace /\ PiecesGiven
                  /\ ScanOver => \A a \in Addr : a \in Taken <=> a \in Spare

FitInv == FromSites /\ NoGrowth /\ (\A d \in 0 .. SbufDepth - 1 : HolesApart(d)) /\ RequestPlace /\ NoFault
-----------------------------------------------------------------------------

(* What the definitions say *)

(* h is what Chain defines: from x, and from each cell to what it holds in g. *)
Hops(h, x, g, N) == h = [n \in 0 .. N |-> IF n = 0 THEN x ELSE g[h[n - 1]]]

(* A recursive definition over the naturals up to N has a solution: a least N for which *)
(* it had none would have one for N - 1, which one more value extends.                  *)
LEMMA HopsExist ==
    ASSUME NEW x, NEW g, NEW N \in Nat
    PROVE  \E h : Hops(h, x, g, N)
<1> USE DEF Hops
<1> DEFINE Solves(h, m) == Hops(h, x, g, m)
           D == {m \in Nat : ~\E h : Solves(h, m)}
<1>1. CASE D = {}
  BY <1>1
<1>2. CASE D # {}
  <2>1. PICK m \in D : \A o \in D : m <= o
    BY <1>2, LeastNatural
  <2>2. CASE m = 0
    <3> DEFINE h0 == [n \in 0 .. 0 |-> x]
    <3>1. h0 = [n \in 0 .. 0 |-> IF n = 0 THEN x ELSE g[h0[n - 1]]]
      OBVIOUS
    <3> QED
      BY <2>1, <2>2, <3>1
  <2>3. CASE m # 0
    <3>1. m \in Nat /\ m - 1 \in Nat
      BY <2>1, <2>3
    <3> HIDE DEF D
    <3>a. m - 1 \notin D
      BY <2>1, <3>1
    <3> USE DEF D
    <3>2. PICK h : Solves(h, m - 1)
      BY <3>1, <3>a
    <3> DEFINE h1 == [n \in 0 .. m |-> IF n < m THEN h[n] ELSE g[h[m - 1]]]
    <3>3. ASSUME NEW n \in 0 .. m PROVE h1[n] = IF n = 0 THEN x ELSE g[h1[n - 1]]
      <4>1. CASE n = 0
        BY <2>3, <3>1, <3>2, <4>1
      <4>2. CASE n # 0 /\ n < m
        <5>1. n - 1 \in 0 .. m /\ n - 1 < m /\ n \in 0 .. m - 1
          BY <3>1, <4>2
        <5>2. h1[n - 1] = h[n - 1] /\ h1[n] = h[n]
          BY <4>2, <5>1
        <5>3. h[n] = g[h[n - 1]]
          BY <3>2, <4>2, <5>1
        <5> QED
          BY <4>2, <5>2, <5>3
      <4>3. CASE n = m
        <5>1. n - 1 \in 0 .. m /\ n - 1 < m
          BY <3>1, <4>3
        <5> QED
          BY <2>3, <3>1, <4>3, <5>1
      <4> QED
        BY <3>1, <4>1, <4>2, <4>3
    <3>4. DOMAIN h1 = 0 .. m /\ h1 = [n \in 0 .. m |-> h1[n]]
      OBVIOUS
    <3> HIDE DEF h1
    <3>5. Solves(h1, m)
      BY <3>3, <3>4, SMTT(30)
    <3> QED
      BY <2>1, <3>5
  <2> QED
    BY <2>2, <2>3
<1> QED
  BY <1>1, <1>2

(* Each cell of a chain is what the cell before it points to. *)
LEMMA ChainIs ==
    ASSUME NEW p, p.pointer \in Nat
    PROVE  /\ Chain(p)[0] = p.addr
           /\ \A n \in 1 .. p.pointer : Chain(p)[n] = plainStack[Chain(p)[n - 1]]
<1> DEFINE h == Chain(p)
<1>1. \E f : Hops(f, p.addr, plainStack, p.pointer)
  BY HopsExist
<1>2. h = [n \in 0 .. p.pointer |-> IF n = 0 THEN p.addr ELSE plainStack[h[n - 1]]]
  BY <1>1 DEF Chain, Hops
<1> HIDE DEF h
<1>3. h[0] = p.addr
  BY <1>2
<1>4. ASSUME NEW n \in 1 .. p.pointer PROVE h[n] = plainStack[h[n - 1]]
  <2>1. n \in 0 .. p.pointer /\ n # 0
    OBVIOUS
  <2> QED
    BY <1>2, <2>1
<1> QED
  BY <1>3, <1>4 DEF h

(* A step that leaves the plain stack, the asking function's frame and its request alone *)
(* leaves all that the request means alone.                                              *)
LEMMA SameRequest ==
    ASSUME plainStack' = plainStack, Top'.want = Top.want, Top'.sp = Top.sp, Top'.rbp = Top.rbp
    PROVE  /\ user_rsp' = user_rsp /\ user_rbp' = user_rbp /\ Frame' = Frame
           /\ ValueEntries' = ValueEntries /\ PointerEntries' = PointerEntries
           /\ Values' = Values /\ Spare' = Spare /\ FirstPiece' = FirstPiece
           /\ \A n : Value(n)' = Value(n) /\ Levels(n)' = Levels(n)
           /\ \A n, l : Piece(n, l)' = Piece(n, l)
           /\ \A n : Chain(Top.want[n])' = Chain(Top.want[n])
           /\ RequestFits => RequestFits'
<1>1. user_rsp' = user_rsp /\ user_rbp' = user_rbp /\ Frame' = Frame
  BY DEF Frame, user_rsp, user_rbp
<1>2. ValueEntries' = ValueEntries /\ PointerEntries' = PointerEntries
  BY DEF ValueEntries, PointerEntries
<1>3. \A n : Value(n)' = Value(n) /\ Levels(n)' = Levels(n)
  BY DEF Value, Levels
<1>4. Values' = Values
  BY <1>2, <1>3 DEF Values
<1>5. Spare' = Spare
  BY <1>1, <1>4 DEF Spare
<1>6. FirstPiece' = FirstPiece
  BY <1>4, <1>5 DEF FirstPiece
<1>7. ASSUME NEW n PROVE Chain(Top.want[n])' = Chain(Top.want[n])
  BY DEF Chain
<1>8. ASSUME NEW n PROVE Object(Top.want[n])' = Object(Top.want[n])
  BY <1>1, <1>7 DEF Object
<1>9. ASSUME NEW n, NEW l PROVE Piece(n, l)' = Piece(n, l)
  BY <1>7, <1>8 DEF Piece
<1>10. RequestFits => RequestFits'
  BY <1>1, <1>2, <1>3, <1>6, <1>9 DEF RequestFits
<1> QED
  BY <1>1, <1>2, <1>3, <1>4, <1>5, <1>6, <1>7, <1>9, <1>10

(* The kernel's stacks have room for the innermost activation as long as it is not       *)
(* protected: the owners of the records and it are a nest of the program.                *)
LEMMA RoomForTop ==
    ASSUME LimitsSuffice, TypeOK, Programs, Fits, FromSites, acts # <<>>, ~Top.enc
    PROVE  Len(call_stack) # CallDepth /\ sbuf_stack_top # SbufDepth
<1> DEFINE L == Len(call_stack)
<1>1. L \in Nat /\ DOMAIN call_stack = 1 .. L /\ sbuf_stack_top = L
  BY DEF TypeOK
<1>2. Len(acts) \in DOMAIN acts /\ Len(acts) \in Nat
  BY TopType
<1> DEFINE own == [n \in 1 .. L + 1 |-> IF n <= L THEN CHOOSE m \in DOMAIN acts : Owner(call_stack[n], m)
                                        ELSE Len(acts)]
<1>3. ASSUME NEW n \in 1 .. L
      PROVE  own[n] \in DOMAIN acts /\ Owner(call_stack[n], own[n]) /\ own[n] # Len(acts)
  <2>1. \E m \in DOMAIN acts : Owner(call_stack[n], m)
    BY <1>1 DEF Programs, RecordsOwned
  <2>2. own[n] = CHOOSE m \in DOMAIN acts : Owner(call_stack[n], m)
    BY <1>1
  <2>3. own[n] \in DOMAIN acts /\ Owner(call_stack[n], own[n])
    BY <2>1, <2>2
  <2> QED
    BY <2>3 DEF Owner, Top
<1>4. own[L + 1] = Len(acts)
  BY <1>1
<1> HIDE DEF own
<1>5. ASSUME NEW n \in 1 .. L + 1 PROVE own[n] \in DOMAIN acts
  BY <1>1, <1>2, <1>3, <1>4
<1>6. ASSUME NEW x \in 1 .. L + 1, NEW y \in 1 .. L + 1, x < y
      PROVE  acts[own[y]].rbp < acts[own[x]].sp
  <2> DEFINE u == own[x]
             v == own[y]
  <2>1. u \in DOMAIN acts /\ v \in DOMAIN acts /\ x \in 1 .. L
    BY <1>1, <1>5, <1>6
  <2> HIDE DEF u, v
  <2>2. /\ acts[u].sp \in Nat /\ acts[v].sp \in Nat /\ acts[u].rbp \in Nat /\ acts[v].rbp \in Nat
        /\ u \in Nat /\ v \in Nat /\ DOMAIN acts = 1 .. Len(acts)
    BY <2>1, ActsType
  <2>3. acts[v].sp <= acts[v].rbp /\ acts[u].sp + Slack <= acts[u].rbp /\ Slack \in Nat
    BY <2>1, ParameterAssumption DEF Programs, ActsOrdered, Fits
  <2>4. u < v
    <3>1. CASE y = L + 1
      BY <1>2, <1>3, <1>4, <2>1, <2>2, <3>1 DEF u, v
    <3>2. CASE y # L + 1
      <4>1. x \in DOMAIN call_stack /\ y \in DOMAIN call_stack /\ y \in 1 .. L
        BY <1>1, <2>1, <3>2
      <4>2. call_stack[y].rbp < call_stack[x].rsp
        BY <1>6, <4>1 DEF Programs, RecordsOrdered
      <4>3. call_stack[y].rbp = acts[v].rbp /\ call_stack[x].rsp = acts[u].sp + Slack
        BY <1>3, <2>1, <4>1 DEF Owner, u, v
      <4>4. acts[v].rbp < acts[u].rbp
        <5>1. acts[v].rbp < acts[u].sp + Slack
          BY <4>2, <4>3
        <5>2. acts[u].sp \in Nat /\ acts[v].rbp \in Nat /\ acts[u].rbp \in Nat
          BY <2>2
        <5>3. PICK a \in Nat : a = acts[u].sp
          BY <5>2
        <5>4. PICK b \in Nat : b = acts[v].rbp
          BY <5>2
        <5>5. PICK d \in Nat : d = acts[u].rbp
          BY <5>2
        <5>6. b < a + Slack /\ a + Slack <= d /\ Slack \in Nat
          BY <2>3, <5>1, <5>3, <5>4, <5>5
        <5>7. b < d
          BY <5>6
        <5> QED
          BY <5>4, <5>5, <5>7
      <4>5. v < u => acts[u].rbp < acts[v].sp
        BY <2>1 DEF Programs, ActsOrdered
      <4> QED
        BY <2>2, <2>3, <4>4, <4>5, SMTT(30)
    <3> QED
      BY <3>1, <3>2
  <2> QED
    BY <2>1, <2>4 DEF Programs, ActsOrdered, u, v
<1> DEFINE Like(m, s) == acts[m].sp = s.sp /\ acts[m].rbp = s.rbp
           c == [n \in 1 .. L + 1 |-> CHOOSE s \in Sites : Like(own[n], s)]
<1>7. ASSUME NEW n \in 1 .. L + 1 PROVE c[n] \in Sites /\ Like(own[n], c[n])
  <2>1. \E s \in Sites : Like(own[n], s)
    BY <1>5 DEF FromSites
  <2>2. c[n] = CHOOSE s \in Sites : Like(own[n], s)
    OBVIOUS
  <2> QED
    BY <2>1, <2>2
<1>8. c \in [1 .. L + 1 -> Sites]
  BY <1>7
<1> HIDE DEF c
<1>9. \A x, y \in 1 .. L + 1 : x < y => c[y].rbp < c[x].sp
  BY <1>6, <1>7
<1>10. c \in Nests(L + 1)
  BY <1>8, <1>9 DEF Nests
<1> QED
  BY <1>1, <1>10, SMTT(30) DEF LimitsSuffice
-----------------------------------------------------------------------------

(* The scan *)

(* The entries of a request are typed. *)
LEMMA WantType ==
    ASSUME TypeOK, acts # <<>>
    PROVE  /\ Top.want \in Seq(Para) /\ Top.plist \in Seq(Para)
           /\ Len(Top.want) \in Nat /\ DOMAIN Top.want = 1 .. Len(Top.want)
           /\ Len(Top.plist) \in Nat /\ DOMAIN Top.plist = 1 .. Len(Top.plist)
           /\ \A n \in DOMAIN Top.want : /\ n \in Nat
                                         /\ Top.want[n].addr \in Addr /\ Top.want[n].addr \in Nat
                                         /\ Top.want[n].size \in Nat /\ Top.want[n].pointer \in CInt
           /\ \A n \in DOMAIN Top.plist : Top.plist[n].size \in Nat /\ Top.plist[n].pointer \in CInt
           /\ RequestFits => \A n \in DOMAIN Top.want : Top.want[n].size \in Nat \ {0} /\ Top.want[n].pointer \in Nat
           /\ RequestFits /\ ListKept =>
                 \A n \in DOMAIN Top.plist : Top.plist[n].size \in Nat \ {0} /\ Top.plist[n].pointer \in Nat
<1>1. Top.want \in Seq(Para) /\ Top.plist \in Seq(Para)
  BY TopType DEF Activation
<1>2. \A n \in DOMAIN Top.want : Top.want[n] \in Para
  BY <1>1
<1>3. \A n \in DOMAIN Top.plist : Top.plist[n] \in Para
  BY <1>1
<1>4. \A p \in Para : /\ p.addr \in Addr /\ p.addr \in Nat /\ p.size \in Nat /\ p.pointer \in CInt
                      /\ p.pointer >= 0 => p.pointer \in Nat
  BY MemoryAssumption, ParameterAssumption DEF Para, Addr, CInt
<1>5. RequestFits => \A n \in DOMAIN Top.want : Top.want[n].size \in Nat \ {0} /\ Top.want[n].pointer \in Nat
  BY <1>2, <1>4 DEF RequestFits
<1>6. RequestFits /\ ListKept =>
         \A n \in DOMAIN Top.plist : Top.plist[n].size \in Nat \ {0} /\ Top.plist[n].pointer \in Nat
  BY <1>3, <1>4, <1>5 DEF ListKept
<1> QED
  BY <1>1, <1>2, <1>3, <1>4, <1>5, <1>6

(* The cells of the frame are cells of the stack. *)
LEMMA FrameCells ==
    ASSUME TypeOK, acts # <<>>
    PROVE  /\ \A a : a \in Frame <=> a \in Int /\ user_rsp <= a /\ a < user_rbp
           /\ Frame \subseteq Addr /\ Spare \subseteq Frame /\ FirstPiece \subseteq Spare
           /\ Spare \cap Values = {}
<1>1. user_rsp \in Nat /\ user_rbp \in Nat /\ user_rbp <= MaxAddr /\ MaxAddr \in Nat
  BY FrameType, MemoryAssumption
<1>2. \A a : a \in Frame <=> a \in Int /\ user_rsp <= a /\ a < user_rbp
  BY <1>1 DEF Frame
<1>3. Frame \subseteq Addr
  BY <1>1, <1>2 DEF Addr
<1> QED
  BY <1>2, <1>3 DEF Spare, FirstPiece

(* A pointer entry's own cell is the first of its chain. *)
LEMMA FirstLevel ==
    ASSUME TypeOK, acts # <<>>, RequestFits, NEW n \in PointerEntries
    PROVE  0 \in Levels(n) /\ Piece(n, 0) = {Top.want[n].addr}
<1>1. Top.want[n].pointer \in Nat \ {0}
  BY WantType DEF PointerEntries
<1> QED
  BY <1>1, ChainIs DEF Levels, Piece

(* contains() finds a value that begins at i, and only that. *)
LEMMA ContainsIs ==
    ASSUME TypeOK, acts # <<>>, RequestFits, ListKept, pc = "scan"
    PROVE  /\ contains(i, Top.plist) # 0 =>
                 \E n \in ValueEntries : Top.want[n].addr = i /\ Top.want[n].size = contains(i, Top.plist)
           /\ contains(i, Top.plist) = 0 => \A n \in ValueEntries : Top.want[n].addr # i
<1> DEFINE plt == Top.plist
           at == { n \in DOMAIN plt : plt[n].addr = i }
           f == CHOOSE m \in at : \A o \in at : m <= o
<1>0. /\ DOMAIN plt = DOMAIN Top.want
      /\ \A n \in DOMAIN plt : /\ plt[n].addr = Top.want[n].addr /\ plt[n].size = Top.want[n].size
                               /\ plt[n].pointer = Top.want[n].pointer /\ n \in Nat
  BY WantType DEF ListKept
<1>1. ASSUME at # {}
      PROVE  /\ f \in DOMAIN Top.want /\ Top.want[f].addr = i
             /\ contains(i, plt) = IF Top.want[f].pointer # 0 THEN 0 ELSE Top.want[f].size
  <2>1. at \subseteq Nat
    BY <1>0
  <2>2. f \in at
    BY <1>1, <2>1, LeastNatural
  <2>3. contains(i, plt) = IF plt[f].pointer # 0 THEN 0 ELSE plt[f].size
    BY <1>1 DEF contains
  <2> HIDE DEF f
  <2>4. f \in DOMAIN plt /\ plt[f].addr = i
    BY <2>2
  <2> QED
    BY <1>0, <2>3, <2>4
<1>2. at = {} => contains(i, plt) = 0
  BY DEF contains
<1> HIDE DEF f, plt
<1>3. ASSUME contains(i, plt) # 0
      PROVE  \E n \in ValueEntries : Top.want[n].addr = i /\ Top.want[n].size = contains(i, plt)
  <2>1. at # {}
    BY <1>2, <1>3
  <2>2. f \in ValueEntries
    BY <1>1, <1>3, <2>1 DEF ValueEntries
  <2> QED
    BY <1>1, <1>3, <2>1, <2>2 DEF ValueEntries
<1>4. ASSUME contains(i, plt) = 0, NEW n \in ValueEntries, Top.want[n].addr = i PROVE FALSE
  <2>1. n \in DOMAIN Top.want /\ Top.want[n].size \in Nat \ {0} /\ i \in Nat
    BY <1>4, WantType DEF ValueEntries, TypeOK
  <2>2. at # {}
    <3>1. n \in at
      BY <1>0, <1>4, <2>1
    <3> QED
      BY <3>1
  <2>3. f \in PointerEntries
    <3>1. Top.want[f].size # 0
      BY <1>1, <2>2, WantType
    <3> QED
      BY <1>1, <1>4, <2>2, <3>1 DEF PointerEntries
  <2>4. i \in Spare
    <3>1. i \in FirstPiece
      BY <1>1, <2>2, <2>3, FirstLevel DEF RequestFits
    <3> QED
      BY <3>1 DEF FirstPiece
  <2>5. i \in Values
    <3>1. i \in Value(n)
      BY <1>4, <2>1 DEF Value, Span
    <3> QED
      BY <3>1 DEF Values
  <2> QED
    BY <2>4, <2>5 DEF Spare
<1> QED
  BY <1>3, <1>4 DEF plt

(* The cells the scan has passed since it took some off last are no value's. *)
LEMMA CellsBetween ==
    ASSUME TypeOK, acts # <<>>, Slots, pc = "scan", i <= user_rbp, ScanPlace,
           NEW a \in Int, prev_rsp <= a, a < i
    PROVE  a \in Spare /\ a \in Addr
<1>1. /\ user_rsp <= prev_rsp /\ prev_rsp \in Nat /\ i \in Nat /\ user_rsp \in Nat /\ user_rbp \in Nat
  BY FrameType DEF Slots, TypeOK
<1>2. a \in Frame
  BY <1>1, FrameCells
<1>3. ASSUME NEW n \in ValueEntries, a \in Value(n) PROVE FALSE
  <2>1. Top.want[n].addr \in Nat /\ Top.want[n].size \in Nat
    BY WantType DEF ValueEntries
  <2>2. Top.want[n].addr + Top.want[n].size <= prev_rsp \/ Top.want[n].addr >= i
    BY DEF ScanPlace
  <2>3. Top.want[n].addr <= a /\ a <= Top.want[n].addr + Top.want[n].size - 1
    BY <1>3, <2>1 DEF Value, Span
  <2> QED
    BY <1>1, <2>1, <2>2, <2>3, SMTT(30)
<1>4. a \notin Values
  BY <1>3 DEF Values
<1> QED
  BY <1>2, <1>4, FrameCells DEF Spare

(* The array has room as long as the scan goes on: each of its segments ends at another *)
(* value.                                                                               *)
LEMMA RoomInArray ==
    ASSUME LimitsSuffice, TypeOK, Slots, acts # <<>>, FromSites, NoGrowth,
           pc = "scan", i <= user_rbp, ScanPlace
    PROVE  ~Full(sbuf_stack[EncSlot])
<1> DEFINE segs == sbuf_stack[EncSlot].segs
           L == Len(segs)
           end(x) == segs[x].start + segs[x].len
<1>1. /\ EncSlot \in 0 .. SbufDepth - 1 /\ segs \in Seq(Segment) /\ L \in Nat /\ DOMAIN segs = 1 .. L
  BY SlotType DEF Encrypting, Sbuf
<1>2. PICK s \in Sites : Top.want = s.plist
  BY TopType DEF FromSites, Top
<1>3. Cardinality(ValueEntries) < SbufCap
  BY <1>2 DEF LimitsSuffice, ValueEntries
<1>4. IsFiniteSet(ValueEntries) /\ Cardinality(ValueEntries) \in Nat
  <2>1. ValueEntries \in SUBSET (1 .. Len(Top.want)) /\ Len(Top.want) \in Int
    BY WantType DEF ValueEntries
  <2>2. IsFiniteSet(1 .. Len(Top.want))
    BY <2>1, FS_Interval
  <2>3. IsFiniteSet(ValueEntries)
    BY <2>1, <2>2, FS_Subset
  <2> QED
    BY <2>3, FS_CardinalityType
<1>5. IsFiniteSet(1 .. L) /\ Cardinality(1 .. L) = L
  BY <1>1, FS_Interval
<1>a. ASSUME NEW x \in 1 .. L PROVE segs[x].start \in Nat /\ segs[x].len \in Nat \ {0} /\ end(x) \in Nat
  <2> HIDE DEF segs
  <2>1. segs[x] \in Segment
    BY <1>1
  <2> QED
    BY <2>1, MemoryAssumption DEF Segment, Addr
<1>6. ASSUME NEW x \in 1 .. L, NEW y \in 1 .. L, x < y PROVE end(x) < end(y)
  <2>1. segs[x].start + segs[x].len <= segs[y].start
    BY <1>1, <1>6 DEF Slots, Ascending
  <2>2. /\ segs[x].start \in Nat /\ segs[x].len \in Nat
        /\ segs[y].start \in Nat /\ segs[y].len \in Nat \ {0}
    BY <1>a
  <2> HIDE DEF segs
  <2> QED
    BY <2>1, <2>2, SMTT(30)
<1> HIDE DEF end, L
<1> DEFINE f == [x \in 1 .. L |-> CHOOSE n \in ValueEntries : Top.want[n].addr = end(x)]
<1>7. ASSUME NEW x \in 1 .. L PROVE f[x] \in ValueEntries /\ Top.want[f[x]].addr = end(x)
  <2>1. \E n \in ValueEntries : Top.want[n].addr = end(x)
    BY <1>1, <1>7 DEF ScanPlace, end
  <2> QED
    BY <2>1
<1>8. f \in [1 .. L -> ValueEntries]
  BY <1>7
<1>9. ASSUME NEW x \in 1 .. L, NEW y \in 1 .. L, x # y PROVE f[x] # f[y]
  <2> HIDE DEF f
  <2>1. end(x) # end(y)
    <3>1. x < y \/ y < x
      BY <1>1, <1>9
    <3> QED
      BY <1>a, <1>6, <3>1
  <2> QED
    BY <1>7, <2>1
<1> HIDE DEF f
<1>10. ~(Cardinality(ValueEntries) < Cardinality(1 .. L))
  BY <1>4, <1>5, <1>8, <1>9, FS_PigeonHole
<1>11. L < SbufCap /\ sbuf_stack[EncSlot].cap = SbufCap /\ SbufCap \in Nat
  BY <1>1, <1>3, <1>4, <1>5, <1>10, ParameterAssumption DEF NoGrowth
<1> QED
  BY <1>1, <1>11 DEF Full, L

(* What taking cells off the stack adds to the slot, in an array that has room. *)
LEMMA TakeOffAdds ==
    ASSUME LimitsSuffice, ~AllocFails, TypeOK, Slots, ScanUnholed, acts # <<>>, FromSites, NoGrowth,
           pc = "scan", i <= user_rbp, ScanPlace, TakeOff, UNCHANGED sbuf_stack_top
    PROVE  /\ NoGrowth'
           /\ \A d \in 0 .. SbufDepth - 1 : d # EncSlot => sbuf_stack'[d] = sbuf_stack[d]
           /\ LET old == sbuf_stack[EncSlot]
                  new == sbuf_stack'[EncSlot]
                  l   == Len(old.segs)
              IN  \/ i = prev_rsp /\ new = old
                  \/ /\ i > prev_rsp /\ new.holes = <<>>
                     /\ Len(new.segs) = l + 1 /\ DOMAIN new.segs = 1 .. l + 1
                     /\ \A x \in 1 .. l : new.segs[x] = old.segs[x]
                     /\ new.segs[l + 1].start = prev_rsp /\ new.segs[l + 1].len = i - prev_rsp
           /\ \A a \in Addr : a \in Taken' <=> a \in Taken \/ (prev_rsp <= a /\ a < i)
<1> DEFINE old == sbuf_stack[EncSlot]
           new == sbuf_stack'[EncSlot]
           l == Len(old.segs)
<1>1. /\ EncSlot \in 0 .. SbufDepth - 1 /\ old \in Sbuf /\ Encrypting /\ EncSlot' = EncSlot
      /\ sbuf_stack \in [0 .. SbufDepth - 1 -> Sbuf]
  BY SlotType DEF Encrypting, EncSlot, TypeOK
<1>2. old.segs \in Seq(Segment) /\ l \in Nat /\ DOMAIN old.segs = 1 .. l
  BY <1>1 DEF Sbuf
<1>3. ~Full(old)
  BY RoomInArray
<1>4. /\ i \in Nat /\ prev_rsp \in Nat /\ prev_rsp <= i /\ i <= MaxAddr /\ MaxAddr \in Nat
  BY FrameType, MemoryAssumption DEF TypeOK, Slots
<1>5. Addr \subseteq Nat
  BY DEF Addr
<1>6. CASE i <= prev_rsp /\ UNCHANGED <<sbuf_stack, mem>>
  <2>1. NoGrowth' /\ new = old /\ Taken' = Taken /\ i = prev_rsp
    BY <1>1, <1>4, <1>6 DEF NoGrowth, Taken
  <2>2. \A d \in 0 .. SbufDepth - 1 : d # EncSlot => sbuf_stack'[d] = sbuf_stack[d]
    BY <1>6
  <2>3. \A a \in Addr : a \in Taken' <=> a \in Taken \/ (prev_rsp <= a /\ a < i)
    BY <1>4, <1>5, <2>1
  <2> HIDE DEF old, new, l
  <2> QED
    BY <2>1, <2>2, <2>3 DEF old, new
<1>7. CASE i > prev_rsp /\ sbuf_stack' = [sbuf_stack EXCEPT ![EncSlot] =
                                             copy_stack_buf(sbuf_stack[EncSlot], mem, prev_rsp, i - prev_rsp)]
  <2>1. \A d \in 0 .. SbufDepth - 1 : d # EncSlot => sbuf_stack'[d] = sbuf_stack[d]
    BY <1>1, <1>7
  <2>2. new = copy_stack_buf(old, mem, prev_rsp, i - prev_rsp)
    BY <1>1, <1>7
  <2>3. prev_rsp \in Addr /\ i - prev_rsp \in Nat \ {0}
    BY <1>4, <1>7 DEF Addr
  <2>4. /\ Len(new.segs) = l + 1 /\ new \in Sbuf
        /\ \A x \in 1 .. l : new.segs[x] = old.segs[x]
        /\ new.segs[l + 1].start = prev_rsp /\ new.segs[l + 1].len = i - prev_rsp
    BY <1>1, <2>2, <2>3, TakenSegment
  <2>5. new.cap = old.cap /\ new.freed = old.freed
        /\ new.holes = IF old.segs = <<>> THEN <<>> ELSE old.holes
    BY <1>1, <1>3, <2>2 DEF copy_stack_buf, Sbuf
  <2>6. new.holes = <<>>
    BY <2>5 DEF ScanUnholed
  <2>7. DOMAIN new.segs = 1 .. l + 1
    BY <2>4 DEF Sbuf
  <2>8. NoGrowth'
    BY <1>1, <2>1, <2>5 DEF NoGrowth
  <2> HIDE DEF old, new, l
  <2>9. ASSUME NEW a \in Addr PROVE a \in Taken' <=> a \in Taken \/ (prev_rsp <= a /\ a < i)
    <3>1. a \in Taken' <=> \E n \in 1 .. l + 1 : a \in Cells(new.segs[n])
      BY <1>1, <2>7 DEF Taken, new, Addr
    <3>2. a \in Taken <=> \E n \in 1 .. l : a \in Cells(old.segs[n])
      BY <1>2 DEF Taken, old
    <3>3. a \in Cells(new.segs[l + 1]) <=> prev_rsp <= a /\ a < i
      <4>1. Cells(new.segs[l + 1]) = prev_rsp .. i - 1
        BY <1>4, <2>4 DEF Cells, Span
      <4> QED
        BY <1>4, <1>5, <4>1
    <3>4. \A n \in 1 .. l : Cells(new.segs[n]) = Cells(old.segs[n])
      BY <2>4
    <3>5. \A n \in 1 .. l + 1 : n = l + 1 \/ n \in 1 .. l
      BY <1>2
    <3>6. l + 1 \in 1 .. l + 1 /\ \A n \in 1 .. l : n \in 1 .. l + 1
      BY <1>2
    <3> QED
      BY <3>1, <3>2, <3>3, <3>4, <3>5, <3>6
  <2> QED
    BY <1>7, <2>1, <2>4, <2>6, <2>7, <2>8, <2>9 DEF old, new, l
<1> QED
  BY <1>6, <1>7 DEF TakeOff

(* The first segment is the first piece of the frame: all below it is values, and it ends *)
(* at a value or at the end of the frame.                                                 *)
LEMMA TakesFirst ==
    ASSUME LimitsSuffice, ~AllocFails, TypeOK, Slots, ScanUnholed, acts # <<>>, FromSites, NoGrowth,
           pc = "scan", i <= user_rbp, ScanPlace, TakeOff, UNCHANGED sbuf_stack_top,
           FirstTaken, i \in Values \/ i = user_rbp, FirstPiece' = FirstPiece
    PROVE  FirstTaken'
<1> DEFINE old == sbuf_stack[EncSlot]
           new == sbuf_stack'[EncSlot]
<1>1. EncSlot' = EncSlot /\ old.segs \in Seq(Segment)
  BY SlotType DEF EncSlot, Encrypting, Sbuf
<1>2. CASE new = old
  BY <1>1, <1>2 DEF FirstTaken
<1>3. ASSUME i > prev_rsp,
             \A x \in 1 .. Len(old.segs) : new.segs[x] = old.segs[x],
             new.segs[Len(old.segs) + 1].start = prev_rsp, new.segs[Len(old.segs) + 1].len = i - prev_rsp
      PROVE  FirstTaken'
  <2>1. CASE old.segs # <<>>
    <3>1. new.segs[1] = old.segs[1]
      BY <1>1, <1>3, <2>1
    <3> QED
      BY <1>1, <2>1, <3>1 DEF FirstTaken
  <2>2. CASE old.segs = <<>>
    <3>1. /\ i \in Nat /\ prev_rsp \in Nat /\ user_rsp \in Nat /\ user_rbp \in Nat /\ user_rsp <= prev_rsp
      BY FrameType DEF TypeOK, Slots
    <3>2. Cells(new.segs[1]) = prev_rsp .. i - 1
      <4>1. new.segs[1].start = prev_rsp /\ new.segs[1].len = i - prev_rsp
        BY <1>3, <2>2
      <4> QED
        BY <3>1, <4>1 DEF Cells, Span
    <3>3. \A a \in Spare : a >= prev_rsp /\ a \in Int /\ a < user_rbp
      <4>1. ASSUME NEW a \in Spare PROVE a >= prev_rsp
        <5>1. a \in Addr /\ a \in Int
          BY FrameCells
        <5>2. a \notin Taken
          BY <2>2 DEF Taken
        <5> QED
          BY <3>1, <5>1, <5>2 DEF ScanPlace
      <4> QED
        BY <4>1, FrameCells
    <3>4. \A a \in Int : prev_rsp <= a /\ a < i => a \in Spare
      BY CellsBetween
    <3>5. ASSUME NEW a \in prev_rsp .. i - 1 PROVE a \in FirstPiece
      <4>1. a \in Spare
        BY <3>1, <3>4
      <4>2. ASSUME NEW b \in Spare, NEW v \in Values, b < v, v < a PROVE FALSE
        <5>1. v \in Int
          <6>1. PICK n \in ValueEntries : v \in Value(n)
            BY DEF Values
          <6>2. Top.want[n].addr \in Nat /\ Top.want[n].size \in Nat
            BY WantType DEF ValueEntries
          <6> QED
            BY <6>1, <6>2 DEF Value, Span
        <5>2. prev_rsp <= v /\ v < i
          BY <3>1, <3>3, <4>2, <5>1
        <5>3. v \in Spare
          BY <3>4, <5>1, <5>2
        <5> QED
          BY <5>3, FrameCells
      <4> QED
        BY <4>1, <4>2 DEF FirstPiece
    <3>6. ASSUME NEW a \in FirstPiece PROVE a \in prev_rsp .. i - 1
      <4>1. a \in Spare /\ a \in Int /\ a >= prev_rsp /\ a < user_rbp
        BY <3>3 DEF FirstPiece
      <4>2. CASE i = user_rbp
        BY <3>1, <4>1, <4>2
      <4>3. CASE i \in Values
        <5>1. prev_rsp \in Spare
          BY <1>3, <3>1, <3>4
        <5>2. ~(prev_rsp < i /\ i < a)
          BY <4>3, <5>1 DEF FirstPiece
        <5>3. a # i
          BY <4>1, <4>3, FrameCells
        <5> QED
          BY <1>3, <3>1, <4>1, <5>2, <5>3
      <4> QED
        BY <4>2, <4>3
    <3>7. Cells(new.segs[1]) = FirstPiece
      BY <3>2, <3>5, <3>6
    <3> QED
      BY <1>1, <3>7 DEF FirstTaken
  <2> QED
    BY <2>1, <2>2
<1> QED
  BY <1>2, <1>3, TakeOffAdds

(* What a scan step leaves alone. *)
LEMMA ScanSame ==
    ASSUME IInv, IInv', GivenBack, ~AllocFails, RequestPlace, FromSites,
           ScanParameter \/ ScanLast \/ ScanCell \/ ScanDone
    PROVE  /\ plainStack' = plainStack /\ UNCHANGED <<acts, sbuf_stack_top, fault>> /\ Top' = Top
           /\ FromSites' /\ RequestFits' /\ EncSlot' = EncSlot
           /\ Encrypting /\ pc = "scan" /\ acts # <<>>
<1>1. plainStack' = plainStack
  BY HandlerPlain DEF EncryptStep
<1>2. UNCHANGED <<acts, sbuf_stack_top, fault>> /\ pc = "scan"
  BY DEF ScanParameter, ScanLast, ScanCell, ScanDone, kernel, Scanning
<1>3. Top' = Top /\ FromSites' /\ EncSlot' = EncSlot
  BY <1>2 DEF Top, FromSites, EncSlot
<1>4. Encrypting /\ acts # <<>>
  BY <1>2 DEF Encrypting, IInv, TypeOK
<1>5. RequestFits'
  BY <1>1, <1>3, <1>4, SameRequest DEF RequestPlace
<1> QED
  BY <1>1, <1>2, <1>3, <1>4, <1>5

(* The holes of every slot stay apart where only the slot being filled changes, and has none. *)
LEMMA HolesStayApart ==
    ASSUME TypeOK, TypeOK', Encrypting, EncSlot' = EncSlot,
           \A d \in 0 .. SbufDepth - 1 : HolesApart(d),
           \A d \in 0 .. SbufDepth - 1 : d # EncSlot => sbuf_stack'[d] = sbuf_stack[d],
           sbuf_stack'[EncSlot] = sbuf_stack[EncSlot] \/ sbuf_stack'[EncSlot].holes = <<>>
    PROVE  \A d \in 0 .. SbufDepth - 1 : HolesApart(d)'
<1> SUFFICES ASSUME NEW d \in 0 .. SbufDepth - 1 PROVE HolesApart(d)'
  OBVIOUS
<1>1. CASE sbuf_stack'[d] = sbuf_stack[d]
  BY <1>1 DEF HolesApart
<1>2. CASE sbuf_stack'[d].holes = <<>>
  BY <1>2 DEF HolesApart
<1> QED
  BY <1>1, <1>2

(* The steps of the scan that take cells off the stack. *)
LEMMA ScanTakes ==
    ASSUME LimitsSuffice, ~AllocFails, IInv, IInv', GivenBack, FitInv, ScanParameter \/ ScanLast
    PROVE  FitInv'
<1>0. TypeOK /\ TypeOK' /\ Slots /\ ScanUnholed /\ FromSites /\ NoGrowth /\ RequestPlace /\ NoFault
      /\ \A d \in 0 .. SbufDepth - 1 : HolesApart(d)
  BY DEF IInv, GivenBack, FitInv
<1>1. /\ plainStack' = plainStack /\ UNCHANGED <<acts, sbuf_stack_top, fault>> /\ Top' = Top
      /\ FromSites' /\ RequestFits' /\ EncSlot' = EncSlot
      /\ Encrypting /\ pc = "scan" /\ acts # <<>>
  BY <1>0, ScanSame
<1>2. RequestFits /\ ListKept /\ FirstTaken /\ ScanPlace
  BY <1>0, <1>1 DEF RequestPlace
<1>3. i <= user_rbp /\ TakeOff /\ pc' = "scan"
  BY <1>1 DEF ScanParameter, ScanLast, Scanning
<1>4. /\ NoGrowth'
      /\ \A d \in 0 .. SbufDepth - 1 : d # EncSlot => sbuf_stack'[d] = sbuf_stack[d]
      /\ \A a \in Addr : a \in Taken' <=> a \in Taken \/ (prev_rsp <= a /\ a < i)
  BY <1>0, <1>1, <1>2, <1>3, TakeOffAdds
<1>5. sbuf_stack'[EncSlot] = sbuf_stack[EncSlot] \/ sbuf_stack'[EncSlot].holes = <<>>
  BY <1>0, <1>1, <1>2, <1>3, TakeOffAdds
<1>6. \A d \in 0 .. SbufDepth - 1 : HolesApart(d)'
  BY <1>0, <1>1, <1>4, <1>5, HolesStayApart
<1>7. ListKept'
  BY <1>1, <1>2, <1>3 DEF ListKept
<1>8. PiecesGiven'
  BY <1>3 DEF PiecesGiven
<1>9. /\ user_rsp' = user_rsp /\ user_rbp' = user_rbp /\ Spare' = Spare /\ FirstPiece' = FirstPiece
      /\ ValueEntries' = ValueEntries
  BY <1>1, SameRequest
<1>10. /\ i \in Nat /\ prev_rsp \in Nat /\ user_rsp \in Nat /\ user_rbp \in Nat
       /\ user_rsp <= prev_rsp /\ prev_rsp <= i
  BY <1>0, <1>1, FrameType DEF TypeOK, Slots
<1>11. \A a \in Addr : prev_rsp <= a /\ a < i => a \in Spare
  BY <1>0, <1>1, <1>2, <1>3, CellsBetween DEF Addr
<1>12. \A a \in Addr : a \in Taken' <=> a \in Spare /\ a < i
  <2> SUFFICES ASSUME NEW a \in Addr PROVE a \in Taken' <=> a \in Spare /\ a < i
    OBVIOUS
  <2>1. a \in Taken <=> a \in Spare /\ a < prev_rsp
    BY <1>1, <1>2, <1>3 DEF ScanPlace
  <2>2. a \in Taken' <=> a \in Taken \/ (prev_rsp <= a /\ a < i)
    BY <1>4
  <2>3. a \in Int
    BY DEF Addr
  <2>4. prev_rsp <= a /\ a < i => a \in Spare
    BY <1>11
  <2> QED
    BY <1>10, <2>1, <2>2, <2>3, <2>4
<1>13. CASE ScanParameter
  <2>1. /\ contains(i, Top.plist) # 0 /\ i' = i + contains(i, Top.plist) /\ prev_rsp' = i'
    BY <1>13 DEF ScanParameter
  <2>2. PICK n \in ValueEntries : Top.want[n].addr = i /\ Top.want[n].size = contains(i, Top.plist)
    BY <1>0, <1>1, <1>2, <2>1, ContainsIs
  <2> DEFINE s == Top.want[n].size
  <2>3. s \in Nat \ {0} /\ i' = i + s /\ prev_rsp' = i + s
    BY <1>0, <1>1, <2>1, <2>2, WantType DEF ValueEntries
  <2> HIDE DEF s
  <2>4. Value(n) = i .. (i + s - 1) /\ Value(n) \subseteq Frame /\ Value(n) \subseteq Values
    BY <1>2, <2>2 DEF Value, Span, RequestFits, Values, s
  <2>5. i + s <= user_rbp
    <3>1. i + s - 1 \in Frame
      BY <1>10, <2>3, <2>4
    <3> QED
      BY <1>0, <1>1, <1>10, <2>3, <3>1, FrameCells
  <2>6. i \in Values
    BY <1>10, <2>3, <2>4
  <2>7. FirstTaken'
    BY <1>0, <1>1, <1>2, <1>3, <1>9, <2>6, TakesFirst
  <2>8. \A a \in Addr : a \in Taken' <=> a \in Spare /\ a < i + s
    <3> SUFFICES ASSUME NEW a \in Addr PROVE a \in Taken' <=> a \in Spare /\ a < i + s
      OBVIOUS
    <3>1. a \in Int
      BY DEF Addr
    <3>2. a \in Spare => ~(i <= a /\ a < i + s)
      BY <1>0, <1>1, <1>10, <2>3, <2>4, <3>1, FrameCells
    <3>3. a \in Taken' <=> a \in Spare /\ a < i
      BY <1>12
    <3> QED
      BY <1>10, <2>3, <3>1, <3>2, <3>3
  <2>9. ASSUME NEW m \in ValueEntries
        PROVE  Top.want[m].addr + Top.want[m].size <= i + s \/ Top.want[m].addr >= i + s
    <3>1. Top.want[m].addr \in Nat /\ Top.want[m].size \in Nat \ {0}
      BY <1>0, <1>1, <1>2, WantType DEF ValueEntries
    <3>2. Top.want[m].addr + Top.want[m].size <= prev_rsp \/ Top.want[m].addr >= i
      BY <1>1, <1>2, <1>3 DEF ScanPlace
    <3>3. CASE m = n
      BY <1>10, <2>2, <2>3, <3>1, <3>3 DEF s
    <3>4. CASE m # n
      <4>1. Value(m) \cap Value(n) = {}
        BY <1>2, <3>4 DEF RequestFits
      <4>2. Top.want[m].addr \in Value(m)
        BY <3>1 DEF Value, Span
      <4>3. ~(i <= Top.want[m].addr /\ Top.want[m].addr < i + s)
        BY <1>10, <2>3, <2>4, <3>1, <4>1, <4>2
      <4> QED
        BY <1>10, <2>3, <3>1, <3>2, <4>3
    <3> QED
      BY <3>3, <3>4
  <2>10. ASSUME NEW x \in DOMAIN sbuf_stack'[EncSlot].segs
         PROVE  \E m \in ValueEntries :
                   Top.want[m].addr = sbuf_stack'[EncSlot].segs[x].start + sbuf_stack'[EncSlot].segs[x].len
    <3> DEFINE old == sbuf_stack[EncSlot]
               new == sbuf_stack'[EncSlot]
               l == Len(old.segs)
    <3>1. ASSUME NEW y \in DOMAIN old.segs
          PROVE  \E m \in ValueEntries : Top.want[m].addr = old.segs[y].start + old.segs[y].len
      BY <1>1, <1>2, <1>3, <3>1 DEF ScanPlace
    <3>2. l \in Nat /\ DOMAIN old.segs = 1 .. l
      BY <1>0, <1>1, SlotType DEF Sbuf
    <3>3. CASE new = old
      BY <3>1, <3>3
    <3>4. CASE /\ DOMAIN new.segs = 1 .. l + 1
               /\ \A y \in 1 .. l : new.segs[y] = old.segs[y]
               /\ new.segs[l + 1].start = prev_rsp /\ new.segs[l + 1].len = i - prev_rsp
      <4> HIDE DEF old, l
      <4>1. x \in 1 .. l \/ x = l + 1
        BY <3>2, <3>4
      <4>2. CASE x \in 1 .. l
        <5>1. x \in DOMAIN old.segs /\ new.segs[x] = old.segs[x]
          BY <3>2, <3>4, <4>2
        <5> QED
          BY <3>1, <5>1
      <4>3. CASE x = l + 1
        <5>1. new.segs[x].start + new.segs[x].len = i
          BY <1>10, <3>4, <4>3
        <5> QED
          BY <2>2, <5>1
      <4> QED
        BY <4>1, <4>2, <4>3
    <3>5. \/ new = old
          \/ /\ DOMAIN new.segs = 1 .. l + 1
             /\ \A y \in 1 .. l : new.segs[y] = old.segs[y]
             /\ new.segs[l + 1].start = prev_rsp /\ new.segs[l + 1].len = i - prev_rsp
      BY <1>0, <1>1, <1>2, <1>3, TakeOffAdds
    <3> QED
      BY <3>3, <3>4, <3>5
  <2>11. i' <= user_rbp' /\ prev_rsp' = i + s /\ i' = i + s /\ i' \in Nat /\ user_rbp' \in Nat
    BY <1>9, <1>10, <2>3, <2>5
  <2>12. ScanPlace'
    <3>1. i' <= user_rbp' + 1
      BY <2>11
    <3>2. \A a \in Addr : a \in Taken' <=> a \in Spare' /\ a < prev_rsp'
      BY <1>9, <2>8, <2>11
    <3>3. \A m \in ValueEntries' : \/ Top'.want[m].addr + Top'.want[m].size <= prev_rsp'
                                   \/ Top'.want[m].addr >= i'
      BY <1>1, <1>9, <2>9, <2>11
    <3>4. \A x \in DOMAIN sbuf_stack'[EncSlot'].segs : \E m \in ValueEntries' :
             Top'.want[m].addr = sbuf_stack'[EncSlot'].segs[x].start + sbuf_stack'[EncSlot'].segs[x].len
      BY <1>1, <1>9, <2>10
    <3> QED
      BY <3>1, <3>2, <3>3, <3>4 DEF ScanPlace, Addr
  <2>13. ~ScanOver'
    BY <1>3, <2>11 DEF ScanOver
  <2>14. RequestPlace'
    BY <1>1, <1>7, <1>8, <2>7, <2>12, <2>13 DEF RequestPlace
  <2> QED
    BY <1>0, <1>1, <1>4, <1>6, <2>14 DEF FitInv, NoFault
<1>14. CASE ScanLast
  <2>1. i = user_rbp /\ i' = user_rbp + 1
    BY <1>14 DEF ScanLast
  <2>2. FirstTaken'
    BY <1>0, <1>1, <1>2, <1>3, <1>9, <2>1, TakesFirst
  <2>3. ScanPlace'
    BY <1>9, <1>10, <2>1 DEF ScanPlace
  <2>4. \A a \in Addr : a \in Taken' <=> a \in Spare'
    BY <1>0, <1>1, <1>9, <1>12, <2>1, FrameCells
  <2>5. RequestPlace'
    BY <1>1, <1>7, <1>8, <2>2, <2>3, <2>4 DEF RequestPlace, Addr
  <2> QED
    BY <1>0, <1>1, <1>4, <1>6, <2>5 DEF FitInv, NoFault
<1> QED
  BY <1>13, <1>14

(* The other steps of the scan. *)
LEMMA ScanGoesOn ==
    ASSUME ~AllocFails, IInv, IInv', GivenBack, FitInv, ScanCell \/ ScanDone
    PROVE  FitInv'
<1>0. TypeOK /\ TypeOK' /\ Slots /\ ScanUnholed /\ FromSites /\ NoGrowth /\ RequestPlace /\ NoFault
      /\ \A d \in 0 .. SbufDepth - 1 : HolesApart(d)
  BY DEF IInv, GivenBack, FitInv
<1>1. /\ plainStack' = plainStack /\ UNCHANGED <<acts, sbuf_stack_top, fault>> /\ Top' = Top
      /\ FromSites' /\ RequestFits' /\ EncSlot' = EncSlot
      /\ Encrypting /\ pc = "scan" /\ acts # <<>>
  BY <1>0, ScanSame
<1>2. /\ RequestFits /\ ListKept /\ FirstTaken /\ ScanPlace
      /\ ScanOver => \A a \in Addr : a \in Taken <=> a \in Spare
  BY <1>0, <1>1 DEF RequestPlace
<1>3. UNCHANGED sbuf_stack
  BY DEF ScanCell, ScanDone, kernel
<1>4. NoGrowth' /\ \A d \in 0 .. SbufDepth - 1 : HolesApart(d)'
  BY <1>0, <1>3 DEF NoGrowth, HolesApart
<1>9. /\ user_rsp' = user_rsp /\ user_rbp' = user_rbp /\ Spare' = Spare /\ FirstPiece' = FirstPiece
      /\ ValueEntries' = ValueEntries /\ PointerEntries' = PointerEntries
  BY <1>1, SameRequest
<1>10. FirstTaken' /\ Taken' = Taken
  BY <1>1, <1>2, <1>3, <1>9 DEF FirstTaken, Taken
<1>11. i \in Nat /\ user_rbp \in Nat
  BY <1>0, <1>1, FrameType DEF TypeOK
<1>13. CASE ScanCell
  <2>1. /\ contains(i, Top.plist) = 0 /\ i # user_rbp /\ i <= user_rbp /\ i' = i + 1
        /\ prev_rsp' = prev_rsp /\ pc' = "scan"
    BY <1>13 DEF ScanCell, Scanning
  <2>2. ListKept' /\ PiecesGiven'
    BY <1>1, <1>2, <2>1 DEF ListKept, PiecesGiven
  <2>3. ASSUME NEW n \in ValueEntries
        PROVE  Top.want[n].addr + Top.want[n].size <= prev_rsp \/ Top.want[n].addr >= i + 1
    <3>1. Top.want[n].addr \in Nat /\ Top.want[n].addr # i
      BY <1>0, <1>1, <1>2, <2>1, WantType, ContainsIs DEF ValueEntries
    <3>2. Top.want[n].addr + Top.want[n].size <= prev_rsp \/ Top.want[n].addr >= i
      BY <1>1, <1>2, <2>1 DEF ScanPlace
    <3> QED
      BY <1>11, <3>1, <3>2
  <2>4. ScanPlace'
    <3>1. i' <= user_rbp' + 1 /\ i' <= user_rbp'
      BY <1>9, <1>11, <2>1
    <3>2. \A a \in Addr : a \in Taken' <=> a \in Spare' /\ a < prev_rsp'
      BY <1>1, <1>2, <1>9, <1>10, <2>1 DEF ScanPlace
    <3>3. \A m \in ValueEntries' : \/ Top'.want[m].addr + Top'.want[m].size <= prev_rsp'
                                   \/ Top'.want[m].addr >= i'
      BY <1>1, <1>9, <2>1, <2>3
    <3>4. \A x \in DOMAIN sbuf_stack'[EncSlot'].segs : \E m \in ValueEntries' :
             Top'.want[m].addr = sbuf_stack'[EncSlot'].segs[x].start + sbuf_stack'[EncSlot'].segs[x].len
      BY <1>1, <1>2, <1>3, <1>9, <2>1 DEF ScanPlace
    <3> QED
      BY <3>1, <3>2, <3>3, <3>4 DEF ScanPlace, Addr
  <2>5. ~ScanOver'
    <3>1. i' <= user_rbp' /\ i' \in Nat /\ user_rbp' \in Nat
      BY <1>9, <1>11, <2>1
    <3> QED
      BY <2>1, <3>1 DEF ScanOver
  <2>6. RequestPlace'
    BY <1>1, <1>10, <2>2, <2>4, <2>5 DEF RequestPlace
  <2> QED
    BY <1>0, <1>1, <1>4, <2>6 DEF FitInv, NoFault
<1>14. CASE ScanDone
  <2>1. i > user_rbp /\ pc' = "pointers" /\ k' = 1 /\ ScanOver
    BY <1>1, <1>14 DEF ScanDone, ScanOver
  <2>2. ListKept'
    <3>1. \A n \in DOMAIN Top.want : n \in Nat /\ n >= 1
      BY <1>0, <1>1, WantType
    <3> QED
      BY <1>1, <1>2, <2>1, <3>1 DEF ListKept
  <2>3. PiecesGiven'
    <3>1. sbuf_stack[EncSlot].segs # <<>> => \A a : ~InHole(sbuf_stack[EncSlot], 1, a)
      BY <1>0, <1>1 DEF ScanUnholed, InHole
    <3>2. ASSUME NEW n \in PointerEntries, NEW l PROVE ~Passed(n, l)'
      <4>1. n \in Nat /\ n >= 1
        BY <1>0, <1>1, WantType DEF PointerEntries
      <4> QED
        BY <2>1, <4>1 DEF Passed
    <3> QED
      BY <1>1, <1>3, <1>9, <3>1, <3>2 DEF PiecesGiven
  <2>4. ScanPlace'
    BY <2>1 DEF ScanPlace
  <2>5. \A a \in Addr : a \in Taken' <=> a \in Spare'
    BY <1>2, <1>9, <1>10, <2>1
  <2>6. RequestPlace'
    BY <1>1, <1>10, <2>2, <2>3, <2>4, <2>5 DEF RequestPlace, Addr
  <2> QED
    BY <1>0, <1>1, <1>4, <2>6 DEF FitInv, NoFault
<1> QED
  BY <1>13, <1>14
-----------------------------------------------------------------------------

(* The pointers *)

(* One level less on entry k changes nothing else that the request or the list says. *)
LEMMA LevelIs ==
    ASSUME TypeOK, acts # <<>>, k \in 1 .. Len(Top.plist), NEW n \in CInt, SetLevels(n)
    PROVE  /\ Top'.want = Top.want /\ Top'.sp = Top.sp /\ Top'.rbp = Top.rbp
           /\ DOMAIN Top'.plist = DOMAIN Top.plist
           /\ \A m \in DOMAIN Top.plist : /\ Top'.plist[m].addr = Top.plist[m].addr
                                          /\ Top'.plist[m].size = Top.plist[m].size
                                          /\ m # k => Top'.plist[m].pointer = Top.plist[m].pointer
           /\ Top'.plist[k].pointer = n
           /\ FromSites => FromSites'
<1> DEFINE t == [Top EXCEPT !.plist[k].pointer = n]
<1>1. Top \in Activation /\ Top.plist \in Seq(Para)
  BY TopType DEF Activation
<1>2. t \in Activation
  BY LevelUpdate
<1>3. SetTop(t)
  BY DEF SetLevels
<1>4. /\ t.want = Top.want /\ t.sp = Top.sp /\ t.rbp = Top.rbp /\ t.func = Top.func
      /\ t.plist = [Top.plist EXCEPT ![k].pointer = n]
  BY <1>1 DEF Activation
<1> HIDE DEF t
<1>5. Len(acts') = Len(acts) /\ acts'[Len(acts)] = t /\ Len(acts) \in DOMAIN acts
      /\ \A m \in DOMAIN acts : m # Len(acts) => acts'[m] = acts[m]
  BY <1>2, <1>3, SetTopOnly, TopType
<1>6. Top' = t
  BY <1>5 DEF Top
<1>7. \A m \in DOMAIN Top.plist : Top.plist[m] \in Para
  BY <1>1
<1>8. k \in DOMAIN Top.plist
  BY <1>1
<1>9. DOMAIN t.plist = DOMAIN Top.plist
  BY <1>4
<1>10. \A m \in DOMAIN Top.plist : m # k => t.plist[m] = Top.plist[m]
  BY <1>4
<1>11. t.plist[k] = [Top.plist[k] EXCEPT !.pointer = n]
  BY <1>4, <1>8
<1>12. /\ t.plist[k].pointer = n /\ t.plist[k].addr = Top.plist[k].addr
       /\ t.plist[k].size = Top.plist[k].size
  BY <1>7, <1>8, <1>11 DEF Para
<1>13. FromSites => FromSites'
  <2>1. DOMAIN acts' = DOMAIN acts
    BY <1>2, <1>3, <1>5, SetTopOnly DEF TypeOK
  <2>2. acts[Len(acts)] = Top
    BY DEF Top
  <2>3. \A m \in DOMAIN acts : /\ acts'[m].func = acts[m].func /\ acts'[m].sp = acts[m].sp
                               /\ acts'[m].rbp = acts[m].rbp /\ acts'[m].want = acts[m].want
    BY <1>4, <1>5, <2>2
  <2> QED
    BY <2>1, <2>3 DEF FromSites
<1> QED
  BY <1>4, <1>6, <1>9, <1>10, <1>12, <1>13

(* Every piece that a request asks for is in the first segment. *)
LEMMA PieceInFirst ==
    ASSUME TypeOK, acts # <<>>, pc \in {"pointers", "chase"}, RequestPlace,
           NEW n \in PointerEntries, NEW l \in Levels(n), Piece(n, l) # {}
    PROVE  /\ sbuf_stack[EncSlot].segs # <<>>
           /\ Piece(n, l) \subseteq Cells(sbuf_stack[EncSlot].segs[1]) /\ Piece(n, l) \subseteq Addr
<1>1. RequestFits /\ FirstTaken /\ \A a \in Addr : a \in Taken <=> a \in Spare
  BY DEF RequestPlace, Encrypting, ScanOver
<1>2. Piece(n, l) \subseteq FirstPiece
  BY <1>1 DEF RequestFits
<1>3. PICK c \in Piece(n, l) : TRUE
  OBVIOUS
<1>4. c \in Taken
  BY <1>1, <1>2, <1>3, FrameCells
<1>5. sbuf_stack[EncSlot].segs # <<>>
  BY <1>4 DEF Taken
<1> QED
  BY <1>1, <1>2, <1>5, FrameCells DEF FirstTaken

(* Giving cells of the first segment back. *)
LEMMA GiveFirst ==
    ASSUME IInv, Encrypting, sbuf_stack[EncSlot].segs # <<>>, NEW c \in Addr, NEW len \in Nat \ {0},
           Span(c, len) \subseteq Cells(sbuf_stack[EncSlot].segs[1])
    PROVE  /\ InBuf(c, len)
           /\ GiveBack(c, len) =>
                LET old == sbuf_stack[EncSlot]
                    new == sbuf_stack'[EncSlot]
                    l   == Len(old.holes)
                IN  /\ \A d \in 0 .. SbufDepth - 1 : d # EncSlot => sbuf_stack'[d] = sbuf_stack[d]
                    /\ new.segs = old.segs /\ new.cap = old.cap /\ new.freed = old.freed
                    /\ DOMAIN new.holes = DOMAIN old.holes \cup {l + 1} /\ l + 1 \notin DOMAIN old.holes
                    /\ \A x \in DOMAIN old.holes : new.holes[x] = old.holes[x]
                    /\ new.holes[l + 1] = [seg |-> 1, start |-> c, len |-> len]
                    /\ mem'[c] = old.segs[1].buf[c]
                    /\ \A a : InHole(new, 1, a) <=> InHole(old, 1, a) \/ a \in Span(c, len)
<1> DEFINE old == sbuf_stack[EncSlot]
           x == find_in_stack_buf(old, c, len)
           l == Len(old.holes)
<1>0. TypeOK /\ Programs /\ Slots
  BY DEF IInv
<1>1. /\ EncSlot \in 0 .. SbufDepth - 1 /\ old \in Sbuf /\ sbuf_stack \in [0 .. SbufDepth - 1 -> Sbuf]
      /\ mem \in [Addr -> Val]
  BY <1>0, SlotType DEF TypeOK
<1>2. old.segs \in Seq(Segment) /\ 1 \in DOMAIN old.segs /\ old.holes \in Seq(Hole) /\ l \in Nat
  BY <1>1 DEF Sbuf
<1>3. c \in Int /\ c \in Span(c, len) /\ c + len - 1 \in Span(c, len)
  BY DEF Addr, Span
<1>4. InBuf(c, len)
  <2>1. 1 \in Found(old, c, len)
    <3> DEFINE seg == old.segs[1]
    <3>1. seg.start \in Int /\ seg.len \in Int
      <4>1. seg \in Segment
        BY <1>2
      <4> QED
        BY <4>1, MemoryAssumption DEF Segment, Addr
    <3>2. c \in Cells(seg) /\ c + len - 1 \in Cells(seg)
      BY <1>3
    <3>3. c \in seg.start .. (seg.start + seg.len - len)
      <4> HIDE DEF seg
      <4> QED
        BY <1>3, <3>1, <3>2 DEF Cells, Span
    <3> QED
      BY <1>2, <3>3 DEF Found
  <2> QED
    BY <2>1 DEF InBuf
<1>5. x = 1
  <2>1. x \in DOMAIN old.segs /\ Span(c, len) \subseteq Cells(old.segs[x])
    BY <1>1, <1>4, FindIsFound DEF InBuf
  <2>2. EncSlot \in LiveSlots
    BY <1>0, <1>1, SlotType DEF LiveSlots, EncSlot, Encrypting, TypeOK
  <2> HIDE DEF x
  <2>3. c \in Cells(old.segs[x]) /\ c \in Cells(old.segs[1])
    BY <1>3, <2>1
  <2> QED
    BY <1>0, <1>2, <2>1, <2>2, <2>3, LiveDisjoint
<1>6. ASSUME GiveBack(c, len)
      PROVE  LET new == sbuf_stack'[EncSlot]
             IN  /\ \A d \in 0 .. SbufDepth - 1 : d # EncSlot => sbuf_stack'[d] = sbuf_stack[d]
                 /\ new.segs = old.segs /\ new.cap = old.cap /\ new.freed = old.freed
                 /\ DOMAIN new.holes = DOMAIN old.holes \cup {l + 1} /\ l + 1 \notin DOMAIN old.holes
                 /\ \A y \in DOMAIN old.holes : new.holes[y] = old.holes[y]
                 /\ new.holes[l + 1] = [seg |-> 1, start |-> c, len |-> len]
                 /\ mem'[c] = old.segs[1].buf[c]
                 /\ \A a : InHole(new, 1, a) <=> InHole(old, 1, a) \/ a \in Span(c, len)
  <2> DEFINE new == list_add_tail(old, 1, c, len)
  <2>1. mem' = CopiedBack(mem, old.segs[1], c, len) /\ sbuf_stack' = [sbuf_stack EXCEPT ![EncSlot] = new]
    BY <1>5, <1>6 DEF GiveBack
  <2>2. /\ new \in Sbuf /\ new.segs = old.segs /\ Len(new.holes) = l + 1
        /\ \A y \in 1 .. l : new.holes[y] = old.holes[y]
        /\ new.holes[l + 1] = [seg |-> 1, start |-> c, len |-> len]
    <3> HIDE DEF old
    <3>1. 1 \in Nat \ {0} /\ old \in Sbuf
      BY <1>1
    <3>2. HoleAppended(new, old, 1, c, len)
      BY <3>1, HoleIsAppended
    <3> QED
      BY <3>2 DEF HoleAppended
  <2>3. new.cap = old.cap /\ new.freed = old.freed
    BY <1>1 DEF list_add_tail, Sbuf
  <2> HIDE DEF new
  <2>4. /\ sbuf_stack'[EncSlot] = new
        /\ \A d \in 0 .. SbufDepth - 1 : d # EncSlot => sbuf_stack'[d] = sbuf_stack[d]
    BY <1>1, <2>1
  <2>5. mem'[c] = old.segs[1].buf[c]
    BY <1>3, <2>1 DEF CopiedBack
  <2>6. DOMAIN new.holes = 1 .. l + 1 /\ DOMAIN old.holes = 1 .. l
    BY <1>2, <2>2 DEF Sbuf
  <2> HIDE DEF l, old
  <2>7. DOMAIN new.holes = DOMAIN old.holes \cup {l + 1} /\ l + 1 \notin DOMAIN old.holes
    BY <1>2, <2>6
  <2>8. \A y \in DOMAIN old.holes : new.holes[y] = old.holes[y]
    BY <2>2, <2>6
  <2>9. ASSUME NEW a PROVE InHole(new, 1, a) <=> InHole(old, 1, a) \/ a \in Span(c, len)
    BY <2>2, <2>7, <2>8 DEF InHole
  <2> QED
    BY <2>2, <2>3, <2>4, <2>5, <2>7, <2>8, <2>9
<1> QED
  BY <1>4, <1>6

(* The piece that restore_pointers is at has not been given back. *)
LEMMA NotYetGiven ==
    ASSUME TypeOK, acts # <<>>, pc \in {"pointers", "chase"}, RequestPlace,
           k \in PointerEntries, NEW l \in Levels(k),
           pc = "pointers" => l = 0,
           pc = "chase" => l = Top.want[k].pointer - Top.plist[k].pointer,
           NEW a \in Piece(k, l)
    PROVE  ~InHole(sbuf_stack[EncSlot], 1, a)
<1>1. RequestFits /\ PiecesGiven
  BY DEF RequestPlace, Encrypting
<1>2. sbuf_stack[EncSlot].segs # <<>> /\ a \in Addr
  BY PieceInFirst
<1>3. ASSUME NEW n \in PointerEntries, NEW j \in Levels(n), Passed(n, j) PROVE a \notin Piece(n, j)
  <2>1. n \in Nat /\ k \in Nat /\ j \in Int /\ l \in Int
    BY WantType DEF PointerEntries, Levels
  <2>2. n # k \/ j # l
    BY <1>3, <2>1 DEF Passed
  <2>3. Piece(n, j) \cap Piece(k, l) = {}
    BY <1>1, <2>2 DEF RequestFits
  <2> QED
    BY <2>3
<1> QED
  BY <1>1, <1>2, <1>3 DEF PiecesGiven

(* Giving the piece back that restore_pointers is at. *)
LEMMA GivePiece ==
    ASSUME IInv, FitInv, pc \in {"pointers", "chase"}, UNCHANGED sbuf_stack_top,
           k \in PointerEntries, NEW l \in Levels(k),
           pc = "pointers" => l = 0,
           pc = "chase" => l = Top.want[k].pointer - Top.plist[k].pointer,
           NEW c \in Int, NEW len \in Nat \ {0}, Piece(k, l) = Span(c, len)
    PROVE  /\ InBuf(c, len) /\ c \in Addr
           /\ GiveBack(c, len) =>
                /\ NoGrowth' /\ \A d \in 0 .. SbufDepth - 1 : HolesApart(d)'
                /\ sbuf_stack'[EncSlot].segs = sbuf_stack[EncSlot].segs
                /\ mem'[c] = plainStack[c]
                /\ \A a : InHole(sbuf_stack'[EncSlot], 1, a) <=>
                             InHole(sbuf_stack[EncSlot], 1, a) \/ a \in Piece(k, l)
<1> DEFINE old == sbuf_stack[EncSlot]
           new == sbuf_stack'[EncSlot]
<1>0. /\ TypeOK /\ Programs /\ Slots /\ PlainIs /\ RequestPlace /\ NoGrowth /\ acts # <<>> /\ Encrypting
      /\ \A d \in 0 .. SbufDepth - 1 : HolesApart(d)
  BY PlainRead DEF IInv, FitInv, TypeOK, Encrypting
<1>1. EncSlot \in 0 .. SbufDepth - 1 /\ old \in Sbuf /\ EncSlot' = EncSlot
  BY <1>0, SlotType DEF EncSlot
<1>2. c \in Span(c, len)
  BY DEF Span
<1>3. old.segs # <<>> /\ Span(c, len) \subseteq Cells(old.segs[1]) /\ c \in Addr
  BY <1>0, <1>2, PieceInFirst
<1>4. InBuf(c, len)
  BY <1>0, <1>3, GiveFirst
<1>5. \A a \in Span(c, len) : ~InHole(old, 1, a)
  BY <1>0, NotYetGiven
<1>6. plainStack[c] = old.segs[1].buf[c]
  <2>1. EncSlot \in LiveSlots
    BY <1>0, <1>1, SlotType DEF LiveSlots, EncSlot, Encrypting, TypeOK
  <2>2. FirstLive(EncSlot) = 1
    BY DEF FirstLive
  <2>3. 1 \in DOMAIN old.segs
    BY <1>1, <1>3 DEF Sbuf
  <2>4. Hides(EncSlot, 1, c)
    BY <1>2, <1>3, <1>5, <2>1, <2>2, <2>3 DEF Hides, HiddenIn
  <2> QED
    BY <1>0, <1>3, <2>4 DEF PlainIs
<1>7. ASSUME GiveBack(c, len)
      PROVE  /\ NoGrowth' /\ \A d \in 0 .. SbufDepth - 1 : HolesApart(d)'
             /\ new.segs = old.segs
             /\ mem'[c] = plainStack[c]
             /\ \A a : InHole(new, 1, a) <=> InHole(old, 1, a) \/ a \in Piece(k, l)
  <2> DEFINE z == Len(old.holes) + 1
  <2>1. /\ \A d \in 0 .. SbufDepth - 1 : d # EncSlot => sbuf_stack'[d] = sbuf_stack[d]
        /\ new.segs = old.segs /\ new.cap = old.cap /\ new.freed = old.freed
        /\ DOMAIN new.holes = DOMAIN old.holes \cup {z} /\ z \notin DOMAIN old.holes
        /\ \A x \in DOMAIN old.holes : new.holes[x] = old.holes[x]
        /\ new.holes[z] = [seg |-> 1, start |-> c, len |-> len]
        /\ mem'[c] = old.segs[1].buf[c]
        /\ \A a : InHole(new, 1, a) <=> InHole(old, 1, a) \/ a \in Span(c, len)
    BY <1>0, <1>3, <1>7, GiveFirst
  <2>2. NoGrowth'
    BY <1>0, <1>1, <2>1 DEF NoGrowth
  <2>3. ASSUME NEW d \in 0 .. SbufDepth - 1, d # EncSlot PROVE HolesApart(d)'
    <3>1. sbuf_stack'[d] = sbuf_stack[d] /\ HolesApart(d)
      BY <1>0, <2>1, <2>3
    <3> QED
      BY <3>1 DEF HolesApart
  <2>4. HolesApart(EncSlot)'
    <3> DEFINE os == old.holes
               ns == new.holes
    <3>1. /\ \A x \in DOMAIN os : os[x].seg = 1 /\ os[x].len # 0
          /\ \A x, y \in DOMAIN os : x # y => Span(os[x].start, os[x].len) \cap Span(os[y].start, os[y].len) = {}
      BY <1>0, <1>1, <1>3 DEF HolesApart
    <3>2. \A x \in DOMAIN os : Span(os[x].start, os[x].len) \cap Span(c, len) = {}
      BY <1>5, <3>1 DEF InHole
    <3>3. /\ DOMAIN ns = DOMAIN os \cup {z} /\ \A x \in DOMAIN os : ns[x] = os[x]
          /\ ns[z].seg = 1 /\ ns[z].start = c /\ ns[z].len = len
      BY <2>1
    <3> HIDE DEF os, ns, z
    <3>4. \A x \in DOMAIN ns : ns[x].seg = 1 /\ ns[x].len # 0
      BY <3>1, <3>3
    <3>5. ASSUME NEW x \in DOMAIN ns, NEW y \in DOMAIN ns, x # y
          PROVE  Span(ns[x].start, ns[x].len) \cap Span(ns[y].start, ns[y].len) = {}
      BY <3>1, <3>2, <3>3, <3>5
    <3> QED
      BY <1>1, <3>4, <3>5 DEF HolesApart, ns
  <2> QED
    BY <1>1, <1>6, <2>1, <2>2, <2>3, <2>4
<1> QED
  BY <1>3, <1>4, <1>7

(* What holds of the request after a step of restore_pointers that leaves it and the *)
(* segments alone.                                                                    *)
LEMMA PointersSame ==
    ASSUME IInv, FitInv, Encrypting, pc # "scan", pc' \in {"pointers", "chase"}, UNCHANGED sbuf_stack_top,
           plainStack' = plainStack, Top'.want = Top.want, Top'.sp = Top.sp, Top'.rbp = Top.rbp,
           sbuf_stack'[EncSlot].segs = sbuf_stack[EncSlot].segs, ListKept', PiecesGiven'
    PROVE  RequestPlace'
<1>1. /\ EncSlot' = EncSlot
      /\ RequestFits /\ FirstTaken /\ (ScanOver => \A a \in Addr : a \in Taken <=> a \in Spare)
  BY DEF EncSlot, FitInv, RequestPlace
<1>2. RequestFits' /\ Spare' = Spare /\ FirstPiece' = FirstPiece
  BY <1>1, SameRequest
<1>3. FirstTaken' /\ Taken' = Taken
  BY <1>1, <1>2 DEF FirstTaken, Taken
<1>4. ScanOver
  BY DEF ScanOver
<1>5. ScanPlace'
  BY DEF ScanPlace
<1>6. \A a \in Addr : a \in Taken' <=> a \in Spare'
  BY <1>1, <1>2, <1>3, <1>4
<1> QED
  BY <1>2, <1>3, <1>5, <1>6 DEF RequestPlace, Addr

(* The entry that restore_pointers is at, in the request. *)
LEMMA AtRequest ==
    ASSUME IInv, FitInv, AtEntry \/ Chasing
    PROVE  /\ TypeOK /\ acts # <<>> /\ Encrypting /\ pc \in {"pointers", "chase"} /\ pc # "scan"
           /\ RequestPlace /\ RequestFits /\ ListKept /\ PiecesGiven
           /\ k \in DOMAIN Top.want /\ k \in 1 .. Len(Top.plist) /\ k \in Nat
           /\ Top.want[k].pointer \in Nat /\ Top.want[k].addr \in Nat /\ Top.want[k].size \in Nat \ {0}
           /\ Top.plist[k].pointer \in Nat /\ Top.plist[k].pointer \in CInt
           /\ Top.plist[k].addr = Top.want[k].addr /\ Top.plist[k].size = Top.want[k].size
           /\ AtEntry => Top.plist[k].pointer = Top.want[k].pointer
<1>1. TypeOK /\ Programs /\ RequestPlace
  BY DEF IInv, FitInv
<1>2. acts # <<>> /\ Encrypting /\ k \in 1 .. Len(Top.plist) /\ pc \in {"pointers", "chase"}
  BY <1>1, EntryType DEF AtEntry, Chasing
<1>3. RequestFits /\ ListKept /\ PiecesGiven
  BY <1>1, <1>2 DEF RequestPlace
<1>4. k \in DOMAIN Top.plist /\ DOMAIN Top.plist = DOMAIN Top.want /\ k \in Nat
  BY <1>1, <1>2, <1>3, WantType DEF ListKept
<1>5. /\ Top.want[k].pointer \in Nat /\ Top.want[k].addr \in Nat /\ Top.want[k].size \in Nat \ {0}
      /\ Top.plist[k].pointer \in Nat /\ Top.plist[k].pointer \in CInt
  BY <1>1, <1>2, <1>3, <1>4, WantType
<1> QED
  BY <1>1, <1>2, <1>3, <1>4, <1>5 DEF ListKept, AtEntry

(* A pointer is given back, and the chase begins at what it points to. *)
LEMMA PassPointerFits ==
    ASSUME ~AllocFails, IInv, IInv', GivenBack, FitInv, PassPointer
    PROVE  FitInv'
<1>0. AtEntry /\ Top.plist[k].pointer # 0
  BY DEF PassPointer
<1>1. /\ TypeOK /\ acts # <<>> /\ Encrypting /\ pc \in {"pointers", "chase"} /\ pc # "scan"
      /\ RequestPlace /\ RequestFits /\ ListKept /\ PiecesGiven
      /\ k \in DOMAIN Top.want /\ k \in 1 .. Len(Top.plist) /\ k \in Nat
      /\ Top.want[k].pointer \in Nat /\ Top.want[k].addr \in Nat /\ Top.want[k].size \in Nat \ {0}
      /\ Top.plist[k].pointer \in Nat /\ Top.plist[k].pointer \in CInt
      /\ Top.plist[k].addr = Top.want[k].addr
      /\ Top.plist[k].pointer = Top.want[k].pointer
  BY <1>0, AtRequest
<1> DEFINE w == Top.want[k].addr
           q == Top.want[k].pointer
<1>3. /\ k \in PointerEntries /\ q \in Nat \ {0} /\ q - 1 \in Nat /\ q - 1 \in CInt
      /\ Below(Top.plist[k].pointer) = q - 1
  BY <1>0, <1>1, BelowIs DEF PointerEntries
<1>2. /\ pc = "pointers" /\ pc' = "chase" /\ SetLevels(q - 1) /\ GiveBack(w, 1)
      /\ addr_in_stack' = mem'[w] /\ UNCHANGED <<k, fault, sbuf_stack_top>>
  BY <1>0, <1>1, <1>3 DEF PassPointer, AtEntry
<1>4. 0 \in Levels(k) /\ Piece(k, 0) = {w} /\ {w} = Span(w, 1)
  BY <1>1, <1>3, FirstLevel DEF Span
<1>5. plainStack' = plainStack
  BY HandlerPlain DEF EncryptStep
<1>6. /\ Top'.want = Top.want /\ Top'.sp = Top.sp /\ Top'.rbp = Top.rbp
      /\ DOMAIN Top'.plist = DOMAIN Top.plist
      /\ \A m \in DOMAIN Top.plist : /\ Top'.plist[m].addr = Top.plist[m].addr
                                     /\ Top'.plist[m].size = Top.plist[m].size
                                     /\ m # k => Top'.plist[m].pointer = Top.plist[m].pointer
      /\ Top'.plist[k].pointer = q - 1
      /\ FromSites'
  BY <1>1, <1>2, <1>3, LevelIs DEF FitInv
<1>7. /\ NoGrowth' /\ \A d \in 0 .. SbufDepth - 1 : HolesApart(d)'
      /\ sbuf_stack'[EncSlot].segs = sbuf_stack[EncSlot].segs
      /\ mem'[w] = plainStack[w]
      /\ \A a : InHole(sbuf_stack'[EncSlot], 1, a) <=>
                   InHole(sbuf_stack[EncSlot], 1, a) \/ a \in Piece(k, 0)
  <2>1. w \in Int /\ 1 \in Nat \ {0}
    BY <1>1
  <2> HIDE DEF w
  <2>2. Piece(k, 0) = Span(w, 1)
    BY <1>4
  <2> QED
    BY <1>1, <1>2, <1>3, <1>4, <2>1, <2>2, GivePiece
<1>8. addr_in_stack' = Chain(Top.want[k])[1]
  <2>1. Chain(Top.want[k])[0] = w /\ \A n \in 1 .. q : Chain(Top.want[k])[n] = plainStack[Chain(Top.want[k])[n - 1]]
    BY <1>1, ChainIs
  <2>2. 1 \in 1 .. q /\ 1 - 1 = 0
    BY <1>3
  <2>3. Chain(Top.want[k])[1] = plainStack[w]
    BY <2>1, <2>2
  <2> QED
    BY <1>2, <1>7, <2>3
<1>9. /\ \A n : Chain(Top.want[n])' = Chain(Top.want[n]) /\ Levels(n)' = Levels(n)
      /\ PointerEntries' = PointerEntries /\ \A n, l : Piece(n, l)' = Piece(n, l)
  BY <1>5, <1>6, SameRequest
<1>10. ListKept'
  <2>1. /\ DOMAIN Top'.plist = DOMAIN Top'.want
        /\ \A n \in DOMAIN Top'.want : /\ Top'.plist[n].addr = Top'.want[n].addr
                                       /\ Top'.plist[n].size = Top'.want[n].size
    BY <1>1, <1>6 DEF ListKept
  <2>a. \A n \in DOMAIN Top'.want : Top'.plist[n].pointer >= 0
    BY <1>1, <1>3, <1>6 DEF ListKept
  <2>2. ASSUME NEW n \in DOMAIN Top.want, n > k PROVE Top'.plist[n].pointer = Top'.want[n].pointer
    BY <1>1, <1>2, <1>6, <2>2 DEF ListKept
  <2>3. Top'.plist[k].pointer < Top'.want[k].pointer /\ Top'.want[k].pointer - Top'.plist[k].pointer = 1
    BY <1>3, <1>6
  <2>4. ASSUME NEW n \in DOMAIN Top.want, n = k
        PROVE  addr_in_stack' = Chain(Top.want[n])'[Top'.want[n].pointer - Top'.plist[n].pointer]
    BY <1>8, <1>9, <2>3, <2>4
  <2> QED
    BY <1>2, <1>6, <2>1, <2>a, <2>2, <2>3, <2>4 DEF ListKept
<1>11. PiecesGiven'
  <2> SUFFICES ASSUME sbuf_stack'[EncSlot'].segs # <<>>, NEW a \in Addr
               PROVE  InHole(sbuf_stack'[EncSlot'], 1, a) <=>
                        \E n \in PointerEntries' : \E l \in Levels(n)' : Passed(n, l)' /\ a \in Piece(n, l)'
    BY DEF PiecesGiven, Addr
  <2>1. EncSlot' = EncSlot
    BY <1>2 DEF EncSlot
  <2>2. InHole(sbuf_stack[EncSlot], 1, a) <=>
           \E n \in PointerEntries : \E l \in Levels(n) : Passed(n, l) /\ a \in Piece(n, l)
    BY <1>1, <1>7, <2>1 DEF PiecesGiven
  <2>3. ASSUME NEW n \in PointerEntries, NEW l \in Levels(n)
        PROVE  Passed(n, l)' <=> Passed(n, l) \/ (n = k /\ l = 0)
    <3>1. l \in Nat /\ n \in Nat
      BY <1>1, WantType DEF Levels, PointerEntries
    <3>2. Passed(n, l) <=> n < k
      BY <1>2 DEF Passed
    <3>3. n = k => Top'.want[n].pointer - Top'.plist[n].pointer = 1
      BY <1>3, <1>6
    <3>4. Passed(n, l)' <=> n < k \/ (n = k /\ l < 1)
      BY <1>2, <3>3 DEF Passed
    <3> QED
      BY <3>1, <3>2, <3>4
  <2> QED
    BY <1>3, <1>4, <1>7, <1>9, <2>1, <2>2, <2>3
<1>12. RequestPlace'
  BY <1>1, <1>2, <1>5, <1>6, <1>7, <1>10, <1>11, PointersSame
<1> QED
  BY <1>2, <1>6, <1>7, <1>12 DEF FitInv, NoFault

(* The level the chase has come to, and the cell that addr_in_stack names. *)
LEMMA ChaseAt ==
    ASSUME IInv, FitInv, Chasing, LimitsSuffice
    PROVE  LET l == Top.want[k].pointer - Top.plist[k].pointer
           IN  /\ k \in PointerEntries /\ l \in Levels(k) /\ l \in Nat \ {0}
               /\ addr_in_stack = Chain(Top.want[k])[l] /\ addr_in_stack \in Nat
               /\ Top.plist[k].pointer # 0 =>
                     /\ Piece(k, l) = {addr_in_stack} /\ {addr_in_stack} = Span(addr_in_stack, 1)
                     /\ l + 1 \in 1 .. Top.want[k].pointer
               /\ Top.plist[k].pointer = 0 => l = Top.want[k].pointer /\ Piece(k, l) = Object(Top.want[k])
<1> DEFINE q == Top.want[k].pointer
           r == Top.plist[k].pointer
           l == q - r
<1>1. /\ k \in DOMAIN Top.want /\ q \in Nat /\ r \in Nat /\ ListKept /\ TypeOK
  BY AtRequest
<1>2. r < q /\ addr_in_stack = Chain(Top.want[k])[l]
  BY <1>1 DEF ListKept, Chasing
<1>3. k \in PointerEntries /\ l \in Nat \ {0} /\ l \in Levels(k)
  <2>1. q # 0 /\ q - r \in Nat \ {0} /\ q - r \in 0 .. q
    BY <1>1, <1>2
  <2> QED
    BY <1>1, <2>1 DEF PointerEntries, Levels
<1>4. addr_in_stack \in Nat
  <2>1. addr_in_stack \in Val \cup {0}
    BY <1>1 DEF TypeOK
  <2> QED
    BY <2>1 DEF LimitsSuffice
<1>5. ASSUME r # 0
      PROVE  Piece(k, l) = {addr_in_stack} /\ {addr_in_stack} = Span(addr_in_stack, 1) /\ l + 1 \in 1 .. q
  <2>1. l < q /\ l + 1 \in 1 .. q
    BY <1>1, <1>2, <1>5
  <2>2. Piece(k, l) = {addr_in_stack}
    BY <1>2, <2>1 DEF Piece
  <2> QED
    BY <1>4, <2>1, <2>2 DEF Span
<1>6. ASSUME r = 0 PROVE l = q /\ Piece(k, l) = Object(Top.want[k])
  <2>1. l = q /\ ~(l < q)
    BY <1>1, <1>6
  <2> QED
    BY <2>1 DEF Piece
<1> QED
  BY <1>2, <1>3, <1>4, <1>5, <1>6

(* A further level is given back, and the chase goes on to what it points to. *)
LEMMA FollowPointerFits ==
    ASSUME LimitsSuffice, ~AllocFails, IInv, IInv', GivenBack, FitInv, FollowPointer
    PROVE  FitInv'
<1>0. Chasing /\ Top.plist[k].pointer # 0
  BY DEF FollowPointer
<1>1. /\ TypeOK /\ acts # <<>> /\ Encrypting /\ pc \in {"pointers", "chase"} /\ pc # "scan"
      /\ RequestPlace /\ RequestFits /\ ListKept /\ PiecesGiven
      /\ k \in DOMAIN Top.want /\ k \in 1 .. Len(Top.plist) /\ k \in Nat
      /\ Top.want[k].pointer \in Nat /\ Top.plist[k].pointer \in Nat /\ Top.plist[k].pointer \in CInt
  BY <1>0, AtRequest
<1> DEFINE w == addr_in_stack
           q == Top.want[k].pointer
           r == Top.plist[k].pointer
           lv == q - r
<1>a. Below(r) = r - 1 /\ r - 1 \in CInt
  BY <1>0, <1>1, BelowIs
<1>2. /\ pc = "chase" /\ pc' = "chase" /\ SetLevels(r - 1) /\ GiveBack(w, 1)
      /\ addr_in_stack' = mem'[w] /\ UNCHANGED <<k, fault, sbuf_stack_top>>
  BY <1>0, <1>a DEF FollowPointer, Chasing
<1>3. /\ k \in PointerEntries /\ lv \in Levels(k) /\ lv \in Nat \ {0}
      /\ w = Chain(Top.want[k])[lv] /\ w \in Nat
      /\ Piece(k, lv) = {w} /\ {w} = Span(w, 1) /\ lv + 1 \in 1 .. q
  BY <1>0, ChaseAt
<1>4. r - 1 \in Nat /\ q - (r - 1) = lv + 1 /\ r - 1 < q
  <2>1. r \in Nat \ {0} /\ q \in Nat /\ q - r \in Nat
    BY <1>0, <1>1, <1>3
  <2> HIDE DEF q, r
  <2> QED
    BY <2>1
<1>5. plainStack' = plainStack
  BY HandlerPlain DEF EncryptStep
<1>6. /\ Top'.want = Top.want /\ Top'.sp = Top.sp /\ Top'.rbp = Top.rbp
      /\ DOMAIN Top'.plist = DOMAIN Top.plist
      /\ \A m \in DOMAIN Top.plist : /\ Top'.plist[m].addr = Top.plist[m].addr
                                     /\ Top'.plist[m].size = Top.plist[m].size
                                     /\ m # k => Top'.plist[m].pointer = Top.plist[m].pointer
      /\ Top'.plist[k].pointer = r - 1
      /\ FromSites'
  BY <1>1, <1>2, <1>a, LevelIs, SMTT(30) DEF FitInv
<1>7. /\ NoGrowth' /\ \A d \in 0 .. SbufDepth - 1 : HolesApart(d)'
      /\ sbuf_stack'[EncSlot].segs = sbuf_stack[EncSlot].segs
      /\ mem'[w] = plainStack[w]
      /\ \A a : InHole(sbuf_stack'[EncSlot], 1, a) <=>
                   InHole(sbuf_stack[EncSlot], 1, a) \/ a \in Piece(k, lv)
  <2>1. w \in Int /\ 1 \in Nat \ {0}
    BY <1>3
  <2> HIDE DEF lv
  <2>2. Piece(k, lv) = Span(w, 1) /\ lv = Top.want[k].pointer - Top.plist[k].pointer
    BY <1>3 DEF lv
  <2> QED
    BY <1>1, <1>2, <1>3, <2>1, <2>2, GivePiece
<1>8. addr_in_stack' = Chain(Top.want[k])[lv + 1]
  <2>1. \A n \in 1 .. q : Chain(Top.want[k])[n] = plainStack[Chain(Top.want[k])[n - 1]]
    BY <1>1, ChainIs
  <2>2. lv + 1 - 1 = lv
    BY <1>3
  <2> HIDE DEF lv
  <2>3. Chain(Top.want[k])[lv + 1] = plainStack[w]
    BY <1>3, <2>1, <2>2
  <2> QED
    BY <1>2, <1>7, <2>3
<1>9. /\ \A n : Chain(Top.want[n])' = Chain(Top.want[n]) /\ Levels(n)' = Levels(n)
      /\ PointerEntries' = PointerEntries /\ \A n, l : Piece(n, l)' = Piece(n, l)
  BY <1>5, <1>6, SameRequest
<1>10. ListKept'
  <2>1. /\ DOMAIN Top'.plist = DOMAIN Top'.want
        /\ \A n \in DOMAIN Top'.want : /\ Top'.plist[n].addr = Top'.want[n].addr
                                       /\ Top'.plist[n].size = Top'.want[n].size
    BY <1>1, <1>6 DEF ListKept
  <2>a. \A n \in DOMAIN Top'.want : Top'.plist[n].pointer >= 0
    <3>1. \A n \in DOMAIN Top.want : Top.plist[n].pointer >= 0 /\ n \in DOMAIN Top.plist
      BY <1>1 DEF ListKept
    <3>2. Top'.plist[k].pointer >= 0
      BY <1>4, <1>6
    <3> HIDE DEF lv, q, r
    <3> QED
      BY <1>6, <3>1, <3>2
  <2>2. ASSUME NEW n \in DOMAIN Top.want, n > k PROVE Top'.plist[n].pointer = Top'.want[n].pointer
    BY <1>1, <1>2, <1>6, <2>2 DEF ListKept
  <2>3. Top'.plist[k].pointer < Top'.want[k].pointer /\ Top'.want[k].pointer - Top'.plist[k].pointer = lv + 1
    BY <1>4, <1>6
  <2> HIDE DEF lv
  <2>4. ASSUME NEW n \in DOMAIN Top.want, n = k
        PROVE  addr_in_stack' = Chain(Top.want[n])'[Top'.want[n].pointer - Top'.plist[n].pointer]
    BY <1>8, <1>9, <2>3, <2>4
  <2> QED
    BY <1>2, <1>6, <2>1, <2>a, <2>2, <2>3, <2>4 DEF ListKept
<1>11. PiecesGiven'
  <2> SUFFICES ASSUME sbuf_stack'[EncSlot'].segs # <<>>, NEW a \in Addr
               PROVE  InHole(sbuf_stack'[EncSlot'], 1, a) <=>
                        \E n \in PointerEntries' : \E l \in Levels(n)' : Passed(n, l)' /\ a \in Piece(n, l)'
    BY DEF PiecesGiven, Addr
  <2>1. EncSlot' = EncSlot
    BY <1>2 DEF EncSlot
  <2>2. InHole(sbuf_stack[EncSlot], 1, a) <=>
           \E n \in PointerEntries : \E l \in Levels(n) : Passed(n, l) /\ a \in Piece(n, l)
    BY <1>1, <1>7, <2>1 DEF PiecesGiven
  <2>3. ASSUME NEW n \in PointerEntries, NEW l \in Levels(n)
        PROVE  Passed(n, l)' <=> Passed(n, l) \/ (n = k /\ l = lv)
    <3>1. l \in Nat /\ n \in Nat
      BY <1>1, WantType DEF Levels, PointerEntries
    <3>2. Passed(n, l) <=> n < k \/ (n = k /\ l < lv)
      BY <1>2 DEF Passed
    <3>3. n = k => Top'.want[n].pointer - Top'.plist[n].pointer = lv + 1
      BY <1>4, <1>6
    <3> HIDE DEF lv
    <3>4. Passed(n, l)' <=> n < k \/ (n = k /\ l < lv + 1)
      BY <1>2, <3>3 DEF Passed
    <3> QED
      BY <1>3, <3>1, <3>2, <3>4
  <2> HIDE DEF lv
  <2> QED
    BY <1>3, <1>7, <1>9, <2>1, <2>2, <2>3
<1>12. RequestPlace'
  BY <1>1, <1>2, <1>5, <1>6, <1>7, <1>10, <1>11, PointersSame
<1> QED
  BY <1>2, <1>6, <1>7, <1>12 DEF FitInv, NoFault

(* The object at the end is given back if it is in the frame. *)
LEMMA PassObjectFits ==
    ASSUME LimitsSuffice, ~AllocFails, IInv, IInv', GivenBack, FitInv, PassObject
    PROVE  FitInv'
<1>0. Chasing /\ Top.plist[k].pointer = 0
  BY DEF PassObject
<1>1. /\ TypeOK /\ acts # <<>> /\ Encrypting /\ pc \in {"pointers", "chase"} /\ pc # "scan"
      /\ RequestPlace /\ RequestFits /\ ListKept /\ PiecesGiven
      /\ k \in DOMAIN Top.want /\ k \in 1 .. Len(Top.plist) /\ k \in Nat
      /\ Top.want[k].pointer \in Nat /\ Top.want[k].size \in Nat \ {0}
      /\ Top.plist[k].size = Top.want[k].size
  BY <1>0, AtRequest
<1> DEFINE w == addr_in_stack
           q == Top.want[k].pointer
           s == Top.want[k].size
<1>2. /\ pc = "chase" /\ pc' = "pointers" /\ k' = k + 1 /\ UNCHANGED <<acts, fault, sbuf_stack_top>>
      /\ IF InBuf(w, s) THEN GiveBack(w, s) ELSE UNCHANGED <<mem, sbuf_stack>>
  BY <1>0, <1>1 DEF PassObject, Chasing
<1>3. /\ k \in PointerEntries /\ q \in Levels(k) /\ q = Top.want[k].pointer - Top.plist[k].pointer
      /\ w = Chain(Top.want[k])[q] /\ w \in Nat /\ Piece(k, q) = Object(Top.want[k])
  BY <1>0, ChaseAt
<1>4. Object(Top.want[k]) = IF Span(w, s) \subseteq Frame THEN Span(w, s) ELSE {}
  BY <1>3 DEF Object
<1>5. plainStack' = plainStack
  BY HandlerPlain DEF EncryptStep
<1>6. Top' = Top /\ FromSites' /\ EncSlot' = EncSlot
  BY <1>2 DEF FitInv, Top, FromSites, EncSlot
<1>7. /\ NoGrowth' /\ \A d \in 0 .. SbufDepth - 1 : HolesApart(d)'
      /\ sbuf_stack'[EncSlot].segs = sbuf_stack[EncSlot].segs
      /\ \A a : InHole(sbuf_stack'[EncSlot], 1, a) <=>
                   InHole(sbuf_stack[EncSlot], 1, a) \/ a \in Piece(k, q)
  <2>1. CASE Span(w, s) \subseteq Frame
    <3>1. Piece(k, q) = Span(w, s) /\ w \in Int
      BY <1>3, <1>4, <2>1
    <3> HIDE DEF w, s, q
    <3>2. /\ k \in PointerEntries /\ q \in Levels(k) /\ q = Top.want[k].pointer - Top.plist[k].pointer
          /\ s \in Nat \ {0}
      BY <1>1, <1>3 DEF s, q
    <3>3. InBuf(w, s)
      BY <1>1, <1>2, <3>1, <3>2, GivePiece
    <3>4. GiveBack(w, s)
      BY <1>2, <3>3
    <3> QED
      BY <1>1, <1>2, <3>1, <3>2, <3>4, GivePiece
  <2>2. CASE ~(Span(w, s) \subseteq Frame)
    <3>1. Piece(k, q) = {}
      BY <1>3, <1>4, <2>2
    <3>2. ASSUME InBuf(w, s) PROVE FALSE
      <4> DEFINE old == sbuf_stack[EncSlot]
                 x == find_in_stack_buf(old, w, s)
      <4>1. old \in Sbuf
        BY <1>1, SlotType
      <4>2. x \in DOMAIN old.segs /\ Span(w, s) \subseteq Cells(old.segs[x])
        BY <1>1, <3>2, <4>1, FindIsFound DEF InBuf
      <4>3. TypeOK /\ Programs /\ Slots
        BY DEF IInv
      <4>4. EncSlot \in LiveSlots
        BY <1>1, <4>3, SlotType DEF LiveSlots, EncSlot, Encrypting, TypeOK
      <4> HIDE DEF x
      <4>5. Cells(old.segs[x]) \subseteq Addr
        BY <4>2, <4>3, <4>4, LiveCells
      <4>6. \A a \in Addr : a \in Taken <=> a \in Spare
        BY <1>1 DEF RequestPlace, ScanOver
      <4>7. Cells(old.segs[x]) \subseteq Taken
        BY <4>2, <4>5 DEF Taken
      <4>8. Cells(old.segs[x]) \subseteq Frame
        BY <1>1, <4>5, <4>6, <4>7, FrameCells
      <4> QED
        BY <2>2, <4>2, <4>8
    <3>3. UNCHANGED sbuf_stack
      BY <1>2, <3>2
    <3>4. NoGrowth /\ \A d \in 0 .. SbufDepth - 1 : HolesApart(d)
      BY DEF FitInv
    <3> QED
      BY <3>1, <3>3, <3>4 DEF NoGrowth, HolesApart
  <2> QED
    BY <2>1, <2>2
<1>9. /\ \A n : Levels(n)' = Levels(n)
      /\ PointerEntries' = PointerEntries /\ \A n, l : Piece(n, l)' = Piece(n, l)
  BY <1>5, <1>6, SameRequest
<1>10. ListKept'
  <2>1. ASSUME NEW n \in DOMAIN Top.want, n >= k + 1 PROVE n > k
    BY <1>1, <2>1, WantType
  <2>2. \A n \in DOMAIN Top.want : n > k + 1 \/ n = k + 1 => n >= k + 1
    BY <1>1, WantType
  <2> QED
    BY <1>1, <1>2, <1>6, <2>1, <2>2 DEF ListKept
<1>11. PiecesGiven'
  <2> SUFFICES ASSUME sbuf_stack'[EncSlot'].segs # <<>>, NEW a \in Addr
               PROVE  InHole(sbuf_stack'[EncSlot'], 1, a) <=>
                        \E n \in PointerEntries' : \E l \in Levels(n)' : Passed(n, l)' /\ a \in Piece(n, l)'
    BY DEF PiecesGiven, Addr
  <2>2. InHole(sbuf_stack[EncSlot], 1, a) <=>
           \E n \in PointerEntries : \E l \in Levels(n) : Passed(n, l) /\ a \in Piece(n, l)
    BY <1>1, <1>6, <1>7 DEF PiecesGiven
  <2>3. ASSUME NEW n \in PointerEntries, NEW l \in Levels(n)
        PROVE  Passed(n, l)' <=> Passed(n, l) \/ (n = k /\ l = q)
    <3>1. n \in Nat /\ (n = k => l \in Nat /\ l <= q)
      BY <1>1, WantType DEF Levels, PointerEntries
    <3>2. Passed(n, l) <=> n < k \/ (n = k /\ l < q)
      BY <1>2, <1>3 DEF Passed
    <3>3. Passed(n, l)' <=> n < k + 1
      BY <1>2 DEF Passed
    <3> QED
      BY <1>1, <3>1, <3>2, <3>3
  <2> HIDE DEF q
  <2> QED
    BY <1>3, <1>6, <1>7, <1>9, <2>2, <2>3
<1>12. RequestPlace'
  BY <1>1, <1>2, <1>5, <1>6, <1>7, <1>10, <1>11, PointersSame
<1> QED
  BY <1>2, <1>6, <1>7, <1>12 DEF FitInv, NoFault

(* A value needs nothing from restore_pointers. *)
LEMMA PassByValueFits ==
    ASSUME ~AllocFails, IInv, IInv', GivenBack, FitInv, PassByValue
    PROVE  FitInv'
<1>0. AtEntry /\ Top.plist[k].pointer = 0
  BY DEF PassByValue
<1>1. /\ TypeOK /\ acts # <<>> /\ Encrypting /\ pc \in {"pointers", "chase"} /\ pc # "scan"
      /\ RequestPlace /\ RequestFits /\ ListKept /\ PiecesGiven
      /\ k \in DOMAIN Top.want /\ k \in Nat /\ Top.want[k].pointer = 0
  BY <1>0, AtRequest
<1>2. /\ pc = "pointers" /\ pc' = "pointers" /\ k' = k + 1
      /\ UNCHANGED <<acts, sbuf_stack, fault, sbuf_stack_top>>
  BY DEF PassByValue, AtEntry, kernel
<1>5. plainStack' = plainStack
  BY HandlerPlain DEF EncryptStep
<1>6. Top' = Top /\ FromSites' /\ EncSlot' = EncSlot
  BY <1>2 DEF FitInv, Top, FromSites, EncSlot
<1>7. NoGrowth' /\ \A d \in 0 .. SbufDepth - 1 : HolesApart(d)'
  BY <1>2 DEF FitInv, NoGrowth, HolesApart
<1>9. /\ \A n : Levels(n)' = Levels(n)
      /\ PointerEntries' = PointerEntries /\ \A n, l : Piece(n, l)' = Piece(n, l)
  BY <1>5, <1>6, SameRequest
<1>10. ListKept'
  <2>1. \A n \in DOMAIN Top.want : n > k + 1 \/ n = k + 1 => n > k
    BY <1>1, WantType
  <2> QED
    BY <1>1, <1>2, <1>6, <2>1 DEF ListKept
<1>11. PiecesGiven'
  <2>1. ASSUME NEW n \in PointerEntries, NEW l PROVE Passed(n, l)' <=> Passed(n, l)
    <3>1. n \in Nat /\ n # k
      BY <1>1, WantType DEF PointerEntries
    <3>2. Passed(n, l) <=> n < k
      BY <1>2 DEF Passed
    <3>3. Passed(n, l)' <=> n < k + 1
      BY <1>2 DEF Passed
    <3> QED
      BY <1>1, <3>1, <3>2, <3>3
  <2> QED
    BY <1>1, <1>2, <1>6, <1>9, <2>1 DEF PiecesGiven
<1>12. RequestPlace'
  BY <1>1, <1>2, <1>5, <1>6, <1>10, <1>11, PointersSame
<1> QED
  BY <1>2, <1>6, <1>7, <1>12 DEF FitInv, NoFault

(* No pointer is missing, and no array was reallocated. *)
LEMMA NothingMissing ==
    ASSUME LimitsSuffice, IInv, FitInv
    PROVE  ~PassPointerStale /\ ~PassPointerMissing /\ ~FollowPointerMissing
<1>1. ~PassPointerStale
  <2> SUFFICES ASSUME PassPointerStale PROVE FALSE
    OBVIOUS
  <2>1. TypeOK /\ Encrypting
    BY AtRequest DEF PassPointerStale
  <2> QED
    BY <2>1, SlotType DEF PassPointerStale, FitInv, NoGrowth
<1>2. ~PassPointerMissing
  <2> SUFFICES ASSUME PassPointerMissing PROVE FALSE
    OBVIOUS
  <2>0. AtEntry /\ Top.plist[k].pointer # 0 /\ ~InBuf(Top.plist[k].addr, 1) /\ pc = "pointers"
    BY DEF PassPointerMissing, AtEntry
  <2>1. /\ TypeOK /\ acts # <<>> /\ Encrypting /\ RequestPlace /\ RequestFits /\ k \in DOMAIN Top.want
        /\ Top.plist[k].pointer = Top.want[k].pointer /\ Top.plist[k].addr = Top.want[k].addr
        /\ Top.want[k].addr \in Nat
    BY <2>0, AtRequest
  <2> DEFINE w == Top.want[k].addr
  <2>2. k \in PointerEntries
    BY <2>0, <2>1 DEF PointerEntries
  <2>3. 0 \in Levels(k) /\ Piece(k, 0) = {w} /\ {w} = Span(w, 1)
    BY <2>1, <2>2, FirstLevel DEF Span
  <2>4. /\ sbuf_stack[EncSlot].segs # <<>> /\ w \in Addr
        /\ Span(w, 1) \subseteq Cells(sbuf_stack[EncSlot].segs[1])
    BY <2>0, <2>1, <2>2, <2>3, PieceInFirst
  <2> HIDE DEF w
  <2>5. InBuf(w, 1)
    <3>1. 1 \in Nat \ {0}
      OBVIOUS
    <3> QED
      BY <2>1, <2>4, <3>1, GiveFirst
  <2> QED
    BY <2>0, <2>1, <2>5 DEF w
<1>3. ~FollowPointerMissing
  <2> SUFFICES ASSUME FollowPointerMissing PROVE FALSE
    OBVIOUS
  <2>0. Chasing /\ Top.plist[k].pointer # 0 /\ ~InBuf(addr_in_stack, 1) /\ pc = "chase"
    BY DEF FollowPointerMissing, Chasing
  <2>1. TypeOK /\ acts # <<>> /\ Encrypting /\ RequestPlace
    BY <2>0, AtRequest
  <2> DEFINE lv == Top.want[k].pointer - Top.plist[k].pointer
  <2>2. /\ k \in PointerEntries /\ lv \in Levels(k)
        /\ Piece(k, lv) = {addr_in_stack} /\ {addr_in_stack} = Span(addr_in_stack, 1)
    BY <2>0, ChaseAt
  <2> HIDE DEF lv
  <2>4. /\ sbuf_stack[EncSlot].segs # <<>> /\ addr_in_stack \in Addr
        /\ Span(addr_in_stack, 1) \subseteq Cells(sbuf_stack[EncSlot].segs[1])
    BY <2>0, <2>1, <2>2, PieceInFirst
  <2>5. InBuf(addr_in_stack, 1)
    <3>1. 1 \in Nat \ {0}
      OBVIOUS
    <3> QED
      BY <2>1, <2>4, <3>1, GiveFirst
  <2> QED
    BY <2>0, <2>5
<1> QED
  BY <1>1, <1>2, <1>3
-----------------------------------------------------------------------------

(* The other steps, and the theorems *)

(* A step outside an encrypt that leaves the buffers alone, and every activation what it *)
(* asks for.                                                                             *)
LEMMA FitQuiet ==
    ASSUME FitInv, ~Encrypting', UNCHANGED <<sbuf_stack, fault>>, FromSites'
    PROVE  FitInv'
<1>1. NoGrowth' /\ NoFault' /\ \A d \in 0 .. SbufDepth - 1 : HolesApart(d)'
  BY DEF FitInv, NoGrowth, NoFault, HolesApart
<1>2. RequestPlace'
  BY DEF RequestPlace
<1> QED
  BY <1>1, <1>2 DEF FitInv

(* Writing the flag of the innermost activation changes nothing that it asks for. *)
LEMMA FlagIs ==
    ASSUME TypeOK, acts # <<>>, FromSites, SetTop(Requested) \/ SetTop(Answered)
    PROVE  /\ FromSites' /\ Top'.want = Top.want /\ Top'.sp = Top.sp /\ Top'.rbp = Top.rbp
           /\ SetTop(Requested) /\ FreshLists => Top'.plist = Top.want
<1>1. PICK t \in {Requested, Answered} : SetTop(t) /\ (SetTop(Requested) => t = Requested)
  OBVIOUS
<1>2. /\ t \in Activation /\ t.func = Top.func /\ t.sp = Top.sp /\ t.rbp = Top.rbp /\ t.want = Top.want
  BY TopType, ActivationUpdates DEF Requested, Answered, Activation
<1>3. FreshLists => Requested.plist = Top.want
  BY TopType DEF Requested, Activation
<1>4. /\ acts' \in Seq(Activation) /\ Len(acts') = Len(acts) /\ acts'[Len(acts)] = t
      /\ \A m \in DOMAIN acts : m # Len(acts) => acts'[m] = acts[m]
  BY <1>1, <1>2, SetTopOnly
<1>5. Top' = t /\ acts[Len(acts)] = Top
  BY <1>4 DEF Top
<1>6. DOMAIN acts' = DOMAIN acts
  BY <1>4 DEF TypeOK
<1>7. FromSites'
  <2>1. \A m \in DOMAIN acts : /\ acts'[m].func = acts[m].func /\ acts'[m].sp = acts[m].sp
                               /\ acts'[m].rbp = acts[m].rbp /\ acts'[m].want = acts[m].want
    BY <1>2, <1>4, <1>5
  <2> QED
    BY <1>6, <2>1 DEF FromSites
<1> QED
  BY <1>1, <1>2, <1>3, <1>5, <1>7

(* A request that is taken up begins with an empty buffer at the bottom of the frame. *)
LEMMA EnterFits ==
    ASSUME WellAsked, LimitsSuffice, IInv, IInv', GivenBack, FitInv, RequestsFit, EncryptEnter
    PROVE  FitInv'
<1>0. TypeOK /\ Slots /\ FromSites /\ ~AllocFails /\ FreshLists
  BY DEF IInv, FitInv, WellAsked, LimitsSuffice
<1>1. /\ Running /\ acts # <<>> /\ ~Top.enc /\ SetTop(Requested) /\ ~(user_rbp < user_rsp)
      /\ sbuf_stack_top' = sbuf_stack_top + 1 /\ sbuf_stack_top < SbufDepth
      /\ pc = "user" /\ pc' = "scan" /\ i' = user_rsp /\ prev_rsp' = user_rsp
      /\ UNCHANGED <<sbuf_stack, fault>>
  BY DEF EncryptEnter, Refused, Running
<1>2. RequestFits
  BY <1>1 DEF RequestsFit
<1>3. plainStack' = plainStack
  BY <1>0, HandlerPlain
<1>4. /\ FromSites' /\ Top'.want = Top.want /\ Top'.sp = Top.sp /\ Top'.rbp = Top.rbp
      /\ Top'.plist = Top'.want
  BY <1>0, <1>1, FlagIs
<1>5. /\ user_rsp' = user_rsp /\ user_rbp' = user_rbp /\ Spare' = Spare /\ ValueEntries' = ValueEntries
      /\ RequestFits'
  BY <1>2, <1>3, <1>4, SameRequest
<1>6. sbuf_stack'[EncSlot'].segs = <<>>
  <2>1. sbuf_stack_top \in sbuf_stack_top .. SbufDepth - 1 /\ EncSlot' = sbuf_stack_top
    BY <1>0, <1>1, SlotType DEF EncSlot
  <2> QED
    BY <1>0, <1>1, <2>1 DEF Slots
<1>7. user_rsp \in Nat /\ user_rbp \in Nat /\ user_rsp <= user_rbp
  BY <1>0, <1>1, FrameType
<1>8. ListKept'
  BY <1>1, <1>2, <1>4 DEF ListKept, RequestFits
<1>9. FirstTaken' /\ PiecesGiven' /\ Taken' = {}
  BY <1>1, <1>6 DEF FirstTaken, PiecesGiven, Taken
<1>10. ScanPlace'
  <2>1. i' <= user_rbp' + 1 /\ i' <= user_rbp'
    BY <1>1, <1>5, <1>7
  <2>2. \A a \in Addr : a \in Taken' <=> a \in Spare' /\ a < prev_rsp'
    <3>1. \A a \in Spare : user_rsp <= a /\ a \in Int
      BY <1>0, <1>1, FrameCells
    <3> QED
      BY <1>1, <1>5, <1>7, <1>9, <3>1
  <2>3. ASSUME NEW n \in ValueEntries PROVE Top.want[n].addr >= user_rsp
    <3>1. Top.want[n].addr \in Nat /\ Top.want[n].size \in Nat \ {0}
      BY <1>0, <1>1, <1>2, WantType DEF ValueEntries
    <3>2. Top.want[n].addr \in Value(n)
      BY <3>1 DEF Value, Span
    <3>3. Top.want[n].addr \in Frame
      BY <1>2, <3>2 DEF RequestFits
    <3> QED
      BY <1>0, <1>1, <1>7, <3>1, <3>3, FrameCells
  <2>4. \A n \in ValueEntries' : \/ Top'.want[n].addr + Top'.want[n].size <= prev_rsp'
                                 \/ Top'.want[n].addr >= i'
    BY <1>1, <1>4, <1>5, <2>3
  <2>5. \A x \in DOMAIN sbuf_stack'[EncSlot'].segs : \E m \in ValueEntries' :
           Top'.want[m].addr = sbuf_stack'[EncSlot'].segs[x].start + sbuf_stack'[EncSlot'].segs[x].len
    BY <1>6
  <2> QED
    BY <2>1, <2>2, <2>4, <2>5 DEF ScanPlace, Addr
<1>11. ~ScanOver'
  <2>1. ~(i' > user_rbp')
    BY <1>1, <1>5, <1>7
  <2> QED
    BY <1>1, <2>1 DEF ScanOver
<1>12. RequestPlace'
  BY <1>5, <1>8, <1>9, <1>10, <1>11 DEF RequestPlace
<1>13. NoGrowth' /\ NoFault' /\ \A d \in 0 .. SbufDepth - 1 : HolesApart(d)'
  BY <1>1 DEF FitInv, NoGrowth, NoFault, HolesApart
<1> QED
  BY <1>4, <1>12, <1>13 DEF FitInv

(* A decrypt finds the symbol map, its record and a whole buffer. *)
LEMMA DecryptFits ==
    ASSUME WellAsked, IInv, AskInv, FitInv, Decrypt \/ DecryptStep
    PROVE  FitInv'
<1>0. TypeOK /\ Programs /\ Slots /\ FromSites /\ NoGrowth /\ RequestPlace /\ NoFault
      /\ \A d \in 0 .. SbufDepth - 1 : HolesApart(d)
  BY DEF IInv, FitInv
<1>1. ~DecryptNoMapper
  <2> SUFFICES ASSUME DecryptNoMapper PROVE FALSE
    OBVIOUS
  <2>1. acts # <<>> /\ Top.enc /\ init = 0
    BY DEF DecryptNoMapper, Asks, WellAsked
  <2>2. ~Top.enc
    BY <1>0, <2>1, TopType DEF AskInv, MapperWhole, Top
  <2> QED
    BY <2>1, <2>2
<1>2. ~DecryptNoName
  <2> SUFFICES ASSUME DecryptNoName PROVE FALSE
    OBVIOUS
  <2>1. acts # <<>> /\ call_stack # <<>> /\ Top.func \notin mapper
    BY DEF DecryptNoName, Asks
  <2>2. {s.func : s \in Sites} \subseteq mapper
    BY <2>1 DEF AskInv, MapperWhole
  <2>3. Top.func \in {s.func : s \in Sites}
    BY <1>0, <2>1, TopType DEF Activation
  <2> QED
    BY <2>1, <2>2, <2>3
<1>3. ~RestoreUndefined
  <2> SUFFICES ASSUME RestoreUndefined PROVE FALSE
    OBVIOUS
  <2>1. pc = "restore" /\ k <= Len(sbuf_stack[DecSlot].segs) /\ ~GapsDefined(sbuf_stack[DecSlot], k)
    BY DEF RestoreUndefined, AtSegment
  <2>2. k >= 1 /\ k \in Nat
    BY <1>0, <2>1 DEF Programs, HandlerFrame, TypeOK
  <2>3. DecSlot \in 0 .. SbufDepth - 1 /\ sbuf_stack[DecSlot] \in Sbuf
    BY <1>0, <2>1, SlotType
  <2>4. sbuf_stack[DecSlot].segs # <<>>
    BY <2>1, <2>2
  <2>5. HolesApart(DecSlot)
    BY <1>0, <2>3
  <2>6. CASE k = 1
    <3> DEFINE hs == sbuf_stack[DecSlot].holes
    <3>1. /\ \A x \in DOMAIN hs : hs[x].seg = 1 /\ hs[x].len # 0
          /\ \A x, y \in DOMAIN hs :
                x # y => Span(hs[x].start, hs[x].len) \cap Span(hs[y].start, hs[y].len) = {}
      BY <2>4, <2>5 DEF HolesApart
    <3>2. HolesOf(sbuf_stack[DecSlot], k) = hs /\ hs \in Seq(Hole)
      BY <2>3, <2>6 DEF HolesOf, Sbuf
    <3> HIDE DEF hs
    <3>3. \A x \in DOMAIN hs : x \in Nat /\ hs[x].start \in Int /\ hs[x].len \in Nat
      <4> TAKE x \in DOMAIN hs
      <4>1. x \in Nat /\ hs[x] \in Hole
        BY <3>2
      <4> QED
        BY <4>1, MemoryAssumption DEF Hole, Addr
    <3>4. ASSUME NEW x \in DOMAIN hs, NEW y \in DOMAIN hs, SortedBefore(hs, x, y)
          PROVE  hs[x].start + hs[x].len <= hs[y].start
      <4>1. hs[x].start <= hs[y].start /\ x # y
        BY <3>3, <3>4 DEF SortedBefore
      <4>2. hs[y].start \in Span(hs[y].start, hs[y].len)
        BY <3>1, <3>3 DEF Span
      <4>3. hs[y].start \notin Span(hs[x].start, hs[x].len)
        BY <3>1, <4>1, <4>2
      <4> QED
        BY <3>3, <4>1, <4>3 DEF Span
    <3> QED
      BY <2>1, <2>6, <3>1, <3>2, <3>4 DEF GapsDefined
  <2>7. CASE k # 1
    <3>1. HolesOf(sbuf_stack[DecSlot], k) = <<>>
      BY <2>7 DEF HolesOf
    <3> QED
      BY <2>1, <3>1 DEF GapsDefined
  <2> QED
    BY <2>6, <2>7
<1>4. CASE DecryptRefused
  <2>1. acts # <<>> /\ SetTop(Answered) /\ pc' = "user" /\ UNCHANGED <<sbuf_stack, fault>>
    BY <1>4 DEF DecryptRefused, Asks, Running, kernel
  <2>2. FromSites'
    BY <1>0, <2>1, FlagIs
  <2> QED
    BY <2>1, <2>2, FitQuiet DEF Encrypting
<1>5. CASE DecryptEnter
  <2>1. /\ call_stack # <<>> /\ sbuf_stack_top' = sbuf_stack_top - 1 /\ pc' = "restore"
        /\ fault' = IF sbuf_stack[sbuf_stack_top'].freed THEN "use_after_free" ELSE fault
        /\ UNCHANGED <<acts, sbuf_stack>>
    BY <1>5 DEF DecryptEnter
  <2>2. sbuf_stack_top' \in 0 .. SbufDepth - 1
    BY <1>0, <2>1, ParameterAssumption DEF TypeOK
  <2>3. UNCHANGED fault
    BY <1>0, <2>1, <2>2 DEF NoGrowth
  <2>4. FromSites'
    BY <1>0, <2>1 DEF FromSites
  <2> QED
    BY <2>1, <2>3, <2>4, FitQuiet DEF Encrypting
<1>6. CASE RestoreSegment
  <2>1. pc' = "restore" /\ UNCHANGED <<acts, sbuf_stack, fault>>
    BY <1>6 DEF RestoreSegment, AtSegment, kernel
  <2>2. FromSites'
    BY <1>0, <2>1 DEF FromSites
  <2> QED
    BY <2>1, <2>2, FitQuiet DEF Encrypting
<1>7. CASE DecryptReturn
  <2>1. /\ pc = "restore" /\ pc' = "user" /\ SetTop(Answered) /\ UNCHANGED fault /\ acts # <<>>
        /\ sbuf_stack' = [sbuf_stack EXCEPT ![DecSlot].segs = <<>>]
    BY <1>0, <1>7 DEF DecryptReturn, TypeOK
  <2>2. FromSites'
    BY <1>0, <2>1, FlagIs
  <2>3. DecSlot \in 0 .. SbufDepth - 1 /\ sbuf_stack \in [0 .. SbufDepth - 1 -> Sbuf]
    BY <1>0, <2>1, SlotType DEF TypeOK
  <2>4. /\ \A d \in 0 .. SbufDepth - 1 : d # DecSlot => sbuf_stack'[d] = sbuf_stack[d]
        /\ sbuf_stack'[DecSlot] = [sbuf_stack[DecSlot] EXCEPT !.segs = <<>>]
    BY <2>1, <2>3
  <2>5. /\ sbuf_stack'[DecSlot].segs = <<>> /\ sbuf_stack'[DecSlot].cap = sbuf_stack[DecSlot].cap
        /\ sbuf_stack'[DecSlot].freed = sbuf_stack[DecSlot].freed
    BY <2>3, <2>4 DEF Sbuf
  <2>6. NoGrowth'
    BY <1>0, <2>3, <2>4, <2>5 DEF NoGrowth
  <2>7. ASSUME NEW d \in 0 .. SbufDepth - 1 PROVE HolesApart(d)'
    <3>1. CASE d = DecSlot
      BY <2>5, <3>1 DEF HolesApart
    <3>2. CASE d # DecSlot
      <4>1. sbuf_stack'[d] = sbuf_stack[d] /\ HolesApart(d)
        BY <1>0, <2>4, <3>2
      <4> QED
        BY <4>1 DEF HolesApart
    <3> QED
      BY <3>1, <3>2
  <2>8. RequestPlace' /\ NoFault'
    BY <1>0, <2>1 DEF RequestPlace, Encrypting, NoFault
  <2> QED
    BY <2>2, <2>6, <2>7, <2>8 DEF FitInv
<1> QED
  BY <1>1, <1>2, <1>3, <1>4, <1>5, <1>6, <1>7 DEF Decrypt, DecryptStep

(* The program's own steps. *)
LEMMA ProgramFits ==
    ASSUME IInv, FitInv, (\E s \in Sites : Call(s)) \/ Return \/ \E w \in Stores : Store(w[1], w[2])
    PROVE  FitInv'
<1>0. TypeOK /\ FromSites
  BY DEF IInv, FitInv
<1>1. pc' = "user" /\ UNCHANGED <<sbuf_stack, fault>>
  BY DEF Call, Return, Store, Running, kernel
<1>2. acts \in Seq(Activation)
  BY <1>0 DEF TypeOK
<1>3. FromSites'
  <2>1. ASSUME NEW s \in Sites, Call(s) PROVE FromSites'
    <3> DEFINE t == [func |-> s.func, sp |-> s.sp, rbp |-> s.rbp,
                     want |-> s.plist, plist |-> s.plist, enc |-> FALSE]
    <3>1. acts' = Append(acts, t)
      BY <2>1 DEF Call
    <3>2. t.func = s.func /\ t.sp = s.sp /\ t.rbp = s.rbp /\ t.want = s.plist
      OBVIOUS
    <3> HIDE DEF t
    <3>3. /\ DOMAIN acts' = DOMAIN acts \cup {Len(acts) + 1} /\ acts'[Len(acts) + 1] = t
          /\ \A m \in DOMAIN acts : acts'[m] = acts[m]
      BY <1>2, <3>1
    <3>4. ASSUME NEW m \in DOMAIN acts'
          PROVE  \E z \in Sites : /\ acts'[m].func = z.func /\ acts'[m].sp = z.sp /\ acts'[m].rbp = z.rbp
                                  /\ acts'[m].want = z.plist
      <4>1. CASE m \in DOMAIN acts
        BY <1>0, <3>3, <4>1 DEF FromSites
      <4>2. CASE m = Len(acts) + 1
        BY <3>2, <3>3, <4>2
      <4> QED
        BY <3>3, <4>1, <4>2
    <3> QED
      BY <3>4 DEF FromSites
  <2>2. CASE Return
    <3>1. acts' = SubSeq(acts, 1, Len(acts) - 1) /\ acts # <<>>
      BY <2>2 DEF Return
    <3>2. \A m \in DOMAIN acts' : m \in DOMAIN acts /\ acts'[m] = acts[m]
      BY <1>2, <3>1
    <3> QED
      BY <1>0, <3>2 DEF FromSites
  <2>3. ASSUME NEW w \in Stores, Store(w[1], w[2]) PROVE FromSites'
    BY <1>0, <2>3 DEF Store, FromSites
  <2> QED
    BY <2>1, <2>2, <2>3
<1> QED
  BY <1>1, <1>3, FitQuiet DEF Encrypting

(* A step that changes nothing. *)
LEMMA StutterFits ==
    ASSUME IInv, IInv', FitInv, UNCHANGED vars
    PROVE  FitInv'
<1>0. UNCHANGED <<mem, acts, sbuf_stack, sbuf_stack_top, pc, i, prev_rsp, k, addr_in_stack, fault>>
  BY DEF vars
<1>1. plainStack' = plainStack
  BY <1>0, PlainRead, PlainReadNext, QuietPlain
<1>2. Top' = Top /\ EncSlot' = EncSlot /\ FromSites' /\ Encrypting' = Encrypting
  BY <1>0 DEF Top, EncSlot, FromSites, FitInv, Encrypting
<1>3. /\ user_rsp' = user_rsp /\ user_rbp' = user_rbp
      /\ ValueEntries' = ValueEntries /\ PointerEntries' = PointerEntries
      /\ Spare' = Spare /\ FirstPiece' = FirstPiece
      /\ \A n : Levels(n)' = Levels(n)
      /\ \A n, l : Piece(n, l)' = Piece(n, l)
      /\ \A n : Chain(Top.want[n])' = Chain(Top.want[n])
      /\ RequestFits => RequestFits'
  BY <1>1, <1>2, SameRequest
<1>4. NoGrowth' /\ NoFault' /\ \A d \in 0 .. SbufDepth - 1 : HolesApart(d)'
  BY <1>0 DEF FitInv, NoGrowth, NoFault, HolesApart
<1>5. CASE ~Encrypting
  BY <1>2, <1>4, <1>5 DEF FitInv, RequestPlace
<1>6. CASE Encrypting
  <2>1. /\ RequestFits /\ ListKept /\ FirstTaken /\ ScanPlace /\ PiecesGiven
        /\ (ScanOver => \A a \in Addr : a \in Taken <=> a \in Spare)
    BY <1>6 DEF FitInv, RequestPlace
  <2>2. Taken' = Taken /\ ScanOver' = ScanOver
    BY <1>0, <1>2, <1>3 DEF Taken, ScanOver
  <2>3. ListKept'
    BY <1>0, <1>2, <1>3, <2>1 DEF ListKept
  <2>4. FirstTaken' /\ ScanPlace'
    BY <1>0, <1>2, <1>3, <2>1, <2>2 DEF FirstTaken, ScanPlace
  <2>5. \A n, l : Passed(n, l)' <=> Passed(n, l)
    BY <1>0, <1>2 DEF Passed
  <2>6. PiecesGiven'
    BY <1>0, <1>2, <1>3, <2>1, <2>5 DEF PiecesGiven
  <2>7. RequestPlace'
    BY <1>3, <2>1, <2>2, <2>3, <2>4, <2>6 DEF RequestPlace, Addr
  <2> QED
    BY <1>2, <1>4, <2>7 DEF FitInv
<1> QED
  BY <1>5, <1>6

(* Every step of a program whose requests fit keeps the invariant. *)
LEMMA FitStep ==
    ASSUME WellAsked, LimitsSuffice, IInv, IInv', GivenBack, AskInv, FitInv, RequestsFit, [Next]_vars
    PROVE  FitInv'
<1>0. TypeOK /\ Programs /\ FromSites /\ ~AllocFails /\ NoFault
  BY DEF IInv, FitInv, WellAsked
<1>1. CASE (\E s \in Sites : Call(s)) \/ Return \/ \E w \in Stores : Store(w[1], w[2])
  BY <1>1, ProgramFits
<1>2. CASE EncryptRefused
  <2>1. acts # <<>> /\ SetTop(Requested) /\ pc' = "user" /\ UNCHANGED <<sbuf_stack, fault>>
    BY <1>2 DEF EncryptRefused, Running
  <2>2. FromSites'
    BY <1>0, <2>1, FlagIs
  <2> QED
    BY <2>1, <2>2, FitQuiet DEF Encrypting
<1>3. CASE EncryptEnter
  BY <1>3, EnterFits
<1>4. ~EncryptOverflow
  BY <1>0, RoomForTop DEF EncryptOverflow, AskInv
<1>5. CASE ScanParameter \/ ScanLast
  BY <1>0, <1>5, ScanTakes
<1>6. CASE ScanCell \/ ScanDone
  BY <1>0, <1>6, ScanGoesOn
<1>7. CASE PassByValue
  BY <1>0, <1>7, PassByValueFits
<1>8. CASE PassPointer
  BY <1>0, <1>8, PassPointerFits
<1>9. CASE FollowPointer
  BY <1>0, <1>9, FollowPointerFits
<1>10. CASE PassObject
  BY <1>0, <1>10, PassObjectFits
<1>11. ~PassPointerStale /\ ~PassPointerMissing /\ ~FollowPointerMissing
  BY NothingMissing
<1>12. CASE EncryptReturn
  <2>1. pc' = "user" /\ UNCHANGED <<acts, sbuf_stack, fault>>
    BY <1>12 DEF EncryptReturn, kernel
  <2>2. FromSites'
    BY <1>0, <2>1 DEF FromSites
  <2> QED
    BY <2>1, <2>2, FitQuiet DEF Encrypting
<1>13. CASE Decrypt \/ DecryptStep
  BY <1>13, DecryptFits
<1>14. CASE UNCHANGED vars
  BY <1>14, StutterFits
<1>15. ~Halted
  BY <1>0 DEF Halted, NoFault
<1> QED
  BY <1>1, <1>2, <1>3, <1>4, <1>5, <1>6, <1>7, <1>8, <1>9, <1>10, <1>11, <1>12, <1>13, <1>14, <1>15
  DEF Next, Encrypt, EncryptStep

(* At the start no buffer is in use. *)
LEMMA FitInit == Init => FitInv
BY DEF Init, FitInv, FromSites, NoGrowth, HolesApart, RequestPlace, NoFault, Encrypting, init_stack_buf

(* When the walk over the pointers is over, what is hidden is what the request did not *)
(* ask for.                                                                            *)
LEMMA FitGrants == IInv /\ FitInv => GrantExact
<1> SUFFICES ASSUME IInv, FitInv, pc = "pointers", k > Len(Top.plist)
             PROVE  {a \in Addr : HiddenBy(EncSlot, a)} =
                        Frame \ UNION {Granted(Top.want[n]) : n \in DOMAIN Top.want}
  BY DEF GrantExact
<1> DEFINE Asked == UNION {Granted(Top.want[n]) : n \in DOMAIN Top.want}
           segs == sbuf_stack[EncSlot].segs
<1>0. TypeOK /\ RequestPlace /\ Encrypting /\ acts # <<>> /\ Programs /\ Slots
  BY DEF IInv, FitInv, Encrypting, TypeOK
<1>1. /\ RequestFits /\ ListKept /\ FirstTaken /\ PiecesGiven
      /\ \A a \in Addr : a \in Taken <=> a \in Spare
  BY <1>0 DEF RequestPlace, ScanOver
<1>2. \A n \in DOMAIN Top.want : n < k
  BY <1>0, <1>1, WantType DEF ListKept, TypeOK
<1>3. \A n \in DOMAIN Top.want : \A l : Passed(n, l)
  BY <1>2 DEF Passed
<1>4. ASSUME NEW a PROVE a \in Asked <=> a \in Values \/ \E n \in PointerEntries : \E l \in Levels(n) : a \in Piece(n, l)
  <2>1. ASSUME NEW n \in ValueEntries PROVE Granted(Top.want[n]) = Value(n)
    BY DEF ValueEntries, Granted, Value
  <2>2. ASSUME NEW n \in PointerEntries
        PROVE  a \in Granted(Top.want[n]) <=> \E l \in Levels(n) : a \in Piece(n, l)
    <3> DEFINE q == Top.want[n].pointer
    <3>1. q \in Nat \ {0}
      BY <1>0, <1>1, WantType DEF PointerEntries
    <3>2. a \in Granted(Top.want[n]) <=> \/ \E l \in 0 .. q - 1 : a = Chain(Top.want[n])[l]
                                         \/ a \in Object(Top.want[n])
      BY <3>1 DEF Granted
    <3>3. \A l \in 0 .. q - 1 : l \in Levels(n) /\ Piece(n, l) = {Chain(Top.want[n])[l]}
      BY <3>1 DEF Levels, Piece
    <3>4. q \in Levels(n) /\ Piece(n, q) = Object(Top.want[n])
      BY <3>1 DEF Levels, Piece
    <3>5. \A l \in Levels(n) : l = q \/ l \in 0 .. q - 1
      BY <3>1 DEF Levels
    <3> HIDE DEF q
    <3> QED
      BY <3>2, <3>3, <3>4, <3>5
  <2>3. DOMAIN Top.want = ValueEntries \cup PointerEntries
    BY DEF ValueEntries, PointerEntries
  <2>4. a \in Values <=> \E n \in ValueEntries : a \in Value(n)
    BY DEF Values
  <2>5. a \in Asked <=> \E n \in DOMAIN Top.want : a \in Granted(Top.want[n])
    OBVIOUS
  <2> HIDE DEF Asked
  <2> QED
    BY <2>1, <2>2, <2>3, <2>4, <2>5
<1> HIDE DEF Asked
<1>5. EncSlot \in 0 .. SbufDepth - 1 /\ sbuf_stack[EncSlot] \in Sbuf /\ FirstLive(EncSlot) = 1
  BY <1>0, SlotType DEF FirstLive
<1>6. segs \in Seq(Segment) /\ \A n \in DOMAIN segs : n \in Nat /\ n >= 1
  BY <1>5 DEF Sbuf
<1>7. ASSUME NEW a \in Addr PROVE HiddenBy(EncSlot, a) <=> a \in Frame /\ a \notin Asked
  <2>1. HiddenBy(EncSlot, a) <=>
           \E n \in DOMAIN segs : a \in Cells(segs[n]) /\ ~InHole(sbuf_stack[EncSlot], n, a)
    BY <1>5, <1>6 DEF HiddenBy, HiddenIn
  <2>2. a \in Taken <=> \E n \in DOMAIN segs : a \in Cells(segs[n])
    BY DEF Taken
  <2>3. CASE a \notin Taken
    <3>1. a \notin Frame \/ a \in Values
      BY <1>1, <2>3 DEF Spare
    <3> QED
      BY <1>4, <2>1, <2>2, <2>3, <3>1
  <2>4. CASE a \in Taken
    <3>1. a \in Frame /\ a \notin Values
      BY <1>1, <2>4 DEF Spare
    <3>2. PICK n \in DOMAIN segs : a \in Cells(segs[n])
      BY <2>2, <2>4
    <3>3. segs # <<>>
      BY <1>6, <3>2
    <3>4. InHole(sbuf_stack[EncSlot], 1, a) <=>
             \E m \in PointerEntries : \E l \in Levels(m) : Passed(m, l) /\ a \in Piece(m, l)
      BY <1>1, <3>3 DEF PiecesGiven
    <3>5. InHole(sbuf_stack[EncSlot], 1, a) <=> a \in Asked
      BY <1>3, <1>4, <3>1, <3>4 DEF PointerEntries
    <3>6. \A m \in DOMAIN segs : a \in Cells(segs[m]) => m = n
      <4>1. EncSlot \in LiveSlots
        BY <1>0, <1>5, SlotType DEF LiveSlots, EncSlot, TypeOK
      <4> QED
        BY <1>0, <3>2, <4>1, LiveDisjoint
    <3>7. HolesApart(EncSlot)
      BY <1>5 DEF FitInv
    <3>8. InHole(sbuf_stack[EncSlot], n, a) <=> a \in Asked
      <4>1. CASE n = 1
        BY <3>5, <4>1
      <4>2. CASE n # 1
        <5>1. ~InHole(sbuf_stack[EncSlot], n, a)
          BY <3>3, <3>7, <4>2 DEF HolesApart, InHole
        <5>2. ~InHole(sbuf_stack[EncSlot], 1, a)
          <6>1. SUFFICES ASSUME InHole(sbuf_stack[EncSlot], 1, a) PROVE FALSE
            OBVIOUS
          <6>2. a \in FirstPiece
            BY <1>1, <3>4, <6>1 DEF RequestFits
          <6>3. a \in Cells(segs[1]) /\ 1 \in DOMAIN segs
            BY <1>1, <1>6, <3>3, <6>2 DEF FirstTaken
          <6> QED
            BY <3>6, <4>2, <6>3
        <5> QED
          BY <3>5, <5>1, <5>2
      <4> QED
        BY <4>1, <4>2
    <3> QED
      BY <2>1, <3>1, <3>2, <3>6, <3>8
  <2> QED
    BY <2>3, <2>4
<1>8. Frame \subseteq Addr
  BY <1>0, FrameCells
<1> QED
  BY <1>7, <1>8 DEF Asked

(* A program as jprobe.c expects it, within the kernel's limits, whose requests fit their *)
(* frames: all that is proved about its steps.                                            *)
LEMMA FitInvariant ==
    ASSUME WellAsked, LimitsSuffice
    PROVE  Spec /\ []RequestsFit => [](IInv /\ FitInv)
<1> DEFINE J == IInv /\ GivenBack /\ AskInv /\ FitInv
<1>1. Init => J
  BY InitIInv, VaultInit, AskInit, FitInit
<1>2. J /\ RequestsFit /\ [Next]_vars => J'
  <2>1. IInv /\ GivenBack /\ [Next]_vars => IInv' /\ GivenBack'
    BY TypeStep, ProgramsStep, SlotsStep, ConcealmentStep, GivenBackStep DEF IInv
  <2> QED
    BY <2>1, AskStep, FitStep
<1>3. J => IInv /\ FitInv
  OBVIOUS
<1> HIDE DEF J
<1> QED
  BY <1>1, <1>2, <1>3, PTL DEF Spec

(* No request breaks the kernel: whatever the nesting, the stores and the order of the   *)
(* requests, no array overflows or is used after it was released, no pointer that        *)
(* restore_pointers follows is missing from the buffer, and every gap that               *)
(* restore_stack_buf copies has a length.                                                *)
THEOREM NoFaultHolds ==
    ASSUME WellAsked, LimitsSuffice
    PROVE  Spec /\ []RequestsFit => []NoFault
<1>1. FitInv => NoFault
  BY DEF FitInv
<1> QED
  BY <1>1, FitInvariant, PTL

(* When an encrypt returns, exactly the cells of the frame outside the request's grants  *)
(* are hidden, whatever the order of the entries in the list, the levels of the pointers *)
(* and where values and objects lie in the frame.                                        *)
THEOREM GrantExactHolds ==
    ASSUME WellAsked, LimitsSuffice
    PROVE  Spec /\ []RequestsFit => []GrantExact
BY FitInvariant, FitGrants, PTL
=============================================================================
