----------------------------- MODULE StackVault -----------------------------
(***************************************************************************)
(* The two system-call handlers of the memClear kernel module              *)
(* (kernel_probe/jprobe.c), jsys_encrypt_stack and jsys_decrypt_stack, and *)
(* one protected program that calls them the way test/nested_test.c and    *)
(* test/recursive_test.c do.  A handler runs to its end before the program *)
(* goes on, but its loops are modelled step by step: one action for each   *)
(* iteration, with the handler's locals kept as variables meanwhile.       *)
(***************************************************************************)
EXTENDS StackBuf

CONSTANTS
    Sites,         \* activations of functions: [func, sp, rbp, plist]
    InitMem,       \* the stack when the program starts
    Stores,        \* the <<cell, value>> pairs the program may store
    Symbols,       \* the functions in the symbol table of path_to_exe, in its order
    Slack,         \* the 0x750 bytes above rsp that are left alone
    CallDepth,     \* slots of call_stack[]
    SbufDepth,     \* slots of sbuf_stack[]
    SbufCap,       \* initial capacity of one stack buffer
    IntLimit,      \* an int lies in -IntLimit .. IntLimit - 1
    FreshLists,    \* the program builds a new para_list_t for every request
    StrayDecrypts, \* the program may ask for a decrypt it has no encrypt for
    AllocFails     \* kmalloc() may fail where an array is grown

(* An entry of the list: nothing stops a program from asking for an object of size 0 *)
(* or for a negative number of levels.                                               *)
CInt == -IntLimit .. (IntLimit - 1)
Para == [addr : Addr, size : Nat, pointer : CInt]

ASSUME SiteAssumption ==
    \A s \in Sites : /\ s.sp \in Addr /\ s.rbp \in Addr /\ s.sp <= s.rbp
                     /\ s.plist \in Seq(Para)

ASSUME ParameterAssumption ==
    /\ InitMem \in [Addr -> Data]
    /\ Stores \subseteq Addr \X Data
    /\ Slack \in Nat
    /\ IntLimit \in Nat \ {0}
    /\ CallDepth \in Nat \ {0} /\ SbufDepth \in Nat \ {0} /\ SbufCap \in Nat \ {0}
    /\ FreshLists \in BOOLEAN /\ StrayDecrypts \in BOOLEAN /\ AllocFails \in BOOLEAN
    /\ Symbols \in Seq({s.func : s \in Sites})

VARIABLES
    mem,             \* the user stack
    acts,            \* the program's active functions, innermost last
    init, mapper,    \* the lazily built symbol map: the names it knows
    call_stack,      \* call_stack[0 .. call_stack_top - 1]
    sbuf_stack, sbuf_stack_top,
    pc,              \* where the handler is; "user" when none runs
    i, prev_rsp,     \* locals of the loop of jsys_encrypt_stack
    k,               \* loop index of restore_pointers and restore_stack_buf
    addr_in_stack,   \* local of restore_pointers
    fault            \* "none", or how the kernel was broken

kernel  == <<init, mapper, call_stack, sbuf_stack, sbuf_stack_top>>
locals  == <<i, prev_rsp, k, addr_in_stack>>
vars    == <<mem, acts, init, mapper, call_stack, sbuf_stack, sbuf_stack_top,
             pc, i, prev_rsp, k, addr_in_stack, fault>>

Top       == acts[Len(acts)]
SetTop(t) == acts' = [acts EXCEPT ![Len(acts)] = t]
user_rsp  == Top.sp + Slack
user_rbp  == Top.rbp

(* The buffer of the frame being encrypted, and of the one being decrypted. *)
EncSlot == sbuf_stack_top - 1
DecSlot == sbuf_stack_top

Init ==
    /\ mem = InitMem
    /\ acts = <<>>
    /\ init = 0 /\ mapper = {}
    /\ call_stack = <<>>
    /\ sbuf_stack = [d \in 0 .. SbufDepth - 1 |-> init_stack_buf(SbufCap)]
    /\ sbuf_stack_top = 0
    /\ pc = "user" /\ i = 0 /\ prev_rsp = 0 /\ k = 0 /\ addr_in_stack = 0
    /\ fault = "none"
-----------------------------------------------------------------------------
(***************************************************************************)
(* Which stack cells are hidden.  Slot d hides the cells of its segments   *)
(* that are in no hole; while it is being restored, only those of the      *)
(* segments the loop has not reached.                                      *)
(***************************************************************************)
LiveSlots == 0 .. (IF pc = "restore" THEN sbuf_stack_top ELSE sbuf_stack_top - 1)

FirstLive(d) == IF pc = "restore" /\ d = sbuf_stack_top THEN k ELSE 1

InHole(sbuf, n, a) == \E x \in DOMAIN sbuf.holes : /\ sbuf.holes[x].seg = n
                                                   /\ a \in Span(sbuf.holes[x].start, sbuf.holes[x].len)

HiddenIn(d, n, a) == /\ n \in DOMAIN sbuf_stack[d].segs /\ n >= FirstLive(d)
                     /\ a \in Cells(sbuf_stack[d].segs[n])
                     /\ ~InHole(sbuf_stack[d], n, a)

HiddenBy(d, a) == \E n \in DOMAIN sbuf_stack[d].segs : HiddenIn(d, n, a)

Hidden(a) == \E d \in LiveSlots : HiddenBy(d, a)
-----------------------------------------------------------------------------
(* The program.  It calls functions on lower and lower parts of its stack, stores *)
(* in cells that are live and not hidden, and a function that asked for an        *)
(* encrypt asks for the decrypt before it returns, whatever the encrypt answered. *)
Running == pc = "user" /\ fault = "none"

Call(s) ==
    /\ Running
    /\ acts # <<>> => s.rbp < Top.sp
    /\ acts' = Append(acts, [func |-> s.func, sp |-> s.sp, rbp |-> s.rbp,
                             want |-> s.plist, plist |-> s.plist, enc |-> FALSE])
    /\ UNCHANGED <<mem, kernel, pc, locals, fault>>

Return ==
    /\ Running /\ acts # <<>> /\ ~Top.enc
    /\ acts' = SubSeq(acts, 1, Len(acts) - 1)
    /\ UNCHANGED <<mem, kernel, pc, locals, fault>>

Store(a, v) ==
    /\ Running /\ acts # <<>>
    /\ a >= Top.sp /\ ~Hidden(a)
    /\ mem' = [mem EXCEPT ![a] = v]
    /\ UNCHANGED <<acts, kernel, pc, locals, fault>>
-----------------------------------------------------------------------------
(* jsys_encrypt_stack *)

(* Mutant: a pointer parameter is taken for a value. *)
containsAny(a, plt) == IF \E n \in DOMAIN plt : plt[n].addr = a THEN 1 ELSE 0

(* How many cells from a are a by-value parameter; the first entry at a decides. *)
contains(a, plt) ==
    LET at == { n \in DOMAIN plt : plt[n].addr = a }
        n  == CHOOSE m \in at : \A o \in at : m <= o
    IN  IF at = {} THEN 0 ELSE IF plt[n].pointer # 0 THEN 0 ELSE plt[n].size

(* The first request builds the symbol map.  A file that cannot be read leaves it *)
(* empty, an array that cannot be grown leaves it with the first symbols only.    *)
LoadMapper ==
    \/ init = 1 /\ UNCHANGED <<init, mapper>>
    \/ /\ init = 0 /\ init' = 1
       /\ \E n \in 0 .. Len(Symbols) :
             /\ AllocFails \/ n \in {0, Len(Symbols)}
             /\ mapper' = {Symbols[m] : m \in 1 .. n}

Requested == [Top EXCEPT !.enc = TRUE, !.plist = IF FreshLists THEN Top.want ELSE @]

Refused == Top.func \notin mapper' \/ user_rbp < user_rsp

EncryptRefused ==
    /\ Running /\ acts # <<>> /\ ~Top.enc
    /\ LoadMapper
    /\ Refused
    /\ SetTop(Requested)
    /\ UNCHANGED <<mem, call_stack, sbuf_stack, sbuf_stack_top, pc, locals, fault>>

(* call_stack[] and sbuf_stack[] are indexed without a bounds check. *)
EncryptEnter ==
    /\ Running /\ acts # <<>> /\ ~Top.enc
    /\ LoadMapper
    /\ ~Refused
    /\ Len(call_stack) < CallDepth /\ sbuf_stack_top < SbufDepth
    /\ SetTop(Requested)
    /\ call_stack' = Append(call_stack, [func |-> Top.func, rsp |-> user_rsp, rbp |-> user_rbp])
    /\ sbuf_stack_top' = sbuf_stack_top + 1
    /\ pc' = "scan" /\ i' = user_rsp /\ prev_rsp' = user_rsp
    /\ UNCHANGED <<mem, sbuf_stack, k, addr_in_stack, fault>>

EncryptOverflow ==
    /\ Running /\ acts # <<>> /\ ~Top.enc
    /\ LoadMapper
    /\ ~Refused
    /\ Len(call_stack) = CallDepth \/ sbuf_stack_top = SbufDepth
    /\ fault' = "overflow"
    /\ UNCHANGED <<mem, acts, call_stack, sbuf_stack, sbuf_stack_top, pc, locals>>

(* Take the cells from prev_rsp up to i off the stack, if there are any.  The memset *)
(* is done even when copy_stack_buf() could not grow the array and kept nothing.     *)
TakeOff ==
    \/ i <= prev_rsp /\ UNCHANGED <<sbuf_stack, mem>>
    \/ /\ i > prev_rsp
       /\ mem' = Filled(mem, prev_rsp, i - prev_rsp)
       /\ sbuf_stack' = [sbuf_stack EXCEPT ![EncSlot] = copy_stack_buf(@, mem, prev_rsp, i - prev_rsp)]
    \/ /\ i > prev_rsp
       /\ AllocFails /\ Full(sbuf_stack[EncSlot])
       /\ mem' = Filled(mem, prev_rsp, i - prev_rsp)
       /\ UNCHANGED sbuf_stack

Scanning == pc = "scan" /\ fault = "none" /\ i <= user_rbp

ScanParameter ==
    /\ Scanning /\ contains(i, Top.plist) # 0
    /\ TakeOff
    /\ i' = i + contains(i, Top.plist) /\ prev_rsp' = i'
    /\ UNCHANGED <<acts, init, mapper, call_stack, sbuf_stack_top, pc, k, addr_in_stack, fault>>

ScanLast ==
    /\ Scanning /\ contains(i, Top.plist) = 0 /\ i = user_rbp
    /\ TakeOff
    /\ i' = i + 1
    /\ UNCHANGED <<acts, init, mapper, call_stack, sbuf_stack_top, pc, prev_rsp, k, addr_in_stack, fault>>

ScanCell ==
    /\ Scanning /\ contains(i, Top.plist) = 0 /\ i # user_rbp
    /\ i' = i + 1
    /\ UNCHANGED <<mem, acts, kernel, pc, prev_rsp, k, addr_in_stack, fault>>

ScanDone ==
    /\ pc = "scan" /\ fault = "none" /\ i > user_rbp
    /\ pc' = "pointers" /\ k' = 1
    /\ UNCHANGED <<mem, acts, kernel, i, prev_rsp, addr_in_stack, fault>>
-----------------------------------------------------------------------------
(* restore_pointers: entry k of the list, then down its levels of pointers. *)
SetLevels(n) == SetTop([Top EXCEPT !.plist[k].pointer = n])

(* One level less, as an int is counted down: below the least comes the greatest. *)
Below(n) == IF n = -IntLimit THEN IntLimit - 1 ELSE n - 1

(* Give len cells from a back to the program and link a hole for them. *)
GiveBack(a, len) ==
    LET n == find_in_stack_buf(sbuf_stack[EncSlot], a, len)
    IN  /\ mem' = CopiedBack(mem, sbuf_stack[EncSlot].segs[n], a, len)
        /\ sbuf_stack' = [sbuf_stack EXCEPT ![EncSlot] = list_add_tail(@, n, a, len)]

InBuf(a, len) == Found(sbuf_stack[EncSlot], a, len) # {}

AtEntry == pc = "pointers" /\ fault = "none" /\ k <= Len(Top.plist)

(* Mutant: a by-value entry is left without going on to the next. *)
PassByValueStuck ==
    /\ AtEntry /\ Top.plist[k].pointer = 0
    /\ UNCHANGED vars

PassByValue ==
    /\ AtEntry /\ Top.plist[k].pointer = 0
    /\ k' = k + 1
    /\ UNCHANGED <<mem, acts, kernel, pc, i, prev_rsp, addr_in_stack, fault>>

(* The pointer itself; addr_in_stack becomes what it points to. *)
PassPointer ==
    LET tmp == Top.plist[k]
    IN  /\ AtEntry /\ tmp.pointer # 0
        /\ InBuf(tmp.addr, 1) /\ ~sbuf_stack[EncSlot].freed
        /\ SetLevels(Below(tmp.pointer))
        /\ GiveBack(tmp.addr, 1)
        /\ addr_in_stack' = mem'[tmp.addr]
        /\ pc' = "chase"
        /\ UNCHANGED <<init, mapper, call_stack, sbuf_stack_top, i, prev_rsp, k, fault>>

(* In an array that was reallocated the list head still points into the released one, *)
(* and list_add_tail() writes there.                                                  *)
PassPointerStale ==
    /\ AtEntry /\ Top.plist[k].pointer # 0
    /\ InBuf(Top.plist[k].addr, 1) /\ sbuf_stack[EncSlot].freed
    /\ SetLevels(Below(Top.plist[k].pointer))
    /\ fault' = "stale_list"
    /\ UNCHANGED <<mem, kernel, pc, locals>>

(* A pointer that is not in the buffer ends the whole walk: return -1, which nobody reads. *)
PassPointerMissing ==
    /\ AtEntry /\ Top.plist[k].pointer # 0
    /\ ~InBuf(Top.plist[k].addr, 1)
    /\ SetLevels(Below(Top.plist[k].pointer))
    /\ k' = Len(Top.plist) + 1
    /\ UNCHANGED <<mem, kernel, pc, i, prev_rsp, addr_in_stack, fault>>

Chasing == pc = "chase" /\ fault = "none"

(* A further level: the pointer's target is a pointer, whose look-up is not checked. *)
FollowPointer ==
    /\ Chasing /\ Top.plist[k].pointer # 0
    /\ InBuf(addr_in_stack, 1)
    /\ SetLevels(Below(Top.plist[k].pointer))
    /\ GiveBack(addr_in_stack, 1)
    /\ addr_in_stack' = mem'[addr_in_stack]
    /\ UNCHANGED <<init, mapper, call_stack, sbuf_stack_top, pc, i, prev_rsp, k, fault>>

FollowPointerMissing ==
    /\ Chasing /\ Top.plist[k].pointer # 0
    /\ ~InBuf(addr_in_stack, 1)
    /\ fault' = "null_buf"
    /\ UNCHANGED <<mem, acts, kernel, pc, locals>>

(* The object at the end; one that is not in this frame's buffer is left as it is. *)
PassObject ==
    /\ Chasing /\ Top.plist[k].pointer = 0
    /\ IF InBuf(addr_in_stack, Top.plist[k].size)
       THEN GiveBack(addr_in_stack, Top.plist[k].size)
       ELSE UNCHANGED <<mem, sbuf_stack>>
    /\ k' = k + 1 /\ pc' = "pointers"
    /\ UNCHANGED <<acts, init, mapper, call_stack, sbuf_stack_top, i, prev_rsp, addr_in_stack, fault>>

EncryptReturn ==
    /\ pc = "pointers" /\ fault = "none" /\ k > Len(Top.plist)
    /\ pc' = "user"
    /\ UNCHANGED <<mem, acts, kernel, locals, fault>>
-----------------------------------------------------------------------------
(* jsys_decrypt_stack *)
Asks == Running /\ acts # <<>> /\ (Top.enc \/ StrayDecrypts)

Answered == [Top EXCEPT !.enc = FALSE]

(* The name is looked up before anything is checked. *)
DecryptNoMapper ==
    /\ Asks /\ init = 0
    /\ fault' = "null_mapper"
    /\ UNCHANGED <<mem, acts, kernel, pc, locals>>

DecryptRefused ==
    /\ Asks /\ init = 1 /\ call_stack = <<>>
    /\ SetTop(Answered)
    /\ UNCHANGED <<mem, kernel, pc, locals, fault>>

(* strcmp() with the NULL that an unknown function maps to. *)
DecryptNoName ==
    /\ Asks /\ init = 1 /\ call_stack # <<>> /\ Top.func \notin mapper
    /\ fault' = "null_name"
    /\ UNCHANGED <<mem, acts, kernel, pc, locals>>

(* A name that does not match is only logged. *)
Popped == call_stack[Len(call_stack)]

(* Mutants: the oldest record goes instead of the newest; the buffer is not popped. *)
DecryptOldest ==
    /\ Asks /\ init = 1 /\ call_stack # <<>> /\ Top.func \in mapper
    /\ call_stack' = SubSeq(call_stack, 2, Len(call_stack))
    /\ sbuf_stack_top' = sbuf_stack_top - 1
    /\ pc' = "restore" /\ k' = 1
    /\ fault' = IF sbuf_stack[sbuf_stack_top'].freed THEN "use_after_free" ELSE fault
    /\ UNCHANGED <<mem, acts, init, mapper, sbuf_stack, i, prev_rsp, addr_in_stack>>

DecryptNoPop ==
    /\ Asks /\ init = 1 /\ call_stack # <<>> /\ Top.func \in mapper
    /\ call_stack' = SubSeq(call_stack, 1, Len(call_stack) - 1)
    /\ pc' = "restore" /\ k' = 1
    /\ UNCHANGED <<mem, acts, init, mapper, sbuf_stack, sbuf_stack_top, i, prev_rsp, addr_in_stack, fault>>

DecryptEnter ==
    /\ Asks /\ init = 1 /\ call_stack # <<>> /\ Top.func \in mapper
    /\ call_stack' = SubSeq(call_stack, 1, Len(call_stack) - 1)
    /\ sbuf_stack_top' = sbuf_stack_top - 1
    /\ pc' = "restore" /\ k' = 1
    /\ fault' = IF sbuf_stack[sbuf_stack_top'].freed THEN "use_after_free" ELSE fault
    /\ UNCHANGED <<mem, acts, init, mapper, sbuf_stack, i, prev_rsp, addr_in_stack>>

(* restore_stack_buf *)
AtSegment == pc = "restore" /\ fault = "none" /\ k <= Len(sbuf_stack[DecSlot].segs)

RestoreSegment ==
    /\ AtSegment /\ GapsDefined(sbuf_stack[DecSlot], k)
    /\ mem' = RestoredSegment(mem, sbuf_stack[DecSlot], k)
    /\ k' = k + 1
    /\ UNCHANGED <<acts, kernel, pc, i, prev_rsp, addr_in_stack, fault>>

RestoreUndefined ==
    /\ AtSegment /\ ~GapsDefined(sbuf_stack[DecSlot], k)
    /\ fault' = "bad_copy"
    /\ UNCHANGED <<mem, acts, kernel, pc, locals>>

(* Mutant: restore_stack_buf does not count cur down. *)
DecryptKeepsCur ==
    /\ pc = "restore" /\ fault = "none" /\ k > Len(sbuf_stack[DecSlot].segs)
    /\ SetTop(Answered)
    /\ pc' = "user"
    /\ UNCHANGED <<mem, kernel, locals, fault>>

DecryptReturn ==
    /\ pc = "restore" /\ fault = "none" /\ k > Len(sbuf_stack[DecSlot].segs)
    /\ sbuf_stack' = [sbuf_stack EXCEPT ![DecSlot].segs = <<>>]
    /\ SetTop(Answered)
    /\ pc' = "user"
    /\ UNCHANGED <<mem, init, mapper, call_stack, sbuf_stack_top, locals, fault>>
-----------------------------------------------------------------------------
(* After undefined behaviour nothing more is claimed. *)
Halted == fault # "none" /\ UNCHANGED vars

Encrypt == \/ EncryptRefused \/ EncryptEnter \/ EncryptOverflow
EncryptStep == \/ ScanParameter \/ ScanLast \/ ScanCell \/ ScanDone
               \/ PassByValue \/ PassPointer \/ PassPointerStale \/ PassPointerMissing
               \/ FollowPointer \/ FollowPointerMissing \/ PassObject
               \/ EncryptReturn
Decrypt == DecryptNoMapper \/ DecryptRefused \/ DecryptNoName \/ DecryptEnter
DecryptStep == RestoreSegment \/ RestoreUndefined \/ DecryptReturn

Next == \/ \E s \in Sites : Call(s)
        \/ Return
        \/ \E w \in Stores : Store(w[1], w[2])
        \/ Encrypt \/ EncryptStep
        \/ Decrypt \/ DecryptStep
        \/ Halted

Spec == Init /\ [][Next]_vars

(* A handler is never descheduled for good: it runs in the kernel to its end. *)
FairSpec == Spec /\ WF_vars(EncryptStep) /\ WF_vars(DecryptStep)
-----------------------------------------------------------------------------
(***************************************************************************)
(* Properties                                                              *)
(***************************************************************************)
Activation == [func : {s.func : s \in Sites}, sp : Addr, rbp : Addr,
               want : Seq(Para), plist : Seq(Para), enc : BOOLEAN]
CsItem == [func : {s.func : s \in Sites}, rsp : Nat, rbp : Addr]
Faults == {"none", "overflow", "stale_list", "null_buf", "null_mapper",
           "null_name", "use_after_free", "bad_copy"}

(* Type invariant.  The two kernel stacks always have the same height, a handler runs  *)
(* only on behalf of an active function, and its slot of sbuf_stack[] is inside the    *)
(* array.                                                                              *)
TypeOK ==
    /\ mem \in [Addr -> Val]
    /\ acts \in Seq(Activation)
    /\ init \in {0, 1} /\ mapper \subseteq {s.func : s \in Sites}
    /\ call_stack \in Seq(CsItem)
    /\ sbuf_stack \in [0 .. SbufDepth - 1 -> Sbuf]
    /\ sbuf_stack_top \in 0 .. SbufDepth /\ sbuf_stack_top = Len(call_stack)
    /\ pc \in {"user", "scan", "pointers", "chase", "restore"}
    /\ i \in Nat /\ prev_rsp \in Nat /\ k \in Nat /\ addr_in_stack \in Val \cup {0}
    /\ fault \in Faults
    /\ pc # "user" => acts # <<>>
    /\ pc \in {"scan", "pointers", "chase"} => sbuf_stack_top > 0
    /\ pc = "restore" => sbuf_stack_top < SbufDepth

(* Every cell that some live buffer holds and no hole gives back reads as the fill      *)
(* pattern: between an encrypt and its decrypt nobody meets the owner's data there,     *)
(* however the calls nest, and no later encrypt, restore or store disturbs it           *)
(* (jsys_encrypt_stack's memset, restore_pointers' copies, restore_stack_buf's gaps).   *)
Concealment == \A a \in Addr : Hidden(a) => mem[a] = Fill

(* The stack as the program left it: hidden cells have the value their buffer keeps. *)
Keeper(a) == CHOOSE d \in LiveSlots : HiddenBy(d, a)
KeptIn(a) == CHOOSE n \in DOMAIN sbuf_stack[Keeper(a)].segs : HiddenIn(Keeper(a), n, a)
plainStack == [a \in Addr |-> IF Hidden(a) THEN sbuf_stack[Keeper(a)].segs[KeptIn(a)].buf[a]
                                           ELSE mem[a]]

(* The frame an encrypt is asked to hide; it hides cells only while it scans it. *)
Frame  == user_rsp .. (user_rbp - 1)
Asking == IF pc = "scan" THEN Frame ELSE {}

Vault == INSTANCE FrameVault WITH plain <- plainStack, view <- mem, MayLose <- AllocFails,
                                  asking <- Asking

(* Protection is transparent: each step of the handlers only hides cells of the asking   *)
(* function's frame or shows cells again with exactly the value they had, a callee's     *)
(* stores through a passed pointer survive the owner's decrypt (the `k[0]' of            *)
(* test/fopen.c), and nothing else writes.  Where growing an array may fail, a cell of   *)
(* that frame may be lost as the scan hides it, never before or afterwards.              *)
Transparent == Vault!Spec

(* The cells a request asks to leave to the callee: its by-value parameters, its         *)
(* pointers, and what they point to level by level, if that is in the frame.             *)
Chain(p)  == LET hop[n \in 0 .. p.pointer] == IF n = 0 THEN p.addr ELSE plainStack[hop[n - 1]]
             IN  hop
Object(p) == LET a == Chain(p)[p.pointer]
             IN  IF Span(a, p.size) \subseteq Frame THEN Span(a, p.size) ELSE {}
Granted(p) == IF p.pointer = 0 THEN Span(p.addr, p.size)
              ELSE {Chain(p)[n] : n \in 0 .. p.pointer - 1} \cup Object(p)

(* When an encrypt returns, exactly the cells of the frame outside the request's grants  *)
(* are hidden: no parameter is withheld from the callee, no other local is left behind,  *)
(* whatever order the two passes of the handler met the parameters in, and each para_t   *)
(* means what it meant when the program built it.                                        *)
GrantExact ==
    (pc = "pointers" /\ k > Len(Top.plist) /\ fault = "none") =>
        {a \in Addr : HiddenBy(EncSlot, a)} =
            Frame \ UNION {Granted(Top.want[n]) : n \in DOMAIN Top.want}

(* No request breaks the kernel: no index outside call_stack[] or sbuf_stack[], no use   *)
(* of a released or absent object, no memcpy with a meaningless length.                  *)
NoFault == fault = "none"

(* A decrypt restores the frame of the function that asks for it, never its caller's:    *)
(* the record that jsys_decrypt_stack pops is the one this activation pushed.            *)
DecryptPopsOwn ==
    [][sbuf_stack_top' < sbuf_stack_top =>
         Popped = [func |-> Top.func, rsp |-> user_rsp, rbp |-> user_rbp]]_vars

(* Every request that does not break the kernel returns to the program: the scan, the    *)
(* pointer chase with its levels, and the restore loop all end.                          *)
SyscallReturns == pc # "user" ~> (pc = "user" \/ fault # "none")

(* The depth call_stack[] is declared for can be reached: only its own limit stops a     *)
(* nest of encrypts.                                                                     *)
DeclaredDepth == fault = "overflow" => Len(call_stack) = CallDepth

(* Growing a full stack buffer is safe: nothing refers to the array it replaced. *)
GrowthSafe == fault \notin {"stale_list", "use_after_free"}
=============================================================================
