------------------------- MODULE SharedVaultProofs --------------------------
(***************************************************************************)
(* SharedVault for any number of programs, processors, levels and slots:   *)
(* its types, Paired and OwnFrame.                                         *)
(*                                                                         *)
(* The two stacks are paired only between requests.  In the middle of one  *)
(* the records, the two tops and the buffers are one apart, and how far    *)
(* depends on where the handler is.  While nobody raced there is one       *)
(* handler at a time that this is about, and `Base(p)' is the number of    *)
(* slots its request does not touch: one less than there were for a        *)
(* decrypt.  Everything else is said in terms of it.                       *)
(***************************************************************************)
EXTENDS SharedVault, NumberFacts, FiniteSetTheorems, SequenceTheorems

Decrypting == {"uncount", "uncounted", "pop", "untake", "untaken", "restore"}

(* The slots below the one a request is about, where its record ends, and where the top *)
(* of the records is.                                                                   *)
Base(p)    == IF pc[p] \in Decrypting \ {"restore"} THEN sbuf_stack_top - 1 ELSE sbuf_stack_top
Made(p)    == IF pc[p] \in {"count", "counted", "take", "taken", "uncount", "uncounted", "pop"}
              THEN Base(p) + 1 ELSE Base(p)
Counted(p) == IF pc[p] \in {"take", "taken", "uncount", "uncounted"} THEN Base(p) + 1 ELSE Base(p)

(* The slots below k have a record and the others have none. *)
Records(k) == k \in 0 .. CallDepth
              /\ \A n \in 0 .. CallDepth - 1 : call_stack[n] # <<>> <=> n < k

(* Slot n has the one piece its record was made for, and, if tidy, the right data. *)
Kept(n) == /\ n \in 0 .. SbufDepth - 1 /\ Len(sbuf_stack[n]) = 1
           /\ sbuf_stack[n][1].level = call_stack[n][2]
           /\ tidy => sbuf_stack[n][1].data = call_stack[n]

(* The slots below k are kept or an encrypt is about to fill them, and each encrypt that *)
(* copies does so into an empty buffer whose record is its own.                          *)
Below(k) ==
    /\ \A n \in 0 .. k - 1 : Kept(n) \/ \E q \in Procs : pc[q] = "hide" /\ reg[q] = n
    /\ \A q \in Procs : pc[q] = "hide" =>
          /\ reg[q] \in 0 .. k - 1 /\ call_stack[reg[q]] = <<q, depth[q]>>
          /\ reg[q] \in 0 .. SbufDepth - 1 => sbuf_stack[reg[q]] = <<>>

(* There is nothing in the buffers from k on. *)
Unused(k) == \A n \in 0 .. SbufDepth - 1 : n >= k => sbuf_stack[n] = <<>>

(* The buffer a decrypt is after has one piece: if tidy, the caller's own. *)
Held(p, n) ==
    /\ n \in 0 .. SbufDepth - 1 /\ Len(sbuf_stack[n]) = 1
    /\ tidy => sbuf_stack[n][1] = [level |-> depth[p] + 1, data |-> <<p, depth[p] + 1>>]

(* The stacks in the middle of the request of p. *)
Midway(p) ==
    /\ Base(p) \in Nat
    /\ call_stack_top = Counted(p) /\ Records(Made(p)) /\ Below(Base(p))
    /\ pc[p] \in {"counted", "taken", "uncounted", "pop", "untaken", "restore"} => reg[p] = Base(p)
    /\ pc[p] \in {"count", "counted", "take", "taken"} => call_stack[Base(p)] = <<p, depth[p]>>
    /\ IF pc[p] \in Decrypting THEN Held(p, Base(p)) /\ Unused(Base(p) + 1) ELSE Unused(Base(p))
    /\ pc[p] = "init" <=> init = 0

(* The stacks when no request is in the middle of changing them. *)
Level == /\ call_stack_top = sbuf_stack_top /\ Records(call_stack_top)
         /\ Below(call_stack_top) /\ Unused(call_stack_top)

Stacks ==
    ~raced => /\ \A p, q \in Critical : p = q
              /\ IF Critical = {} THEN Level ELSE \A p \in Critical : Midway(p)
              /\ init = 0 => /\ call_stack_top = 0 /\ sbuf_stack_top = 0
                             /\ \A p \in InKernel : pc[p] = "init"

(* The buffers are built anew under a handler's loop only after a race. *)
Current == ~raced => \A p \in Procs : ~UsesOld(p)

(* How many of its frames a process sees as hidden. *)
Gone(p) == IF pc[p] \in Encrypting THEN depth[p] - 1
           ELSE IF pc[p] \in Decrypting THEN depth[p] + 1 ELSE depth[p]

Handlers ==
    /\ IsFiniteSet(InKernel)
    /\ module = "out" => InKernel = {}
    /\ \A p \in Procs : /\ pc[p] \in Encrypting => depth[p] >= 1
                        /\ pc[p] \in Decrypting => depth[p] < Levels

Tidy ==
    tidy => /\ ~raced /\ fault \in {"none", "overflow"}
            /\ module = "out" => planted = {}
            /\ module # "in" => \A p \in Procs : depth[p] = 0
            /\ init = 0 => \A p \in Procs : pc[p] = "init" \/ depth[p] = 0
            /\ \A p \in Procs : pc[p] # "dead" =>
                  \A d \in 1 .. Levels : mem[p][d] = IF d <= Gone(p) THEN Fill ELSE <<p, d>>

IInv == SharedTypeOK /\ Handlers /\ Stacks /\ Current /\ Tidy

-----------------------------------------------------------------------------
(* A handler that starts takes a processor, one that ends gives it back. *)
LEMMA KernelEnter ==
    ASSUME SharedTypeOK, Handlers, HasCpu, NEW p \in Procs, NEW l \in Encrypting \cup Decrypting,
           Goto(p, l)
    PROVE  /\ InKernel' = InKernel \cup {p}
           /\ IsFiniteSet(InKernel') /\ Cardinality(InKernel') <= Cpus
<1>1. InKernel' = InKernel \cup {p}
  BY DEF SharedTypeOK, Goto, InKernel, Encrypting, Decrypting
<1>2. IsFiniteSet(InKernel) /\ Cardinality(InKernel) \in Nat
  BY FS_CardinalityType DEF Handlers
<1>3. Cardinality(InKernel) < Cpus /\ Cpus \in Nat
  BY SharedAssumption DEF HasCpu
<1>4. /\ IsFiniteSet(InKernel \cup {p})
      /\ Cardinality(InKernel \cup {p}) = IF p \in InKernel THEN Cardinality(InKernel)
                                         ELSE Cardinality(InKernel) + 1
  BY <1>2, FS_AddElement
<1>5. Cardinality(InKernel \cup {p}) <= Cpus
  BY <1>2, <1>3, <1>4
<1> QED
  BY <1>1, <1>4, <1>5

(* A handler that goes on is still in the kernel. *)
LEMMA KernelMove ==
    ASSUME SharedTypeOK, NEW p \in Procs, pc[p] \in Encrypting \cup Decrypting,
           NEW l \in Encrypting \cup Decrypting, Goto(p, l)
    PROVE  InKernel' = InKernel
  BY DEF SharedTypeOK, Goto, InKernel, Encrypting, Decrypting

(* One that leaves makes room on its processor. *)
LEMMA KernelLeave ==
    ASSUME SharedTypeOK, Handlers, NEW p \in Procs, NEW l \in {"user", "dead"}, Goto(p, l)
    PROVE  /\ InKernel' = InKernel \ {p}
           /\ IsFiniteSet(InKernel') /\ Cardinality(InKernel') <= Cpus
<1>1. InKernel' = InKernel \ {p}
  BY DEF SharedTypeOK, Goto, InKernel
<1>2. IsFiniteSet(InKernel) /\ Cardinality(InKernel) \in Nat /\ Cardinality(InKernel) <= Cpus
  BY FS_CardinalityType DEF Handlers, SharedTypeOK
<1>3. InKernel' \subseteq InKernel
  BY <1>1
<1>4. IsFiniteSet(InKernel') /\ Cardinality(InKernel') <= Cardinality(InKernel)
  BY <1>2, <1>3, FS_Subset
<1>5. Cardinality(InKernel') \in Nat /\ Cpus \in Nat
  BY <1>4, FS_CardinalityType, SharedAssumption
<1> QED
  BY <1>1, <1>2, <1>4, <1>5

(* Types and handlers, step by step. *)

(* The pieces that are put back are data of a frame or the fill pattern. *)
LEMMA RestoredType ==
    ASSUME NEW m \in [1 .. Levels -> Frame \cup {Fill}], NEW pieces \in Seq(Piece)
    PROVE  Restored(m, pieces) \in [1 .. Levels -> Frame \cup {Fill}]
<1> DEFINE at(d) == {n \in DOMAIN pieces : pieces[n].level = d}
           pick(d) == CHOOSE n \in at(d) : \A o \in at(d) : n >= o
<1>1. ASSUME NEW d \in 1 .. Levels, at(d) # {}
      PROVE  pieces[pick(d)].data \in Frame \cup {Fill}
  <2>1. Len(pieces) \in Nat /\ DOMAIN pieces = 1 .. Len(pieces)
    BY LenProperties
  <2>2. at(d) \subseteq 1 .. Len(pieces)
    BY <2>1
  <2>3. \E n \in at(d) : \A o \in at(d) : n >= o
    BY <1>1, <2>1, <2>2, Greatest
  <2>4. pick(d) \in at(d)
    BY <2>3
  <2>5. pieces[pick(d)] \in Piece
    BY <2>4, ElementOfSeq, <2>1
  <2> QED
    BY <2>5 DEF Piece
<1> QED
  BY <1>1 DEF Restored

(* The buffers a process has replaced are of the same kind as the others, and stay so *)
(* when one of their users leaves.                                                    *)
LEMMA OldBufType ==
    ASSUME SharedTypeOK, NEW p \in Procs, UsesOld(p), reg[p] \in DOMAIN sbuf_stack
    PROVE  Replacer(p) \in Procs /\ OldBuf(p) \in Seq(Piece)
<1>1. Replacer(p) \in Procs
  BY DEF UsesOld, Replacer
<1>2. old[Replacer(p)] \in Replaced /\ reg[p] \in 0 .. SbufDepth - 1
  BY <1>1 DEF SharedTypeOK
<1> QED
  BY <1>1, <1>2 DEF OldBuf, Replaced

LEMMA LeaveOldType ==
    ASSUME SharedTypeOK, NEW p \in Procs, UsesOld(p), reg[p] \in DOMAIN sbuf_stack,
           NEW pieces \in Seq(Piece), LeaveOld(p, pieces)
    PROVE  old' \in [Procs -> Replaced]
<1> PICK b \in Procs : b = Replacer(p)
  BY OldBufType
<1>1. old[b] \in Replaced /\ old \in [Procs -> Replaced]
  BY DEF SharedTypeOK
<1>2. [old[b].bufs EXCEPT ![reg[p]] = pieces] \in [0 .. SbufDepth - 1 -> Seq(Piece)]
  BY <1>1 DEF Replaced
<1>3. [users |-> old[b].users \ {p}, bufs |-> [old[b].bufs EXCEPT ![reg[p]] = pieces]] \in Replaced
  BY <1>1, <1>2 DEF Replaced
<1>4. NoneReplaced \in Replaced
  BY DEF NoneReplaced, Replaced, Empty
<1> QED
  BY <1>1, <1>3, <1>4 DEF LeaveOld

(* Types, and who is in the kernel, whatever raced. *)
(* The steps that end in a fault change nothing else. *)
Breaks(p) ==
    \/ EncryptDangling(p) \/ EncryptCheckWild(p) \/ EncryptPushOverflow(p) \/ EncryptHideOverflow(p)
    \/ DecryptNoMapper(p) \/ DecryptEnterWild(p) \/ DecryptPopWild(p) \/ DecryptRestoreWild(p)

(* Each of these steps sets the fault, after which nothing is claimed. *)
LEMMA BreaksFault == ASSUME NEW p, Breaks(p) PROVE \E f : Break(f)
  BY DEF Breaks, EncryptDangling, EncryptCheckWild, EncryptPushOverflow, EncryptHideOverflow,
         DecryptNoMapper, DecryptEnterWild, DecryptPopWild, DecryptRestoreWild

(* Every step keeps the types and the number of handlers. *)
LEMMA TypeStep == SharedTypeOK /\ Handlers /\ [Next]_vars => SharedTypeOK' /\ Handlers'
<1> SUFFICES ASSUME SharedTypeOK, Handlers, [Next]_vars
             PROVE  SharedTypeOK' /\ Handlers'
  OBVIOUS
<1> USE SharedAssumption DEF SharedTypeOK, Handlers, Encrypting, Decrypting, globals, Calls
<1>1. CASE UNCHANGED vars
  BY <1>1 DEF vars, InKernel
<1>2. CASE Halted
  BY <1>2 DEF Halted, vars, InKernel
<1>3. CASE jprobe_init
  <2>1. InKernel' = InKernel
    BY <1>3 DEF jprobe_init, InKernel
  <2> QED
    BY <1>3, <2>1 DEF jprobe_init, Loaded, Empty
<1>4. CASE jprobe_init_second
  <2>1. InKernel' = InKernel
    BY <1>4 DEF jprobe_init_second, InKernel
  <2> QED
    BY <1>4, <2>1 DEF jprobe_init_second
<1>5. CASE jprobe_exit
  <2>1. InKernel' = InKernel
    BY <1>5 DEF jprobe_exit, InKernel
  <2> QED
    BY <1>5, <2>1 DEF jprobe_exit
<1>6. CASE jprobe_exit_second
  <2>1. InKernel' = InKernel
    BY <1>6 DEF jprobe_exit_second, InKernel
  <2> QED
    BY <1>6, <2>1 DEF jprobe_exit_second
<1>8. CASE jprobe_init_fails \/ jprobe_init_fails_under \/ jprobe_exit_done
  <2>1. InKernel' = InKernel /\ tidy' \in BOOLEAN
    BY <1>8 DEF jprobe_init_fails, jprobe_init_fails_under, jprobe_exit_done, InKernel
  <2> QED
    BY <1>8, <2>1 DEF jprobe_init_fails, jprobe_init_fails_under, jprobe_exit_done
<1>7. ASSUME NEW p \in Procs, Encrypt(p) \/ Decrypt(p) \/ Die(p)
      PROVE  SharedTypeOK' /\ Handlers'
  <2>1. CASE Breaks(p)
    <3>1. InKernel' = InKernel
      BY <2>1, BreaksFault DEF Break, InKernel
    <3> QED
      BY <2>1, <3>1, BreaksFault DEF Break
  <2>2. CASE EncryptIgnored(p)
    <3>1. InKernel' = InKernel
      BY <2>2 DEF EncryptIgnored, InKernel
    <3>2. tidy' \in BOOLEAN
      BY <2>2 DEF EncryptIgnored
    <3> QED
      BY <2>2, <3>1, <3>2, SMTT(30) DEF EncryptIgnored, Asks316, Asks317, AtUser
  <2>3. CASE DecryptIgnored(p)
    <3>1. InKernel' = InKernel
      BY <2>3 DEF DecryptIgnored, InKernel
    <3>2. tidy' \in BOOLEAN
      BY <2>3 DEF DecryptIgnored
    <3> QED
      BY <2>3, <3>1, <3>2, SMTT(30) DEF DecryptIgnored, Asks316, Asks317, AtUser
  <2>4. CASE DecryptRefused(p)
    <3>1. InKernel' = InKernel
      BY <2>4 DEF DecryptRefused, InKernel
    <3>2. tidy' \in BOOLEAN
      BY <2>4 DEF DecryptRefused
    <3> QED
      BY <2>4, <3>1, <3>2, SMTT(30) DEF DecryptRefused, Asks317, AtUser
  <2>5. CASE EncryptEnter(p)
    <3>1. PICK l \in {"init", "check"} : Goto(p, l)
      BY <2>5 DEF EncryptEnter
    <3>2. InKernel' = InKernel \cup {p} /\ IsFiniteSet(InKernel') /\ Cardinality(InKernel') <= Cpus
      BY <2>5, <3>1, KernelEnter DEF EncryptEnter
    <3>3. raced' \in BOOLEAN /\ tidy' \in BOOLEAN
      BY <2>5 DEF EncryptEnter
    <3>4. module # "out"
      BY <2>5 DEF EncryptEnter
    <3>5. /\ Asks316(p)
          /\ UNCHANGED <<module, planted, globals, reg, mem>>
      BY <2>5 DEF EncryptEnter
    <3> QED
      BY <3>1, <3>2, <3>3, <3>4, <3>5, SMTT(30) DEF Goto, Asks316, AtUser
  <2>6. CASE DecryptEnter(p)
    <3>1. PICK l \in {"uncount"} : Goto(p, l)
      BY <2>6 DEF DecryptEnter
    <3>2. InKernel' = InKernel \cup {p} /\ IsFiniteSet(InKernel') /\ Cardinality(InKernel') <= Cpus
      BY <2>6, <3>1, KernelEnter DEF DecryptEnter
    <3>3. raced' \in BOOLEAN /\ tidy' \in BOOLEAN
      BY <2>6 DEF DecryptEnter
    <3>4. module # "out"
      BY <2>6, SMTT(30) DEF DecryptEnter
    <3>5. /\ Asks317(p)
          /\ UNCHANGED <<module, planted, globals, reg, mem>>
      BY <2>6 DEF DecryptEnter
    <3> QED
      BY <3>1, <3>2, <3>3, <3>4, <3>5, SMTT(30) DEF Goto, Asks317, AtUser
  <2>7. CASE EncryptInit(p)
    <3>1. InKernel' = InKernel
      BY <2>7, KernelMove DEF EncryptInit, At
    <3>2. [users |-> Looping, bufs |-> sbuf_stack] \in Replaced
      BY DEF Replaced, Looping, InKernel
    <3>3. old' \in [Procs -> Replaced]
      BY <2>7, <3>2 DEF EncryptInit
    <3> QED
      BY <2>7, <3>1, <3>3 DEF EncryptInit, At, Goto, Load, Empty
  <2>8. CASE EncryptCheck(p)
    <3>1. InKernel' = InKernel
      BY <2>8, KernelMove DEF EncryptCheck, At
    <3> QED
      BY <2>8, <3>1 DEF EncryptCheck, At, Goto, Load
  <2>9. CASE EncryptPush(p)
    <3>1. InKernel' = InKernel
      BY <2>9, KernelMove DEF EncryptPush, At
    <3>2. <<p, depth[p]>> \in Frame
      BY <2>9 DEF EncryptPush, At, Frame
    <3> QED
      BY <2>9, <3>1, <3>2 DEF EncryptPush, At, Goto
  <2>10. CASE EncryptCount(p)
    <3>1. InKernel' = InKernel
      BY <2>10, KernelMove DEF EncryptCount, At
    <3> QED
      BY <2>10, <3>1 DEF EncryptCount, At, Goto, Load
  <2>11. CASE EncryptCounted(p)
    <3>1. InKernel' = InKernel
      BY <2>11, KernelMove DEF EncryptCounted, At
    <3> QED
      BY <2>11, <3>1 DEF EncryptCounted, At, Goto, Load
  <2>12. CASE EncryptTake(p)
    <3>1. InKernel' = InKernel
      BY <2>12, KernelMove DEF EncryptTake, At
    <3> QED
      BY <2>12, <3>1 DEF EncryptTake, At, Goto, Load
  <2>13. CASE EncryptTaken(p)
    <3>1. InKernel' = InKernel
      BY <2>13, KernelMove DEF EncryptTaken, At
    <3> QED
      BY <2>13, <3>1, SMTT(30) DEF EncryptTaken, At, Goto, Load
  <2>14. CASE DecryptUncount(p)
    <3>1. InKernel' = InKernel
      BY <2>14, KernelMove DEF DecryptUncount, At
    <3> QED
      BY <2>14, <3>1 DEF DecryptUncount, At, Goto, Load
  <2>15. CASE DecryptUncounted(p)
    <3>1. InKernel' = InKernel
      BY <2>15, KernelMove DEF DecryptUncounted, At
    <3> QED
      BY <2>15, <3>1 DEF DecryptUncounted, At, Goto, Load
  <2>16. CASE DecryptPop(p)
    <3>1. InKernel' = InKernel
      BY <2>16, KernelMove DEF DecryptPop, At
    <3> QED
      BY <2>16, <3>1 DEF DecryptPop, At, Goto, Load, Record
  <2>17. CASE DecryptUntake(p)
    <3>1. InKernel' = InKernel
      BY <2>17, KernelMove DEF DecryptUntake, At
    <3> QED
      BY <2>17, <3>1, SMTT(30) DEF DecryptUntake, At, Goto, Load
  <2>18. CASE DecryptUntaken(p)
    <3>1. InKernel' = InKernel
      BY <2>18, KernelMove DEF DecryptUntaken, At
    <3> QED
      BY <2>18, <3>1 DEF DecryptUntaken, At, Goto, Load
  <2>19. CASE EncryptHide(p)
    <3>1. InKernel' = InKernel \ {p} /\ IsFiniteSet(InKernel') /\ Cardinality(InKernel') <= Cpus
      BY <2>19, KernelLeave DEF EncryptHide, Return
    <3>2. depth[p] \in 1 .. Levels /\ mem[p][depth[p]] \in Frame \cup {Fill}
      BY <2>19 DEF EncryptHide, At
    <3>3. [level |-> depth[p], data |-> mem[p][depth[p]]] \in Piece
      BY <3>2 DEF Piece
    <3>4. Append(sbuf_stack[reg[p]], [level |-> depth[p], data |-> mem[p][depth[p]]]) \in Seq(Piece)
      BY <2>19, <3>3, AppendProperties DEF EncryptHide
    <3> QED
      BY <2>19, <3>1, <3>2, <3>4, SMTT(30) DEF EncryptHide, At, Return, Goto, Load
  <2>20. CASE DecryptRestore(p)
    <3>1. InKernel' = InKernel \ {p} /\ IsFiniteSet(InKernel') /\ Cardinality(InKernel') <= Cpus
      BY <2>20, KernelLeave DEF DecryptRestore, Return
    <3>2. Restored(mem[p], sbuf_stack[reg[p]]) \in [1 .. Levels -> Frame \cup {Fill}]
      BY <2>20, RestoredType DEF DecryptRestore
    <3> QED
      BY <2>20, <3>1, <3>2 DEF DecryptRestore, At, Return, Goto, Load
  <2>22. CASE EncryptHideOld(p)
    <3>1. InKernel' = InKernel \ {p} /\ IsFiniteSet(InKernel') /\ Cardinality(InKernel') <= Cpus
      BY <2>22, KernelLeave DEF EncryptHideOld, Return
    <3>2. depth[p] \in 1 .. Levels /\ mem[p][depth[p]] \in Frame \cup {Fill}
      BY <2>22 DEF EncryptHideOld, At
    <3>3. [level |-> depth[p], data |-> mem[p][depth[p]]] \in Piece
      BY <3>2 DEF Piece
    <3>4. OldBuf(p) \in Seq(Piece)
      BY <2>22, OldBufType DEF EncryptHideOld
    <3>5. Append(OldBuf(p), [level |-> depth[p], data |-> mem[p][depth[p]]]) \in Seq(Piece)
      BY <3>3, <3>4, AppendProperties
    <3>6. old' \in [Procs -> Replaced]
      BY <2>22, <3>5, LeaveOldType DEF EncryptHideOld
    <3>7. /\ mem' = [mem EXCEPT ![p][depth[p]] = Fill] /\ Return(p) /\ pc[p] = "hide"
          /\ UNCHANGED <<module, planted, init, call_stack, call_stack_top, sbuf_stack, sbuf_stack_top>>
          /\ UNCHANGED <<depth, fault, raced, tidy>>
      BY <2>22 DEF EncryptHideOld, At
    <3>8. mem' \in [Procs -> [1 .. Levels -> Frame \cup {Fill}]]
      BY <3>2, <3>7
    <3> QED
      BY <3>1, <3>6, <3>7, <3>8, SMTT(30) DEF Return, Goto, Load
  <2>23. CASE DecryptRestoreOld(p)
    <3>1. InKernel' = InKernel \ {p} /\ IsFiniteSet(InKernel') /\ Cardinality(InKernel') <= Cpus
      BY <2>23, KernelLeave DEF DecryptRestoreOld, Return
    <3>2. OldBuf(p) \in Seq(Piece)
      BY <2>23, OldBufType DEF DecryptRestoreOld
    <3>3. Restored(mem[p], OldBuf(p)) \in [1 .. Levels -> Frame \cup {Fill}]
      BY <3>2, RestoredType
    <3>4. <<>> \in Seq(Piece)
      OBVIOUS
    <3>5. old' \in [Procs -> Replaced]
      BY <2>23, <3>4, LeaveOldType DEF DecryptRestoreOld
    <3>6. /\ mem' = [mem EXCEPT ![p] = Restored(@, OldBuf(p))] /\ Return(p) /\ pc[p] = "restore"
          /\ UNCHANGED <<module, planted, init, call_stack, call_stack_top, sbuf_stack, sbuf_stack_top>>
          /\ UNCHANGED <<depth, fault, raced, tidy>>
      BY <2>23 DEF DecryptRestoreOld, At
    <3>7. mem' \in [Procs -> [1 .. Levels -> Frame \cup {Fill}]]
      BY <3>3, <3>6
    <3> QED
      BY <3>1, <3>5, <3>6, <3>7, SMTT(30) DEF Return, Goto, Load
  <2>21. CASE Die(p)
    <3>1. InKernel' = InKernel \ {p} /\ IsFiniteSet(InKernel') /\ Cardinality(InKernel') <= Cpus
      BY <2>21, KernelLeave DEF Die, Return
    <3> QED
      BY <2>21, <3>1 DEF Die, AtUser, Goto
  <2> HIDE DEF SharedTypeOK, Handlers, Encrypting, Decrypting, globals, Calls
  <2> QED
    BY <1>7, <2>1, <2>2, <2>3, <2>4, <2>5, <2>6, <2>7, <2>8, <2>9, <2>10, <2>11,
       <2>12, <2>13, <2>14, <2>15, <2>16, <2>17, <2>18, <2>19, <2>20, <2>21, <2>22, <2>23
    DEF Encrypt, Decrypt, Breaks
<1> QED
  BY <1>1, <1>2, <1>3, <1>4, <1>5, <1>6, <1>7, <1>8 DEF Next

(* The stacks: helpers. *)
LEMMA FrameRecord == \A p, d : <<p, d>> # <<>>
  OBVIOUS

(* A step that leaves the records below k and their owners alone keeps what is said of them. *)
LEMMA BelowSame ==
    ASSUME NEW k \in Int, Below(k),
           \A q \in Procs : pc'[q] = "hide" <=> pc[q] = "hide",
           \A q \in Procs : pc[q] = "hide" => reg'[q] = reg[q] /\ depth'[q] = depth[q],
           \A n \in 0 .. k - 1 : call_stack'[n] = call_stack[n] /\ sbuf_stack'[n] = sbuf_stack[n],
           tidy' => tidy
    PROVE  Below(k)'
<1>1. ASSUME NEW n \in 0 .. k - 1
      PROVE  Kept(n)' \/ \E q \in Procs : pc'[q] = "hide" /\ reg'[q] = n
  <2>1. CASE Kept(n)
    BY <2>1 DEF Kept
  <2>2. CASE \E q \in Procs : pc[q] = "hide" /\ reg[q] = n
    BY <2>2
  <2> QED
    BY <2>1, <2>2 DEF Below
<1>2. ASSUME NEW q \in Procs, pc'[q] = "hide"
      PROVE  /\ reg'[q] \in 0 .. k - 1 /\ call_stack'[reg'[q]] = <<q, depth'[q]>>
             /\ reg'[q] \in 0 .. SbufDepth - 1 => sbuf_stack'[reg'[q]] = <<>>
  <2>1. pc[q] = "hide" /\ reg'[q] = reg[q] /\ depth'[q] = depth[q]
    BY <1>2
  <2>2. /\ reg[q] \in 0 .. k - 1 /\ call_stack[reg[q]] = <<q, depth[q]>>
        /\ reg[q] \in 0 .. SbufDepth - 1 => sbuf_stack[reg[q]] = <<>>
    BY <2>1 DEF Below
  <2>3. call_stack'[reg[q]] = call_stack[reg[q]] /\ sbuf_stack'[reg[q]] = sbuf_stack[reg[q]]
    BY <2>2
  <2> QED
    BY <2>1, <2>2, <2>3
<1> QED
  BY <1>1, <1>2 DEF Below

(* Without a race, a handler that is not just copying is the only one. *)
LEMMA OnlyOne ==
    ASSUME SharedTypeOK, Stacks, ~raced, NEW p \in Procs,
           pc[p] \in (Encrypting \cup Decrypting) \ {"hide"}
    PROVE  Critical = {p} /\ Midway(p)
<1>1. p \in Critical
  BY DEF Critical, InKernel, Encrypting, Decrypting
<1> QED
  BY <1>1 DEF Stacks

(* The next step of that handler, described by where it leaves the stacks. *)
LEMMA StageStep ==
    ASSUME SharedTypeOK, Stacks, ~raced, NEW p \in Procs,
           pc[p] \in (Encrypting \cup Decrypting) \ {"hide"},
           NEW l \in (Encrypting \cup Decrypting) \ {"hide"}, Goto(p, l),
           Midway(p)', init' # 0
    PROVE  Stacks'
<1>1. Critical = {p}
  BY OnlyOne
<1>2. Critical' = {p}
  BY <1>1 DEF Critical, InKernel, Goto, SharedTypeOK, Encrypting, Decrypting
<1> QED
  BY <1>2 DEF Stacks

(* What leaves the globals alone and concerns no handler that is running. *)
LEMMA OutsideStep ==
    ASSUME SharedTypeOK, Stacks, UNCHANGED <<globals, reg, raced>>, tidy' => tidy,
           \A q \in InKernel : pc'[q] = pc[q] /\ depth'[q] = depth[q],
           \A q \in Procs \ InKernel : pc'[q] \in {"user", "dead"}
    PROVE  Stacks'
<1> SUFFICES ASSUME ~raced PROVE Stacks'
  BY DEF Stacks
<1>1. InKernel' = InKernel /\ Critical' = Critical
  BY DEF InKernel, Critical
<1>2. UNCHANGED <<init, call_stack, call_stack_top, sbuf_stack, sbuf_stack_top, reg>>
  BY DEF globals
<1>3. ASSUME NEW k \in Int, Below(k) PROVE Below(k)'
  <2>1. \A q \in Procs : pc'[q] = "hide" <=> pc[q] = "hide"
    BY DEF InKernel
  <2>2. \A q \in Procs : pc[q] = "hide" => reg'[q] = reg[q] /\ depth'[q] = depth[q]
    BY <1>2 DEF InKernel
  <2> QED
    BY <1>2, <1>3, <2>1, <2>2, BelowSame
<1>4. CASE Critical = {}
  <2>1. Level
    BY <1>4 DEF Stacks
  <2>2. PICK k \in Int : k = call_stack_top /\ k = call_stack_top'
    BY <1>2 DEF SharedTypeOK
  <2>3. Below(k)'
    BY <1>3, <2>1, <2>2 DEF Level
  <2>4. Level'
    BY <1>2, <2>1, <2>2, <2>3 DEF Level, Records, Unused
  <2> QED
    BY <1>1, <1>2, <1>4, <2>4 DEF Stacks
<1>5. ASSUME NEW c \in Critical PROVE Midway(c)'
  <2>1. Midway(c) /\ c \in Procs /\ c \in InKernel
    BY <1>5 DEF Stacks, Critical, InKernel
  <2>2. pc'[c] = pc[c] /\ depth'[c] = depth[c]
    BY <2>1
  <2>3. Base(c)' = Base(c) /\ Made(c)' = Made(c) /\ Counted(c)' = Counted(c)
    BY <1>2, <2>2 DEF Base, Made, Counted
  <2>4. PICK k \in Int : k = Base(c) /\ k = Base(c)'
    BY <2>3 DEF Base, SharedTypeOK
  <2>5. Below(k)'
    BY <1>3, <2>1, <2>4 DEF Midway
  <2>6. Held(c, k) => Held(c, k)'
    BY <1>2, <2>2 DEF Held
  <2>7. Records(Made(c)) => Records(Made(c))'
    BY <1>2, <2>3 DEF Records
  <2>8. (Unused(k) => Unused(k)') /\ (Unused(k + 1) => Unused(k + 1)')
    BY <1>2 DEF Unused
  <2> QED
    BY <1>2, <2>1, <2>2, <2>3, <2>4, <2>5, <2>6, <2>7, <2>8 DEF Midway
<1>6. init' = 0 => \A p \in InKernel' : pc'[p] = "init"
  BY <1>1, <1>2 DEF Stacks
<1> QED
  BY <1>1, <1>2, <1>4, <1>5, <1>6 DEF Stacks

(* The stacks, step by step. *)
LEMMA EncryptStages ==
    ASSUME SharedTypeOK, Stacks, ~raced, NEW p \in Procs,
           \/ EncryptInit(p) \/ EncryptCheck(p) \/ EncryptPush(p)
           \/ EncryptCount(p) \/ EncryptCounted(p) \/ EncryptTake(p)
    PROVE  Stacks'
<1> USE DEF Encrypting, Decrypting
<1>1. pc[p] \in {"init", "check", "push", "count", "counted", "take"}
  BY DEF EncryptInit, EncryptCheck, EncryptPush, EncryptCount, EncryptCounted, EncryptTake, At
<1>2. Critical = {p} /\ Midway(p)
  BY <1>1, OnlyOne
<1>3. PICK l \in {"check", "push", "count", "counted", "take", "taken"} : Goto(p, l)
  BY DEF EncryptInit, EncryptCheck, EncryptPush, EncryptCount, EncryptCounted, EncryptTake
<1>4. /\ pc'[p] = l /\ UNCHANGED <<sbuf_stack_top, tidy, depth>>
      /\ \A q \in Procs : q # p => pc'[q] = pc[q] /\ reg'[q] = reg[q]
  BY <1>3 DEF EncryptInit, EncryptCheck, EncryptPush, EncryptCount, EncryptCounted, EncryptTake,
              Goto, Load, SharedTypeOK, globals
<1>5. Base(p) = sbuf_stack_top /\ Base(p)' = sbuf_stack_top
  BY <1>1, <1>4 DEF Base
<1>6. PICK b \in Int : b = Base(p) /\ b = Base(p)' /\ b = sbuf_stack_top /\ b = sbuf_stack_top'
  BY <1>4, <1>5 DEF SharedTypeOK
<1>7. /\ \A q \in Procs : pc'[q] = "hide" <=> pc[q] = "hide"
      /\ \A q \in Procs : pc[q] = "hide" => reg'[q] = reg[q] /\ depth'[q] = depth[q]
  BY <1>1, <1>4
<1>8. b \in Nat /\ Below(b) /\ Unused(b) /\ Records(Made(p)) /\ call_stack_top = Counted(p)
  BY <1>1, <1>2, <1>6 DEF Midway
<1>9. CASE EncryptInit(p)
  <2>1. pc[p] = "init" /\ pc'[p] = "check" /\ UNCHANGED <<call_stack, call_stack_top>>
    BY <1>9, <1>4 DEF EncryptInit, At, Goto, SharedTypeOK, globals
  <2>2. init = 0 /\ b = 0 /\ \A q \in Procs : pc[q] # "hide"
    BY <1>2, <1>6, <2>1 DEF Midway, Stacks, InKernel
  <2>3. init' = 1 /\ sbuf_stack' = Empty
    BY <1>9 DEF EncryptInit
  <2>4. Below(b)'
    BY <1>7, <2>2 DEF Below
  <2>5. Unused(b)'
    BY <2>3 DEF Unused, Empty
  <2>6. call_stack_top' = b /\ Counted(p)' = b /\ Made(p)' = b
    BY <1>6, <1>8, <2>1, <2>3 DEF Counted, Made
  <2>7. Records(b)'
    BY <1>6, <1>8, <2>1, <2>3, FrameRecord, SharedAssumption DEF Records, Made, SharedTypeOK
  <2>9. Midway(p)'
    BY <1>6, <1>8, <2>1, <2>2, <2>3, <2>4, <2>5, <2>6, <2>7 DEF Midway
  <2> QED
    BY <1>1, <1>3, <2>2, <2>3, <2>9, StageStep
<1>10. CASE EncryptCheck(p)
  <2>1. pc[p] = "check" /\ pc'[p] = "push" /\ UNCHANGED <<call_stack, call_stack_top, sbuf_stack, init>>
    BY <1>10, <1>4 DEF EncryptCheck, At, Goto, SharedTypeOK, globals
  <2>2. init # 0 /\ init' # 0
    BY <1>2, <2>1 DEF Midway
  <2>4. Below(b)'
    BY <1>7, <1>8, <1>4, <2>1, BelowSame DEF SharedTypeOK
  <2>5. Unused(b)'
    BY <1>8, <2>1 DEF Unused
  <2>6. call_stack_top' = b /\ Counted(p)' = b /\ Made(p)' = b
    BY <1>6, <1>8, <2>1 DEF Counted, Made
  <2>7. Records(b)'
    BY <1>6, <1>8, <2>1, FrameRecord, SharedAssumption DEF Records, Made, SharedTypeOK
  <2>9. Midway(p)'
    BY <1>6, <1>8, <2>1, <2>2, <2>4, <2>5, <2>6, <2>7 DEF Midway
  <2> QED
    BY <1>1, <1>3, <2>2, <2>9, StageStep
<1>11. CASE EncryptPush(p)
  <2>1. pc[p] = "push" /\ pc'[p] = "count" /\ UNCHANGED <<call_stack_top, sbuf_stack, init>>
    BY <1>11, <1>4 DEF EncryptPush, At, Goto, SharedTypeOK, globals
  <2>2. init # 0 /\ init' # 0
    BY <1>2, <2>1 DEF Midway
  <2>3. /\ b = call_stack_top /\ b \in 0 .. CallDepth - 1
        /\ call_stack' = [call_stack EXCEPT ![b] = <<p, depth[p]>>]
    BY <1>11, <1>6, <1>8, <2>1 DEF EncryptPush, SharedTypeOK, Counted
  <2>4. Below(b)'
    BY <1>7, <1>8, <1>4, <2>1, <2>3, BelowSame DEF SharedTypeOK
  <2>5. Unused(b)'
    BY <1>8, <2>1 DEF Unused
  <2>6. call_stack_top' = b /\ Counted(p)' = b /\ Made(p)' = b + 1
    BY <1>6, <1>8, <2>1, <2>3 DEF Counted, Made
  <2>7. Records(b + 1)'
    BY <1>6, <1>8, <2>1, <2>3, FrameRecord, SharedAssumption DEF Records, Made, SharedTypeOK
  <2>8. call_stack'[b] = <<p, depth'[p]>>
    BY <1>2, <1>4, <1>6, <2>1, <2>3 DEF Midway, SharedTypeOK
  <2>9. Midway(p)'
    BY <1>6, <1>8, <2>1, <2>2, <2>3, <2>4, <2>5, <2>6, <2>7, <2>8 DEF Midway
  <2> QED
    BY <1>1, <1>3, <2>2, <2>3, <2>9, StageStep
<1>12. CASE EncryptCount(p)
  <2>1. pc[p] = "count" /\ pc'[p] = "counted" /\ UNCHANGED <<call_stack, call_stack_top, sbuf_stack, init>>
    BY <1>12, <1>4 DEF EncryptCount, At, Goto, SharedTypeOK, globals
  <2>2. init # 0 /\ init' # 0
    BY <1>2, <2>1 DEF Midway
  <2>3. reg'[p] = call_stack_top
    BY <1>12 DEF EncryptCount, Load, SharedTypeOK
  <2>4. Below(b)'
    BY <1>7, <1>8, <1>4, <2>1, <2>3, BelowSame DEF SharedTypeOK
  <2>5. Unused(b)'
    BY <1>8, <2>1 DEF Unused
  <2>6. call_stack_top' = b /\ Counted(p)' = b /\ Made(p)' = b + 1
    BY <1>6, <1>8, <2>1, <2>3 DEF Counted, Made
  <2>7. Records(b + 1)'
    BY <1>6, <1>8, <2>1, <2>3, FrameRecord, SharedAssumption DEF Records, Made, SharedTypeOK
  <2>8. call_stack'[b] = <<p, depth'[p]>>
    BY <1>2, <1>4, <1>6, <2>1, <2>3 DEF Midway, SharedTypeOK
  <2>9. Midway(p)'
    BY <1>6, <1>8, <2>1, <2>2, <2>3, <2>4, <2>5, <2>6, <2>7, <2>8 DEF Midway
  <2> QED
    BY <1>1, <1>3, <2>2, <2>3, <2>9, StageStep
<1>13. CASE EncryptCounted(p)
  <2>1. pc[p] = "counted" /\ pc'[p] = "take" /\ UNCHANGED <<call_stack, sbuf_stack, init>>
    BY <1>13, <1>4 DEF EncryptCounted, At, Goto, SharedTypeOK, globals
  <2>2. init # 0 /\ init' # 0
    BY <1>2, <2>1 DEF Midway
  <2>3. call_stack_top' = b + 1
    BY <1>13, <1>2, <1>6, <2>1 DEF EncryptCounted, Midway
  <2>4. Below(b)'
    BY <1>7, <1>8, <1>4, <2>1, <2>3, BelowSame DEF SharedTypeOK
  <2>5. Unused(b)'
    BY <1>8, <2>1 DEF Unused
  <2>6. call_stack_top' = b + 1 /\ Counted(p)' = b + 1 /\ Made(p)' = b + 1
    BY <1>6, <1>8, <2>1, <2>3 DEF Counted, Made
  <2>7. Records(b + 1)'
    BY <1>6, <1>8, <2>1, <2>3, FrameRecord, SharedAssumption DEF Records, Made, SharedTypeOK
  <2>8. call_stack'[b] = <<p, depth'[p]>>
    BY <1>2, <1>4, <1>6, <2>1, <2>3 DEF Midway, SharedTypeOK
  <2>9. Midway(p)'
    BY <1>6, <1>8, <2>1, <2>2, <2>3, <2>4, <2>5, <2>6, <2>7, <2>8 DEF Midway
  <2> QED
    BY <1>1, <1>3, <2>2, <2>3, <2>9, StageStep
<1>14. CASE EncryptTake(p)
  <2>1. pc[p] = "take" /\ pc'[p] = "taken" /\ UNCHANGED <<call_stack, call_stack_top, sbuf_stack, init>>
    BY <1>14, <1>4 DEF EncryptTake, At, Goto, SharedTypeOK, globals
  <2>2. init # 0 /\ init' # 0
    BY <1>2, <2>1 DEF Midway
  <2>3. reg'[p] = sbuf_stack_top
    BY <1>14 DEF EncryptTake, Load, SharedTypeOK
  <2>4. Below(b)'
    BY <1>7, <1>8, <1>4, <2>1, <2>3, BelowSame DEF SharedTypeOK
  <2>5. Unused(b)'
    BY <1>8, <2>1 DEF Unused
  <2>6. call_stack_top' = b + 1 /\ Counted(p)' = b + 1 /\ Made(p)' = b + 1
    BY <1>6, <1>8, <2>1, <2>3 DEF Counted, Made
  <2>7. Records(b + 1)'
    BY <1>6, <1>8, <2>1, <2>3, FrameRecord, SharedAssumption DEF Records, Made, SharedTypeOK
  <2>8. call_stack'[b] = <<p, depth'[p]>>
    BY <1>2, <1>4, <1>6, <2>1, <2>3 DEF Midway, SharedTypeOK
  <2>9. Midway(p)'
    BY <1>6, <1>8, <2>1, <2>2, <2>3, <2>4, <2>5, <2>6, <2>7, <2>8 DEF Midway
  <2> QED
    BY <1>1, <1>3, <2>2, <2>3, <2>9, StageStep
<1> QED
  BY <1>9, <1>10, <1>11, <1>12, <1>13, <1>14

(* The same for a decrypt, up to the point where the pieces go back. *)
LEMMA DecryptStages ==
    ASSUME SharedTypeOK, Stacks, ~raced, NEW p \in Procs,
           \/ DecryptUncount(p) \/ DecryptUncounted(p) \/ DecryptPop(p)
           \/ DecryptUntake(p) \/ DecryptUntaken(p)
    PROVE  Stacks'
<1> USE DEF Encrypting, Decrypting
<1>1. pc[p] \in {"uncount", "uncounted", "pop", "untake", "untaken"}
  BY DEF DecryptUncount, DecryptUncounted, DecryptPop, DecryptUntake, DecryptUntaken, At
<1>2. Critical = {p} /\ Midway(p)
  BY <1>1, OnlyOne
<1>3. PICK l \in {"uncounted", "pop", "untake", "untaken", "restore"} : Goto(p, l)
  BY DEF DecryptUncount, DecryptUncounted, DecryptPop, DecryptUntake, DecryptUntaken
<1>4. /\ pc'[p] = l /\ UNCHANGED <<sbuf_stack, init, tidy, depth>>
      /\ \A q \in Procs : q # p => pc'[q] = pc[q] /\ reg'[q] = reg[q]
  BY <1>3 DEF DecryptUncount, DecryptUncounted, DecryptPop, DecryptUntake, DecryptUntaken,
              Goto, Load, SharedTypeOK, globals
<1>5. PICK b \in Int : b = Base(p) /\ b = sbuf_stack_top - 1
  BY <1>1 DEF Base, SharedTypeOK
<1>6. /\ \A q \in Procs : pc'[q] = "hide" <=> pc[q] = "hide"
      /\ \A q \in Procs : pc[q] = "hide" => reg'[q] = reg[q] /\ depth'[q] = depth[q]
  BY <1>1, <1>4
<1>7. /\ b \in Nat /\ Below(b) /\ Held(p, b) /\ Unused(b + 1)
      /\ Records(Made(p)) /\ call_stack_top = Counted(p) /\ init # 0
  BY <1>1, <1>2, <1>5 DEF Midway
<1>8. Held(p, b)' /\ Unused(b + 1)' /\ init' # 0
  BY <1>4, <1>7 DEF Held, Unused
<1>9. CASE DecryptUncount(p)
  <2>1. pc[p] = "uncount" /\ pc'[p] = "uncounted" /\ UNCHANGED <<call_stack, call_stack_top, sbuf_stack_top>>
    BY <1>9, <1>4 DEF DecryptUncount, At, Goto, SharedTypeOK, globals
  <2>3. call_stack_top = b + 1
    BY <1>5, <1>7, <2>1 DEF Counted, SharedTypeOK
  <2>2. reg'[p] = b
    BY <1>9, <1>5, <2>3 DEF DecryptUncount, Load, SharedTypeOK
  <2>4. Below(b)'
    BY <1>4, <1>6, <1>7, <2>1, BelowSame
  <2>5. b = Base(p)' /\ call_stack_top' = b + 1 /\ Counted(p)' = b + 1 /\ Made(p)' = b + 1
    BY <1>5, <1>7, <2>1, <2>2, <2>3 DEF Base, Counted, Made
  <2>6. Records(b + 1)'
    BY <1>5, <1>7, <2>1, <2>2, <2>3, SharedAssumption DEF Records, Made, SharedTypeOK
  <2>7. Midway(p)'
    BY <1>7, <1>8, <2>1, <2>2, <2>3, <2>4, <2>5, <2>6 DEF Midway
  <2> QED
    BY <1>1, <1>3, <1>8, <2>7, StageStep
<1>10. CASE DecryptUncounted(p)
  <2>1. pc[p] = "uncounted" /\ pc'[p] = "pop" /\ UNCHANGED <<call_stack, sbuf_stack_top>>
    BY <1>10, <1>4 DEF DecryptUncounted, At, Goto, SharedTypeOK, globals
  <2>2. call_stack_top' = b /\ reg'[p] = b
    BY <1>10, <1>2, <1>5, <2>1 DEF DecryptUncounted, Midway
  <2>4. Below(b)'
    BY <1>4, <1>6, <1>7, <2>1, BelowSame
  <2>5. b = Base(p)' /\ call_stack_top' = b /\ Counted(p)' = b /\ Made(p)' = b + 1
    BY <1>5, <1>7, <2>1, <2>2 DEF Base, Counted, Made
  <2>6. Records(b + 1)'
    BY <1>5, <1>7, <2>1, <2>2, SharedAssumption DEF Records, Made, SharedTypeOK
  <2>7. Midway(p)'
    BY <1>7, <1>8, <2>1, <2>2, <2>4, <2>5, <2>6 DEF Midway
  <2> QED
    BY <1>1, <1>3, <1>8, <2>7, StageStep
<1>11. CASE DecryptPop(p)
  <2>1. pc[p] = "pop" /\ pc'[p] = "untake" /\ UNCHANGED <<call_stack_top, sbuf_stack_top, reg>>
    BY <1>11, <1>4 DEF DecryptPop, At, Goto, SharedTypeOK, globals
  <2>2. reg[p] = b /\ call_stack_top = b
    BY <1>2, <1>5, <1>7, <2>1 DEF Midway, Counted
  <2>3. b \in 0 .. CallDepth - 1 /\ call_stack' = [call_stack EXCEPT ![b] = <<>>]
    BY <1>11, <2>2 DEF DecryptPop, Record, SharedTypeOK
  <2>4. Below(b)'
    BY <1>4, <1>6, <1>7, <2>3, BelowSame DEF SharedTypeOK
  <2>5. b = Base(p)' /\ call_stack_top' = b /\ Counted(p)' = b /\ Made(p)' = b
    BY <1>5, <1>7, <2>1, <2>2, <2>3 DEF Base, Counted, Made
  <2>6. Records(b)'
    BY <1>5, <1>7, <2>1, <2>2, <2>3, SharedAssumption DEF Records, Made, SharedTypeOK
  <2>7. Midway(p)'
    BY <1>7, <1>8, <2>1, <2>2, <2>3, <2>4, <2>5, <2>6 DEF Midway
  <2> QED
    BY <1>1, <1>3, <1>8, <2>7, StageStep
<1>12. CASE DecryptUntake(p)
  <2>1. pc[p] = "untake" /\ pc'[p] = "untaken" /\ UNCHANGED <<call_stack, call_stack_top, sbuf_stack_top>>
    BY <1>12, <1>4 DEF DecryptUntake, At, Goto, SharedTypeOK, globals
  <2>3. sbuf_stack_top = b + 1
    BY <1>5, <1>7, <2>1 DEF Counted, SharedTypeOK
  <2>2. reg'[p] = b
    BY <1>12, <1>5, <2>3 DEF DecryptUntake, Load, SharedTypeOK
  <2>4. Below(b)'
    BY <1>4, <1>6, <1>7, <2>1, BelowSame
  <2>5. b = Base(p)' /\ call_stack_top' = b /\ Counted(p)' = b /\ Made(p)' = b
    BY <1>5, <1>7, <2>1, <2>2, <2>3 DEF Base, Counted, Made
  <2>6. Records(b)'
    BY <1>5, <1>7, <2>1, <2>2, <2>3, SharedAssumption DEF Records, Made, SharedTypeOK
  <2>7. Midway(p)'
    BY <1>7, <1>8, <2>1, <2>2, <2>3, <2>4, <2>5, <2>6 DEF Midway
  <2> QED
    BY <1>1, <1>3, <1>8, <2>7, StageStep
<1>13. CASE DecryptUntaken(p)
  <2>1. pc[p] = "untaken" /\ pc'[p] = "restore" /\ UNCHANGED <<call_stack, call_stack_top, reg>>
    BY <1>13, <1>4 DEF DecryptUntaken, At, Goto, SharedTypeOK, globals
  <2>2. sbuf_stack_top' = b /\ reg'[p] = b
    BY <1>13, <1>2, <1>5, <2>1 DEF DecryptUntaken, Midway
  <2>4. Below(b)'
    BY <1>4, <1>6, <1>7, <2>1, BelowSame
  <2>5. b = Base(p)' /\ call_stack_top' = b /\ Counted(p)' = b /\ Made(p)' = b
    BY <1>5, <1>7, <2>1, <2>2 DEF Base, Counted, Made
  <2>6. Records(b)'
    BY <1>5, <1>7, <2>1, <2>2, SharedAssumption DEF Records, Made, SharedTypeOK
  <2>7. Midway(p)'
    BY <1>7, <1>8, <2>1, <2>2, <2>4, <2>5, <2>6 DEF Midway
  <2> QED
    BY <1>1, <1>3, <1>8, <2>7, StageStep
<1> QED
  BY <1>9, <1>10, <1>11, <1>12, <1>13

(* A request begins or ends. *)
LEMMA EncryptEnterStacks ==
    ASSUME SharedTypeOK, Stacks, NEW p \in Procs, EncryptEnter(p)
    PROVE  Stacks'
<1> USE DEF Encrypting, Decrypting
<1> SUFFICES ASSUME ~raced' PROVE Stacks'
  BY DEF Stacks
<1>1. /\ ~raced /\ Critical = {} /\ pc[p] = "user"
      /\ tidy' => tidy
  BY DEF EncryptEnter, Asks316, AtUser
<1>2. /\ UNCHANGED <<init, call_stack, call_stack_top, sbuf_stack, sbuf_stack_top, reg>>
      /\ pc' = [pc EXCEPT ![p] = IF init = 0 THEN "init" ELSE "check"]
      /\ \A q \in Procs : q # p => depth'[q] = depth[q]
  BY DEF EncryptEnter, Asks316, Goto, globals, SharedTypeOK
<1>3. PICK b \in Int : b = call_stack_top /\ b = sbuf_stack_top /\ b = sbuf_stack_top'
  BY <1>1, <1>2 DEF Stacks, Level, SharedTypeOK
<1>4. Below(b) /\ Records(b) /\ Unused(b)
  BY <1>1, <1>3 DEF Stacks, Level
<1>5. pc'[p] = (IF init = 0 THEN "init" ELSE "check") /\ \A q \in Procs : q # p => pc'[q] = pc[q]
  BY <1>2 DEF SharedTypeOK
<1>6. Below(b)'
  <2>1. \A q \in Procs : pc'[q] = "hide" <=> pc[q] = "hide"
    BY <1>1, <1>5
  <2>2. \A q \in Procs : pc[q] = "hide" => reg'[q] = reg[q] /\ depth'[q] = depth[q]
    BY <1>1, <1>2
  <2> QED
    BY <1>1, <1>2, <1>4, <2>1, <2>2, BelowSame
<1>7. Records(b)' /\ Unused(b)'
  BY <1>2, <1>4 DEF Records, Unused
<1>8. Base(p)' = b /\ Made(p)' = b /\ Counted(p)' = b
  BY <1>3, <1>5 DEF Base, Made, Counted
<1>9. Midway(p)'
  BY <1>2, <1>3, <1>4, <1>5, <1>6, <1>7, <1>8 DEF Midway, Records
<1>10. Critical' = {p}
  BY <1>1, <1>5 DEF Critical, InKernel
<1>11. ASSUME init' = 0
       PROVE  /\ call_stack_top' = 0 /\ sbuf_stack_top' = 0
              /\ \A q \in InKernel' : pc'[q] = "init"
  BY <1>1, <1>2, <1>5, <1>11 DEF Stacks, InKernel, Critical
<1> QED
  BY <1>9, <1>10, <1>11 DEF Stacks

(* The top of sbuf_stack[] is stored: both stacks are paired again. *)
LEMMA EncryptTakenStacks ==
    ASSUME SharedTypeOK, Stacks, ~raced, NEW p \in Procs, EncryptTaken(p)
    PROVE  Stacks'
<1> USE DEF Encrypting, Decrypting
<1>1. /\ pc[p] = "taken" /\ UNCHANGED <<init, call_stack, call_stack_top, sbuf_stack, reg, depth, tidy>>
      /\ sbuf_stack_top' = reg[p] + 1
  BY DEF EncryptTaken, At
<1>2. pc'[p] = "hide" /\ \A q \in Procs : q # p => pc'[q] = pc[q]
  BY DEF EncryptTaken, Goto, SharedTypeOK
<1>3. Critical = {p} /\ Midway(p)
  BY <1>1, OnlyOne
<1>4. PICK b \in Int : b = Base(p) /\ b = sbuf_stack_top
  BY <1>1 DEF Base, SharedTypeOK
<1>5. /\ Below(b) /\ Unused(b) /\ Records(b + 1) /\ call_stack_top = b + 1 /\ reg[p] = b
      /\ call_stack[b] = <<p, depth[p]>> /\ init # 0
  BY <1>1, <1>3, <1>4 DEF Midway, Counted, Made
<1>6. 0 <= b
  BY <1>3, <1>4 DEF Midway
<1>7. Below(b + 1)'
  <2>1. ASSUME NEW n \in 0 .. b
        PROVE  Kept(n)' \/ \E q \in Procs : pc'[q] = "hide" /\ reg'[q] = n
    <3>1. CASE n = b
      BY <1>1, <1>2, <1>5, <3>1
    <3>2. CASE n # b
      <4>1. Kept(n) \/ \E q \in Procs : pc[q] = "hide" /\ reg[q] = n
        BY <1>5, <3>2 DEF Below
      <4>2. Kept(n) => Kept(n)'
        BY <1>1 DEF Kept
      <4> QED
        BY <1>1, <1>2, <4>1, <4>2
    <3> QED
      BY <3>1, <3>2
  <2>2. ASSUME NEW q \in Procs, pc'[q] = "hide"
        PROVE  /\ reg'[q] \in 0 .. b /\ call_stack'[reg'[q]] = <<q, depth'[q]>>
               /\ reg'[q] \in 0 .. SbufDepth - 1 => sbuf_stack'[reg'[q]] = <<>>
    <3>1. CASE q = p
      BY <1>1, <1>5, <1>6, <3>1 DEF Unused
    <3>2. CASE q # p
      BY <1>1, <1>2, <1>5, <2>2, <3>2 DEF Below
    <3> QED
      BY <3>1, <3>2
  <2>3. (b + 1) - 1 = b
    BY <1>4
  <2> QED
    BY <2>1, <2>2, <2>3, Zenon DEF Below
<1>8. Records(b + 1)' /\ Unused(b + 1)'
  BY <1>1, <1>5 DEF Records, Unused
<1>9. Level'
  BY <1>1, <1>5, <1>7, <1>8 DEF Level
<1>10. Critical' = {}
  BY <1>2, <1>3 DEF Critical, InKernel
<1> QED
  BY <1>1, <1>5, <1>9, <1>10 DEF Stacks

(* The decrypt is over: the slot it popped is free. *)
LEMMA DecryptRestoreStacks ==
    ASSUME SharedTypeOK, Stacks, ~raced, NEW p \in Procs, DecryptRestore(p)
    PROVE  Stacks'
<1> USE DEF Encrypting, Decrypting
<1>1. /\ pc[p] = "restore" /\ UNCHANGED <<init, call_stack, call_stack_top, sbuf_stack_top, depth, tidy>>
      /\ reg[p] \in 0 .. SbufDepth - 1
      /\ sbuf_stack' = [sbuf_stack EXCEPT ![reg[p]] = <<>>]
  BY DEF DecryptRestore, At, SharedTypeOK
<1>2. pc'[p] = "user" /\ \A q \in Procs : q # p => pc'[q] = pc[q] /\ reg'[q] = reg[q]
  BY DEF DecryptRestore, Return, Goto, Load, SharedTypeOK
<1>3. Critical = {p} /\ Midway(p)
  BY <1>1, OnlyOne
<1>4. PICK b \in Int : b = Base(p) /\ b = sbuf_stack_top
  BY <1>1 DEF Base, SharedTypeOK
<1>5. /\ Below(b) /\ Unused(b + 1) /\ Records(b) /\ call_stack_top = b /\ reg[p] = b /\ init # 0
  BY <1>1, <1>3, <1>4 DEF Midway, Counted, Made
<1>6. Below(b)'
  <2>1. \A n \in 0 .. b - 1 : call_stack'[n] = call_stack[n] /\ sbuf_stack'[n] = sbuf_stack[n]
    BY <1>1, <1>5 DEF SharedTypeOK
  <2>2. \A q \in Procs : pc'[q] = "hide" <=> pc[q] = "hide"
    BY <1>1, <1>2
  <2>3. \A q \in Procs : pc[q] = "hide" => reg'[q] = reg[q] /\ depth'[q] = depth[q]
    BY <1>1, <1>2
  <2> QED
    BY <1>1, <1>5, <2>1, <2>2, <2>3, BelowSame
<1>7. Records(b)' /\ Unused(b)'
  BY <1>1, <1>5, SharedAssumption DEF Records, Unused, SharedTypeOK
<1>8. Level'
  BY <1>1, <1>4, <1>5, <1>6, <1>7 DEF Level
<1>9. Critical' = {}
  BY <1>2, <1>3 DEF Critical, InKernel
<1> QED
  BY <1>1, <1>5, <1>8, <1>9 DEF Stacks

(* A decrypt starts: nobody is still copying into the slot on top. *)
LEMMA DecryptEnterStacks ==
    ASSUME SharedTypeOK, Handlers, Stacks, NEW p \in Procs, DecryptEnter(p)
    PROVE  Stacks'
<1> USE DEF Encrypting, Decrypting
<1> SUFFICES ASSUME ~raced' PROVE Stacks'
  BY DEF Stacks
<1>1. ~raced /\ Critical = {} /\ (tidy' => tidy)
  BY DEF DecryptEnter
<1>2. /\ UNCHANGED <<init, call_stack, call_stack_top, sbuf_stack, sbuf_stack_top, reg>> /\ init # 0
      /\ pc[p] = "user" /\ depth[p] > 0 /\ call_stack_top # 0
  BY DEF DecryptEnter, Asks317, AtUser, globals
<1>3. /\ pc'[p] = "uncount" /\ depth'[p] = depth[p] - 1
      /\ \A q \in Procs : q # p => pc'[q] = pc[q] /\ depth'[q] = depth[q]
  BY DEF DecryptEnter, Asks317, Goto, SharedTypeOK
<1>4. PICK b \in Int : b = call_stack_top - 1 /\ b + 1 = call_stack_top /\ b + 1 = sbuf_stack_top
  BY <1>1 DEF Stacks, Level, SharedTypeOK
<1>5. Below(b + 1) /\ Records(b + 1) /\ Unused(b + 1)
  BY <1>1, <1>4 DEF Stacks, Level, SharedTypeOK
<1>6. b \in 0 .. CallDepth - 1
  BY <1>2, <1>4, <1>5, SharedAssumption DEF Records
<1>7. Record(b) = call_stack[b]
  BY <1>6 DEF Record, SharedTypeOK
<1>8. \A q \in InKernel : call_stack[b] # <<q, depth[q]>>
  BY <1>4, <1>7 DEF DecryptEnter, SharedTypeOK
<1>9. \A q \in Procs : pc[q] = "hide" => reg[q] \in 0 .. b - 1
  <2> SUFFICES ASSUME NEW q \in Procs, pc[q] = "hide" PROVE reg[q] \in 0 .. b - 1
    OBVIOUS
  <2>1. reg[q] \in 0 .. b /\ call_stack[reg[q]] = <<q, depth[q]>>
    BY <1>5 DEF Below
  <2>2. q \in InKernel
    BY DEF InKernel
  <2> QED
    BY <1>6, <1>8, <2>1, <2>2
<1>10. Below(b)
  <2>1. \A n \in 0 .. b - 1 : n \in 0 .. (b + 1) - 1
    OBVIOUS
  <2> QED
    BY <1>5, <1>9, <2>1 DEF Below
<1>11. Below(b)'
  <2>1. \A q \in Procs : pc'[q] = "hide" <=> pc[q] = "hide"
    BY <1>2, <1>3
  <2>2. \A q \in Procs : pc[q] = "hide" => reg'[q] = reg[q] /\ depth'[q] = depth[q]
    BY <1>2, <1>3
  <2> QED
    BY <1>1, <1>2, <1>10, <2>1, <2>2, BelowSame
<1>12. Kept(b)
  BY <1>5, <1>6, <1>9 DEF Below
<1>13. Held(p, b)'
  <2>1. b \in 0 .. SbufDepth - 1 /\ Len(sbuf_stack[b]) = 1
    BY <1>12 DEF Kept
  <2>2. ASSUME tidy'
        PROVE  sbuf_stack[b][1] = [level |-> depth[p], data |-> <<p, depth[p]>>]
    <3>1. tidy /\ call_stack[b] = <<p, depth[p]>>
      BY <1>4, <1>7, <2>2 DEF DecryptEnter, SharedTypeOK
    <3>2. sbuf_stack[b][1].level = depth[p] /\ sbuf_stack[b][1].data = <<p, depth[p]>>
      BY <1>12, <3>1 DEF Kept
    <3>3. sbuf_stack[b][1] \in Piece
      <4>1. sbuf_stack[b] \in Seq(Piece) /\ 1 \in 1 .. Len(sbuf_stack[b])
        BY <2>1 DEF SharedTypeOK
      <4> QED
        BY <4>1, ElementOfSeq
    <3> QED
      BY <3>2, <3>3 DEF Piece
  <2>3. depth'[p] + 1 = depth[p]
    BY <1>3 DEF SharedTypeOK
  <2> QED
    BY <1>2, <2>1, <2>2, <2>3 DEF Held
<1>14. Records(b + 1)' /\ Unused(b + 1)'
  BY <1>2, <1>5 DEF Records, Unused
<1>15. Base(p)' = b /\ Made(p)' = b + 1 /\ Counted(p)' = b + 1
  BY <1>2, <1>3, <1>4 DEF Base, Made, Counted
<1>16. Midway(p)'
  BY <1>2, <1>3, <1>4, <1>6, <1>11, <1>13, <1>14, <1>15 DEF Midway
<1>17. Critical' = {p}
  BY <1>1, <1>3 DEF Critical, InKernel
<1> QED
  BY <1>2, <1>16, <1>17 DEF Stacks

(* An encrypt copies its frame into the slot it took, and only there. *)
LEMMA HideBelow ==
    ASSUME SharedTypeOK, Handlers, Tidy, NEW p \in Procs, EncryptHide(p), NEW k \in Int, Below(k)
    PROVE  /\ Below(k)' /\ reg[p] \in 0 .. k - 1
           /\ \A n \in 0 .. SbufDepth - 1 : n >= k => sbuf_stack'[n] = sbuf_stack[n]
<1> PICK r \in Int, d \in Int : r = reg[p] /\ d = depth[p]
  BY DEF SharedTypeOK
<1> PICK piece : piece = [level |-> d, data |-> mem[p][d]]
  OBVIOUS
<1>1. /\ pc[p] = "hide" /\ UNCHANGED <<call_stack, depth, tidy>> /\ r \in 0 .. SbufDepth - 1
      /\ sbuf_stack' = [sbuf_stack EXCEPT ![r] = Append(sbuf_stack[r], piece)]
  BY DEF EncryptHide, At, SharedTypeOK
<1>2. pc'[p] = "user" /\ \A q \in Procs : q # p => pc'[q] = pc[q] /\ reg'[q] = reg[q]
  BY DEF EncryptHide, Return, Goto, Load, SharedTypeOK
<1>3. r \in 0 .. k - 1 /\ call_stack[r] = <<p, d>> /\ sbuf_stack[r] = <<>>
  BY <1>1 DEF Below
<1>4. \A n \in 0 .. SbufDepth - 1 : n # r => sbuf_stack'[n] = sbuf_stack[n]
  BY <1>1 DEF SharedTypeOK
<1>5. d \in 1 .. Levels
  BY <1>1 DEF Handlers, Encrypting, SharedTypeOK
<1>6. sbuf_stack'[r] = <<piece>>
  BY <1>1, <1>3 DEF SharedTypeOK
<1>7. Kept(r)'
  <2>1. tidy => mem[p][d] = <<p, d>>
    <3>1. Gone(p) = d - 1 /\ ~(d <= d - 1)
      BY <1>1 DEF Gone, Encrypting
    <3> QED
      BY <1>1, <1>5, <3>1 DEF Tidy
  <2>2. /\ Len(sbuf_stack'[r]) = 1 /\ sbuf_stack'[r][1].level = d
        /\ sbuf_stack'[r][1].data = mem[p][d]
    BY <1>6
  <2>3. call_stack'[r] = <<p, d>> /\ (tidy' => tidy)
    BY <1>1, <1>3
  <2> QED
    BY <1>1, <2>1, <2>2, <2>3 DEF Kept
<1>8. ASSUME NEW n \in 0 .. k - 1
      PROVE  Kept(n)' \/ \E q \in Procs : pc'[q] = "hide" /\ reg'[q] = n
  <2>1. CASE n = r
    BY <1>7, <2>1
  <2>2. CASE n # r
    <3>1. Kept(n) \/ \E q \in Procs : pc[q] = "hide" /\ reg[q] = n
      BY DEF Below
    <3>2. Kept(n) => Kept(n)'
      BY <1>1, <1>4, <2>2 DEF Kept
    <3>3. \A q \in Procs : reg[q] = n => q # p
      BY <2>2
    <3> QED
      BY <1>2, <3>1, <3>2, <3>3
  <2> QED
    BY <2>1, <2>2
<1>9. ASSUME NEW q \in Procs, pc'[q] = "hide"
      PROVE  /\ reg'[q] \in 0 .. k - 1 /\ call_stack'[reg'[q]] = <<q, depth'[q]>>
             /\ reg'[q] \in 0 .. SbufDepth - 1 => sbuf_stack'[reg'[q]] = <<>>
  <2>1. q # p /\ pc[q] = "hide" /\ reg'[q] = reg[q]
    BY <1>2, <1>9
  <2>2. /\ reg[q] \in 0 .. k - 1 /\ call_stack[reg[q]] = <<q, depth[q]>>
        /\ reg[q] \in 0 .. SbufDepth - 1 => sbuf_stack[reg[q]] = <<>>
    BY <2>1 DEF Below
  <2>3. reg[q] # r
    BY <1>3, <2>1, <2>2
  <2> QED
    BY <1>1, <1>4, <2>1, <2>2, <2>3
<1>10. Below(k)'
  BY <1>8, <1>9 DEF Below
<1> QED
  BY <1>3, <1>4, <1>10

(* The frame is in the buffer of the slot that was taken for it. *)
LEMMA EncryptHideStacks ==
    ASSUME SharedTypeOK, Handlers, Stacks, Tidy, ~raced, NEW p \in Procs, EncryptHide(p)
    PROVE  Stacks'
<1> USE DEF Encrypting, Decrypting
<1>1. /\ pc[p] = "hide"
      /\ UNCHANGED <<init, call_stack, call_stack_top, sbuf_stack_top, depth, tidy>>
  BY DEF EncryptHide, At
<1>2. pc'[p] = "user" /\ \A q \in Procs : q # p => pc'[q] = pc[q] /\ reg'[q] = reg[q]
  BY DEF EncryptHide, Return, Goto, Load, SharedTypeOK
<1>3. Critical' = Critical /\ InKernel' \subseteq InKernel /\ p \in InKernel /\ p \notin Critical
  BY <1>1, <1>2 DEF Critical, InKernel
<1>4. init # 0
  BY <1>1, <1>3 DEF Stacks
<1>5. CASE Critical = {}
  <2>1. Level
    BY <1>5 DEF Stacks
  <2>2. PICK k \in Int : k = call_stack_top /\ k = call_stack_top'
    BY <1>1 DEF SharedTypeOK
  <2>3. /\ Below(k)'
        /\ \A n \in 0 .. SbufDepth - 1 : n >= k => sbuf_stack'[n] = sbuf_stack[n]
    BY <2>1, <2>2, HideBelow DEF Level
  <2>4. Unused(k)' /\ Records(k)'
    BY <1>1, <2>1, <2>2, <2>3 DEF Level, Unused, Records
  <2>5. Level'
    BY <1>1, <2>1, <2>2, <2>3, <2>4 DEF Level
  <2> QED
    BY <1>1, <1>3, <1>4, <1>5, <2>5 DEF Stacks
<1>6. ASSUME NEW c \in Critical PROVE Midway(c)'
  <2>1. Midway(c) /\ c \in Procs /\ c # p
    BY <1>3 DEF Stacks, Critical, InKernel
  <2>2. pc'[c] = pc[c] /\ reg'[c] = reg[c] /\ depth'[c] = depth[c]
    BY <1>1, <1>2, <2>1
  <2>3. Base(c)' = Base(c) /\ Made(c)' = Made(c) /\ Counted(c)' = Counted(c)
    BY <1>1, <2>2 DEF Base, Made, Counted
  <2>4. PICK k \in Int : k = Base(c) /\ k = Base(c)'
    BY <2>3 DEF Base, SharedTypeOK
  <2>5. /\ Below(k)'
        /\ \A n \in 0 .. SbufDepth - 1 : n >= k => sbuf_stack'[n] = sbuf_stack[n]
    BY <2>1, <2>4, HideBelow DEF Midway
  <2>6. Held(c, k) => Held(c, k)'
    BY <1>1, <2>2, <2>5 DEF Held
  <2>7. Records(Made(c)) => Records(Made(c))'
    BY <1>1, <2>3 DEF Records
  <2>8. (Unused(k) => Unused(k)') /\ (Unused(k + 1) => Unused(k + 1)')
    BY <2>5 DEF Unused
  <2> QED
    BY <1>1, <2>1, <2>2, <2>3, <2>4, <2>5, <2>6, <2>7, <2>8 DEF Midway
<1> QED
  BY <1>1, <1>3, <1>4, <1>5, <1>6 DEF Stacks

(* The stacks, whatever the step is. *)
Stages(p) == \/ EncryptInit(p) \/ EncryptCheck(p) \/ EncryptPush(p)
             \/ EncryptCount(p) \/ EncryptCounted(p) \/ EncryptTake(p) \/ EncryptTaken(p)
             \/ DecryptUncount(p) \/ DecryptUncounted(p) \/ DecryptPop(p)
             \/ DecryptUntake(p) \/ DecryptUntaken(p)

(* A handler whose buffers were replaced tells of a race. *)
LEMMA OldRaced ==
    ASSUME Current, NEW p \in Procs, EncryptHideOld(p) \/ DecryptRestoreOld(p)
    PROVE  raced
  BY DEF Current, UsesOld, EncryptHideOld, DecryptRestoreOld, LeaveOld

(* The steps of insmod and rmmod that leave the globals alone. *)
ModuleMoves == \/ jprobe_init_second \/ jprobe_init_fails \/ jprobe_init_fails_under
               \/ jprobe_exit \/ jprobe_exit_second \/ jprobe_exit_done

(* Every step keeps the two stacks paired. *)
LEMMA StacksStep == IInv /\ [Next]_vars => Stacks'
<1> SUFFICES ASSUME IInv, [Next]_vars PROVE Stacks'
  OBVIOUS
<1>0. SharedTypeOK /\ Handlers /\ Stacks /\ Tidy
  BY DEF IInv
<1>1. CASE UNCHANGED vars \/ Halted
  BY <1>0, <1>1, OutsideStep DEF Halted, vars, globals, InKernel, SharedTypeOK
<1>2. CASE jprobe_init
  <2>1. InKernel = {} /\ \A p \in Procs : pc[p] \notin Encrypting \cup Decrypting
    BY <1>0, <1>2 DEF jprobe_init, Handlers, InKernel, Encrypting, Decrypting
  <2>2. InKernel' = {} /\ Critical' = {} /\ \A p \in Procs : pc'[p] # "hide"
    BY <1>2, <2>1 DEF jprobe_init, InKernel, Critical, Encrypting
  <2>3. /\ call_stack' = [n \in 0 .. CallDepth - 1 |-> <<>>] /\ call_stack_top' = 0
        /\ sbuf_stack' = Empty /\ sbuf_stack_top' = 0
    BY <1>2 DEF jprobe_init, Loaded
  <2>4. Level'
    BY <2>2, <2>3, SharedAssumption DEF Level, Records, Below, Unused, Empty
  <2> QED
    BY <2>2, <2>3, <2>4 DEF Stacks
<1>3. CASE ModuleMoves
  <2>0. tidy' => tidy
    BY <1>3 DEF ModuleMoves, jprobe_init_second, jprobe_init_fails, jprobe_init_fails_under,
                jprobe_exit, jprobe_exit_second, jprobe_exit_done
  <2>1. UNCHANGED <<globals, reg, raced, pc, depth>>
    BY <1>3 DEF ModuleMoves, jprobe_init_second, jprobe_init_fails, jprobe_init_fails_under,
                jprobe_exit, jprobe_exit_second, jprobe_exit_done
  <2>2. \A q \in Procs \ InKernel : pc'[q] \in {"user", "dead"}
    BY <2>1 DEF InKernel
  <2> QED
    BY <1>0, <2>0, <2>1, <2>2, OutsideStep
<1>4. ASSUME NEW p \in Procs, Encrypt(p) \/ Decrypt(p) \/ Die(p)
      PROVE  Stacks'
  <2>1. CASE Breaks(p)
    BY <1>0, <2>1, BreaksFault, OutsideStep DEF Break, InKernel, SharedTypeOK
  <2>2. CASE EncryptIgnored(p) \/ DecryptIgnored(p) \/ DecryptRefused(p)
    <3>1. UNCHANGED <<globals, reg, raced, pc>> /\ (tidy' => tidy) /\ pc[p] = "user"
      BY <2>2 DEF EncryptIgnored, DecryptIgnored, DecryptRefused, Asks316, Asks317, AtUser
    <3>2. \A q \in Procs : q # p => depth'[q] = depth[q]
      BY <1>0, <2>2 DEF EncryptIgnored, DecryptIgnored, DecryptRefused, Asks316, Asks317, SharedTypeOK
    <3> QED
      BY <1>0, <3>1, <3>2, OutsideStep DEF InKernel
  <2>3. CASE Die(p)
    <3>1. UNCHANGED <<globals, reg, raced, tidy>> /\ pc[p] = "user" /\ pc'[p] = "dead"
      BY <1>0, <2>3 DEF Die, AtUser, Goto, SharedTypeOK
    <3>2. \A q \in Procs : q # p => depth'[q] = depth[q] /\ pc'[q] = pc[q]
      BY <1>0, <2>3 DEF Die, Goto, SharedTypeOK
    <3> QED
      BY <1>0, <3>1, <3>2, OutsideStep DEF InKernel
  <2>4. CASE EncryptEnter(p)
    BY <1>0, <2>4, EncryptEnterStacks
  <2>5. CASE DecryptEnter(p)
    BY <1>0, <2>5, DecryptEnterStacks
  <2>6. CASE Stages(p) \/ EncryptHide(p) \/ DecryptRestore(p)
    <3>1. raced' = raced
      BY <2>6 DEF Stages, EncryptInit, EncryptCheck, EncryptPush, EncryptCount, EncryptCounted,
                  EncryptTake, EncryptTaken, DecryptUncount, DecryptUncounted, DecryptPop,
                  DecryptUntake, DecryptUntaken, EncryptHide, DecryptRestore
    <3>2. CASE raced
      BY <3>1, <3>2 DEF Stacks
    <3>3. CASE ~raced
      BY <1>0, <2>6, <3>3, EncryptStages, DecryptStages, EncryptTakenStacks, EncryptHideStacks,
         DecryptRestoreStacks DEF Stages
    <3> QED
      BY <3>2, <3>3
  <2>7. CASE EncryptHideOld(p) \/ DecryptRestoreOld(p)
    <3>1. raced' = raced /\ raced
      BY <2>7, OldRaced DEF IInv, EncryptHideOld, DecryptRestoreOld
    <3> QED
      BY <3>1 DEF Stacks
  <2> QED
    BY <1>4, <2>1, <2>2, <2>3, <2>4, <2>5, <2>6, <2>7 DEF Encrypt, Decrypt, Breaks, Stages
<1> QED
  BY <1>1, <1>2, <1>3, <1>4 DEF Next, ModuleMoves

(* The buffers stay those the handlers have, unless there was a race: to build them, an  *)
(* encrypt must have seen init = 0, and then no handler is in its loop.                  *)
LEMMA CurrentStep == IInv /\ [Next]_vars => Current'
<1> SUFFICES ASSUME IInv, [Next]_vars, ~raced' PROVE Current'
  BY DEF Current
<1>0. SharedTypeOK /\ Stacks /\ Current
  BY DEF IInv
<1>1. ASSUME old' = old, ~raced PROVE Current'
  BY <1>0, <1>1 DEF Current, UsesOld
<1>2. CASE UNCHANGED vars \/ Halted
  BY <1>1, <1>2 DEF Halted, vars
<1>3. CASE jprobe_init \/ ModuleMoves
  BY <1>1, <1>3 DEF ModuleMoves, jprobe_init, jprobe_init_second, jprobe_init_fails,
                    jprobe_init_fails_under, jprobe_exit, jprobe_exit_second, jprobe_exit_done, globals
<1>4. ASSUME NEW p \in Procs, Encrypt(p) \/ Decrypt(p) \/ Die(p)
      PROVE  Current'
  <2>1. CASE Breaks(p)
    BY <1>1, <2>1, BreaksFault DEF Break, globals
  <2>2. CASE EncryptIgnored(p) \/ DecryptIgnored(p) \/ DecryptRefused(p) \/ Die(p)
    BY <1>1, <2>2 DEF EncryptIgnored, DecryptIgnored, DecryptRefused, Die, globals
  <2>3. CASE EncryptEnter(p) \/ DecryptEnter(p)
    BY <1>1, <2>3 DEF EncryptEnter, DecryptEnter, globals
  <2>4. CASE EncryptInit(p)
    <3>1. ~raced /\ pc[p] = "init"
      BY <2>4 DEF EncryptInit, At
    <3>2. init = 0
      BY <1>0, <3>1, OnlyOne DEF Midway, Encrypting, Decrypting
    <3>3. Looping = {}
      BY <1>0, <3>1, <3>2 DEF Stacks, Looping
    <3> QED
      BY <1>1, <2>4, <3>1, <3>3 DEF EncryptInit
  <2>5. CASE (Stages(p) /\ ~EncryptInit(p)) \/ EncryptHide(p) \/ DecryptRestore(p)
    BY <1>1, <2>5 DEF Stages, EncryptCheck, EncryptPush, EncryptCount, EncryptCounted,
                  EncryptTake, EncryptTaken, DecryptUncount, DecryptUncounted, DecryptPop,
                  DecryptUntake, DecryptUntaken, EncryptHide, DecryptRestore, globals
  <2>6. CASE EncryptHideOld(p) \/ DecryptRestoreOld(p)
    <3>1. raced' = raced /\ raced
      BY <2>6, OldRaced DEF IInv, EncryptHideOld, DecryptRestoreOld
    <3> QED
      BY <3>1
  <2> QED
    BY <1>4, <2>1, <2>2, <2>3, <2>4, <2>5, <2>6 DEF Encrypt, Decrypt, Breaks, Stages
<1> QED
  BY <1>2, <1>3, <1>4 DEF Next, ModuleMoves

(* Without a race the record a handler reads is never a released one. *)
LEMMA TopRecord ==
    ASSUME SharedTypeOK, Stacks, ~raced, call_stack_top # 0
    PROVE  Record(call_stack_top - 1) # <<>>
<1>1. \E k \in Int : Records(k) /\ call_stack_top <= k /\ 0 <= call_stack_top
  <2>1. CASE Critical = {}
    <3>1. Records(call_stack_top) /\ call_stack_top \in Int
      BY <2>1 DEF Stacks, Level, SharedTypeOK
    <3> QED
      BY <3>1, SharedAssumption DEF Records
  <2>2. CASE Critical # {}
    <3>1. PICK c \in Critical : Midway(c)
      BY <2>2 DEF Stacks
    <3>2. Base(c) \in Nat /\ Records(Made(c)) /\ call_stack_top = Counted(c)
      BY <3>1 DEF Midway
    <3>3. Counted(c) <= Made(c) /\ 0 <= Counted(c) /\ Made(c) \in Int
      BY <3>2 DEF Counted, Made
    <3> QED
      BY <3>2, <3>3
  <2> QED
    BY <2>1, <2>2
<1> QED
  BY <1>1, SharedAssumption DEF Records, Record, SharedTypeOK

(* What every program finds, as long as it is tidy. *)
LEMMA BreaksTidy ==
    ASSUME IInv, NEW p \in Procs, Breaks(p), tidy
    PROVE  fault' \in {"none", "overflow"}
<1>0. SharedTypeOK /\ Stacks /\ Tidy /\ ~raced
  BY DEF IInv, Tidy
<1> USE DEF Breaks, Break
<1>1. CASE EncryptPushOverflow(p) \/ EncryptHideOverflow(p)
  BY <1>1 DEF EncryptPushOverflow, EncryptHideOverflow
<1>2. CASE EncryptDangling(p)
  BY <1>0, <1>2 DEF EncryptDangling, Tidy
<1>3. CASE DecryptNoMapper(p)
  <2>1. init = 0 /\ pc[p] = "user" /\ depth[p] > 0
    BY <1>3 DEF DecryptNoMapper, AtUser
  <2>2. depth[p] = 0
    BY <1>0, <2>1 DEF Tidy
  <2> QED
    BY <2>1, <2>2
<1>4. CASE EncryptCheckWild(p) \/ DecryptEnterWild(p)
  <2>1. CallerGone => call_stack_top # 0 /\ Record(call_stack_top - 1) = <<>>
    BY <1>0 DEF CallerGone, SharedTypeOK
  <2>2. call_stack_top # 0 /\ Record(call_stack_top - 1) = <<>>
    BY <1>4, <2>1 DEF EncryptCheckWild, DecryptEnterWild
  <2> QED
    BY <1>0, <2>2, TopRecord
<1>5. CASE DecryptPopWild(p)
  <2>1. pc[p] = "pop"
    BY <1>5 DEF DecryptPopWild, At
  <2>2. Midway(p)
    BY <1>0, <2>1, OnlyOne DEF Encrypting, Decrypting
  <2>3. PICK b \in Nat : b = Base(p) /\ Records(b + 1) /\ reg[p] = b /\ call_stack_top = b
    BY <2>1, <2>2 DEF Midway, Made, Counted
  <2>4. Record(b) # <<>>
    BY <1>0, <2>3, SharedAssumption DEF Records, Record, SharedTypeOK
  <2> QED
    BY <1>5, <2>3, <2>4 DEF DecryptPopWild
<1>6. CASE DecryptRestoreWild(p)
  <2>1. pc[p] = "restore" /\ reg[p] \notin DOMAIN sbuf_stack
    BY <1>6 DEF DecryptRestoreWild, At
  <2>2. Midway(p)
    BY <1>0, <2>1, OnlyOne DEF Encrypting, Decrypting
  <2> QED
    BY <1>0, <2>1, <2>2 DEF Midway, Held, SharedTypeOK, Decrypting
<1> QED
  BY <1>1, <1>2, <1>3, <1>4, <1>5, <1>6

(* A step from one stage of a handler to the next keeps everybody's data. *)
LEMMA StagesTidy ==
    ASSUME IInv, NEW p \in Procs, Stages(p) PROVE Tidy'
<1> USE DEF Encrypting, Decrypting
<1>0. SharedTypeOK /\ Tidy
  BY DEF IInv
<1>1. /\ UNCHANGED <<module, planted, depth, mem, fault, raced, tidy>>
      /\ pc[p] = "init" => init' = 1
  BY DEF Stages, EncryptInit, EncryptCheck, EncryptPush, EncryptCount, EncryptCounted,
         EncryptTake, EncryptTaken, DecryptUncount, DecryptUncounted, DecryptPop,
         DecryptUntake, DecryptUntaken, At
<1>2. pc[p] # "init" => init' = init
  BY DEF Stages, EncryptInit, EncryptCheck, EncryptPush, EncryptCount, EncryptCounted,
         EncryptTake, EncryptTaken, DecryptUncount, DecryptUncounted, DecryptPop,
         DecryptUntake, DecryptUntaken, At, globals
<1>3. /\ \A q \in Procs : q # p => pc'[q] = pc[q]
      /\ \/ pc[p] \in Encrypting /\ pc'[p] \in Encrypting
         \/ pc[p] \in Decrypting /\ pc'[p] \in Decrypting
  BY <1>0 DEF Stages, EncryptInit, EncryptCheck, EncryptPush, EncryptCount, EncryptCounted,
         EncryptTake, EncryptTaken, DecryptUncount, DecryptUncounted, DecryptPop,
         DecryptUntake, DecryptUntaken, At, Goto, SharedTypeOK
<1>4. \A q \in Procs : Gone(q)' = Gone(q) /\ (pc'[q] # "dead" => pc[q] # "dead")
  BY <1>1, <1>3 DEF Gone
<1>5. init' = 0 => init = 0 /\ \A q \in Procs : pc[q] = "init" => pc'[q] = "init"
  BY <1>1, <1>2, <1>3
<1>6. tidy' => \A q \in Procs : pc'[q] # "dead" =>
                  \A d \in 1 .. Levels : mem'[q][d] = IF d <= Gone(q)' THEN Fill ELSE <<q, d>>
  BY <1>0, <1>1, <1>4 DEF Tidy
<1> QED
  BY <1>0, <1>1, <1>5, <1>6 DEF Tidy

(* The one piece of a tidy decrypt goes to the frame it was taken from. *)
LEMMA RestoredOne ==
    ASSUME NEW m, NEW l, NEW x
    PROVE  Restored(m, <<[level |-> l, data |-> x]>>)
           = [d \in 1 .. Levels |-> IF d = l THEN x ELSE m[d]]
<1> DEFINE s == <<[level |-> l, data |-> x]>>
           at(d) == {n \in DOMAIN s : s[n].level = d}
<1>1. \A d : at(d) = IF d = l THEN {1} ELSE {}
  OBVIOUS
<1>2. \A d : d = l => (CHOOSE n \in at(d) : \A o \in at(d) : n >= o) = 1
  BY <1>1
<1> QED
  BY <1>1, <1>2 DEF Restored

(* The other steps keep what is tidy as well. *)
LEMMA TidyStep == IInv /\ [Next]_vars => Tidy'
<1> SUFFICES ASSUME IInv, [Next]_vars, tidy' PROVE Tidy'
  BY DEF Tidy
<1>0. SharedTypeOK /\ Handlers /\ Stacks /\ Tidy
  BY DEF IInv
<1> USE DEF Encrypting, Decrypting
<1>1. CASE UNCHANGED vars \/ Halted
  BY <1>0, <1>1 DEF Halted, vars, Tidy, Gone
<1>4. CASE jprobe_init_fails \/ jprobe_init_fails_under
  BY <1>4 DEF jprobe_init_fails, jprobe_init_fails_under
<1>2. CASE jprobe_init \/ jprobe_init_second \/ jprobe_exit \/ jprobe_exit_second \/ jprobe_exit_done
  <2>1. /\ tidy /\ UNCHANGED <<pc, depth, mem, fault, raced>>
    BY <1>2 DEF jprobe_init, jprobe_init_second, jprobe_exit, jprobe_exit_second, jprobe_exit_done
  <2>2. \A q \in Procs : Gone(q)' = Gone(q)
    BY <2>1 DEF Gone
  <2>3. (module' = "out" => planted' = {}) /\ (module' # "in" => \A q \in Procs : depth'[q] = 0)
    BY <1>0, <1>2, <2>1 DEF jprobe_init, jprobe_init_second, jprobe_exit, jprobe_exit_second, jprobe_exit_done, Tidy
  <2>4. init' = 0 => \A q \in Procs : pc'[q] = "init" \/ depth'[q] = 0
    <3>1. CASE jprobe_init
      BY <2>1, <3>1 DEF jprobe_init
    <3>2. CASE ~jprobe_init
      BY <1>0, <1>2, <2>1, <3>2 DEF jprobe_init_second, jprobe_exit, jprobe_exit_second, jprobe_exit_done, Tidy, globals
    <3> QED
      BY <3>1, <3>2
  <2> QED
    BY <1>0, <2>1, <2>2, <2>3, <2>4 DEF Tidy
<1>3. ASSUME NEW p \in Procs, Encrypt(p) \/ Decrypt(p) \/ Die(p)
      PROVE  Tidy'
  <2>1. CASE Breaks(p)
    <3>1. UNCHANGED <<module, planted, globals, pc, reg, depth, mem, raced, tidy>>
      BY <2>1, BreaksFault DEF Break
    <3>2. fault' \in {"none", "overflow"}
      BY <2>1, <3>1, BreaksTidy
    <3> QED
      BY <1>0, <3>1, <3>2 DEF Tidy, Gone, globals
  <2>2. CASE EncryptIgnored(p) \/ DecryptRefused(p)
    BY <2>2 DEF EncryptIgnored, DecryptRefused
  <2>3. CASE DecryptIgnored(p)
    <3>1. tidy /\ module # "in" /\ depth[p] # 0
      BY <1>0, <2>3 DEF DecryptIgnored, Asks317, SharedTypeOK, Calls
    <3> QED
      BY <1>0, <3>1 DEF Tidy
  <2>4. CASE Die(p)
    <3>1. /\ tidy /\ UNCHANGED <<module, planted, init, fault, raced>>
          /\ pc'[p] = "dead" /\ pc[p] = "user" /\ depth'[p] = 0
      BY <1>0, <2>4 DEF Die, AtUser, Goto, globals, SharedTypeOK
    <3>2. \A q \in Procs : q # p => pc'[q] = pc[q] /\ depth'[q] = depth[q] /\ mem'[q] = mem[q]
      BY <1>0, <2>4 DEF Die, Goto, SharedTypeOK
    <3>3. \A q \in Procs : q # p => Gone(q)' = Gone(q)
      BY <3>2 DEF Gone
    <3> QED
      BY <1>0, <3>1, <3>2, <3>3 DEF Tidy
  <2>5. CASE EncryptEnter(p)
    <3>1. tidy /\ module = "in" /\ ~raced'
      BY <2>5 DEF EncryptEnter
    <3>2. /\ UNCHANGED <<module, planted, init, fault, mem>>
          /\ pc[p] = "user" /\ depth'[p] = depth[p] + 1
      BY <1>0, <2>5 DEF EncryptEnter, Asks316, AtUser, globals, SharedTypeOK
    <3>3. /\ \A q \in Procs : q # p => pc'[q] = pc[q] /\ depth'[q] = depth[q]
          /\ pc'[p] = IF init = 0 THEN "init" ELSE "check"
      BY <1>0, <2>5 DEF EncryptEnter, Asks316, Goto, SharedTypeOK
    <3>0. depth[p] \in Int
      BY <1>0 DEF SharedTypeOK
    <3>4. \A q \in Procs : Gone(q)' = Gone(q) /\ (pc'[q] # "dead" => pc[q] # "dead")
      BY <3>0, <3>2, <3>3 DEF Gone
    <3>5. init' = 0 => \A q \in Procs : pc'[q] = "init" \/ depth'[q] = 0
      BY <1>0, <3>1, <3>2, <3>3 DEF Tidy
    <3> QED
      BY <1>0, <3>1, <3>2, <3>4, <3>5 DEF Tidy
  <2>6. CASE DecryptEnter(p)
    <3>1. tidy /\ ~raced'
      BY <2>6 DEF DecryptEnter
    <3>2. /\ UNCHANGED <<module, planted, init, fault, mem>> /\ init # 0
          /\ pc[p] = "user" /\ depth'[p] = depth[p] - 1 /\ depth[p] # 0
      BY <1>0, <2>6 DEF DecryptEnter, Asks317, AtUser, globals, SharedTypeOK
    <3>3. /\ \A q \in Procs : q # p => pc'[q] = pc[q] /\ depth'[q] = depth[q]
          /\ pc'[p] = "uncount"
      BY <1>0, <2>6 DEF DecryptEnter, Asks317, Goto, SharedTypeOK
    <3>0. depth[p] \in Int
      BY <1>0 DEF SharedTypeOK
    <3>4. \A q \in Procs : Gone(q)' = Gone(q) /\ (pc'[q] # "dead" => pc[q] # "dead")
      BY <3>0, <3>2, <3>3 DEF Gone
    <3>5. module = "in"
      BY <1>0, <3>1, <3>2 DEF Tidy
    <3> QED
      BY <1>0, <3>1, <3>2, <3>4, <3>5 DEF Tidy
  <2>7. CASE Stages(p)
    BY <2>7, StagesTidy
  <2>8. CASE EncryptHide(p)
    <3>1. /\ tidy /\ UNCHANGED <<module, planted, init, depth, fault, raced>> /\ pc[p] = "hide"
          /\ mem' = [mem EXCEPT ![p][depth[p]] = Fill]
      BY <2>8 DEF EncryptHide, At
    <3>2. pc'[p] = "user" /\ \A q \in Procs : q # p => pc'[q] = pc[q]
      BY <1>0, <2>8 DEF EncryptHide, Return, Goto, SharedTypeOK
    <3>3. \A q \in Procs : q # p => Gone(q)' = Gone(q) /\ mem'[q] = mem[q]
      BY <1>0, <3>1, <3>2 DEF Gone, SharedTypeOK
    <3>4. Gone(p) = depth[p] - 1 /\ Gone(p)' = depth[p]
      BY <3>1, <3>2 DEF Gone
    <3>5. \A d \in 1 .. Levels : mem'[p][d] = IF d <= depth[p] THEN Fill ELSE <<p, d>>
      <4>1. \A d \in 1 .. Levels : mem[p][d] = IF d <= depth[p] - 1 THEN Fill ELSE <<p, d>>
        BY <1>0, <3>1, <3>4 DEF Tidy
      <4>2. \A d \in 1 .. Levels : mem'[p][d] = IF d = depth[p] THEN Fill ELSE mem[p][d]
        BY <1>0, <3>1 DEF SharedTypeOK
      <4>3. depth[p] \in Int /\ Levels \in Nat
        BY <1>0, SharedAssumption DEF SharedTypeOK
      <4> QED
        BY <4>1, <4>2, <4>3
    <3>6. init # 0
      BY <1>0, <3>1 DEF Stacks, Tidy, InKernel
    <3> QED
      BY <1>0, <3>1, <3>2, <3>3, <3>4, <3>5, <3>6 DEF Tidy
  <2>9. CASE DecryptRestore(p)
    <3>1. /\ tidy /\ UNCHANGED <<module, planted, init, depth, fault, raced>> /\ pc[p] = "restore"
          /\ mem' = [mem EXCEPT ![p] = Restored(mem[p], sbuf_stack[reg[p]])]
      BY <2>9 DEF DecryptRestore, At
    <3>2. pc'[p] = "user" /\ \A q \in Procs : q # p => pc'[q] = pc[q]
      BY <1>0, <2>9 DEF DecryptRestore, Return, Goto, SharedTypeOK
    <3>3. \A q \in Procs : q # p => Gone(q)' = Gone(q) /\ mem'[q] = mem[q]
      BY <1>0, <3>1, <3>2 DEF Gone, SharedTypeOK
    <3>4. Gone(p) = depth[p] + 1 /\ Gone(p)' = depth[p]
      BY <3>1, <3>2 DEF Gone
    <3>5. Midway(p)
      BY <1>0, <3>1, OnlyOne DEF Tidy
    <3>6. Held(p, reg[p]) /\ init # 0
      BY <3>1, <3>5 DEF Midway
    <3>7. sbuf_stack[reg[p]] = <<[level |-> depth[p] + 1, data |-> <<p, depth[p] + 1>>]>>
      <4>1. sbuf_stack[reg[p]] \in Seq(Piece) /\ Len(sbuf_stack[reg[p]]) = 1
        BY <1>0, <3>6 DEF Held, SharedTypeOK
      <4> QED
        BY <3>1, <3>6, <4>1 DEF Held
    <3>8. mem'[p] = [d \in 1 .. Levels |-> IF d = depth[p] + 1 THEN <<p, depth[p] + 1>> ELSE mem[p][d]]
      <4>1. mem'[p] = Restored(mem[p], sbuf_stack[reg[p]])
        BY <1>0, <3>1 DEF SharedTypeOK
      <4> QED
        BY <3>7, <4>1, RestoredOne
    <3>9. \A d \in 1 .. Levels : mem'[p][d] = IF d <= depth[p] THEN Fill ELSE <<p, d>>
      <4>1. \A d \in 1 .. Levels : mem[p][d] = IF d <= depth[p] + 1 THEN Fill ELSE <<p, d>>
        BY <1>0, <3>1, <3>4 DEF Tidy
      <4>2. depth[p] \in Int /\ Levels \in Nat
        BY <1>0, SharedAssumption DEF SharedTypeOK
      <4>3. \A d \in 1 .. Levels :
               mem'[p][d] = IF d = depth[p] + 1 THEN <<p, depth[p] + 1>> ELSE mem[p][d]
        BY <3>8
      <4> QED
        BY <4>1, <4>2, <4>3
    <3> QED
      BY <1>0, <3>1, <3>2, <3>3, <3>4, <3>6, <3>9 DEF Tidy
  <2>10. CASE EncryptHideOld(p) \/ DecryptRestoreOld(p)
    <3>1. tidy' = tidy /\ raced
      BY <2>10, OldRaced DEF IInv, EncryptHideOld, DecryptRestoreOld
    <3> QED
      BY <1>0, <3>1 DEF Tidy
  <2> QED
    BY <1>3, <2>1, <2>2, <2>3, <2>4, <2>5, <2>6, <2>7, <2>8, <2>9, <2>10
    DEF Encrypt, Decrypt, Breaks, Stages
<1> QED
  BY <1>1, <1>2, <1>3, <1>4 DEF Next

(* The theorems. *)
LEMMA InitIInv == Init => IInv
<1> SUFFICES ASSUME Init PROVE IInv
  OBVIOUS
<1> USE SharedAssumption DEF Init, Loaded
<1>1. InKernel = {} /\ Critical = {} /\ \A p \in Procs : pc[p] = "user"
  BY DEF InKernel, Critical
<1>2. IsFiniteSet(InKernel) /\ Cardinality(InKernel) = 0
  BY <1>1, FS_EmptySet
<1>3. mem \in [Procs -> [1 .. Levels -> Frame \cup {Fill}]]
  BY DEF Frame
<1>4. SharedTypeOK
  <2>1. raced \in BOOLEAN /\ tidy \in BOOLEAN
    OBVIOUS
  <2>2. Cardinality(InKernel) <= Cpus
    BY <1>2
  <2>3. planted \in {{}, {"encrypt"}} /\ module = "out"
    OBVIOUS
  <2>4. sbuf_stack \in [0 .. SbufDepth - 1 -> Seq(Piece)]
    BY DEF Empty
  <2>5. call_stack \in [0 .. CallDepth - 1 -> Frame \cup {<<>>}]
    OBVIOUS
  <2>6. /\ init \in {0, 1} /\ call_stack_top \in Int /\ sbuf_stack_top \in Int
        /\ pc \in [Procs -> {"user"}] /\ reg \in [Procs -> Int] /\ depth \in [Procs -> 0 .. Levels]
    OBVIOUS
  <2>7. old \in [Procs -> Replaced]
    BY DEF Replaced, NoneReplaced, Empty
  <2> HIDE DEF Init, Loaded
  <2> QED
    BY <1>3, <2>1, <2>2, <2>3, <2>4, <2>5, <2>6, <2>7 DEF SharedTypeOK
<1>5. Handlers
  BY <1>1, <1>2 DEF Handlers, Encrypting, Decrypting
<1>6. Level
  BY <1>1 DEF Level, Records, Below, Unused, Empty
<1>7. Stacks
  BY <1>1, <1>6 DEF Stacks
<1>8. Tidy
  BY <1>1 DEF Tidy, Gone, Encrypting, Decrypting
<1>9. Current
  BY DEF Current, UsesOld, NoneReplaced
<1> QED
  BY <1>4, <1>5, <1>7, <1>8, <1>9 DEF IInv

(* Where every handler stands and what that means for the records, the buffers and the *)
(* two tops: the inductive invariant of the handlers on the shared globals.            *)
THEOREM SharedInvariant == Spec => []IInv
<1>1. IInv /\ [Next]_vars => IInv'
  BY TypeStep, StacksStep, CurrentStep, TidyStep DEF IInv
<1> QED
  BY <1>1, InitIInv, PTL DEF Spec

(* The tops are integers, a record is a frame or nothing, a buffer holds pieces, and no   *)
(* more handlers run than there are processors, raced or not.                            *)
THEOREM SharedTypeCorrect == Spec => []SharedTypeOK
<1>1. IInv => SharedTypeOK
  BY DEF IInv
<1> QED
  BY <1>1, SharedInvariant, PTL

(* call_stack[] and sbuf_stack[] stay paired as long as no handler starts inside the      *)
(* critical section of another, for any number of programs, processors and slots: the    *)
(* load and the store of each top++ and --top may be interleaved with copies, deaths and *)
(* reloads.                                                                              *)
THEOREM PairedHolds == Spec => []Paired
<1>1. IInv => Paired
  <2> SUFFICES ASSUME IInv, ~raced, InKernel = {}
               PROVE  /\ call_stack_top = sbuf_stack_top /\ call_stack_top <= CallDepth
                      /\ \A n \in DOMAIN call_stack : call_stack[n] # <<>> <=> n < call_stack_top
                      /\ \A n \in DOMAIN sbuf_stack :
                            IF n < sbuf_stack_top
                            THEN /\ Len(sbuf_stack[n]) = 1
                                 /\ sbuf_stack[n][1].level = call_stack[n][2]
                            ELSE sbuf_stack[n] = <<>>
    BY DEF Paired
  <2>1. SharedTypeOK /\ Level
    BY DEF IInv, Stacks, Critical
  <2>2. \A q \in Procs : pc[q] # "hide"
    BY DEF InKernel
  <2>3. Records(call_stack_top) /\ Below(call_stack_top) /\ Unused(call_stack_top)
    BY <2>1 DEF Level
  <2>4. \A n \in 0 .. call_stack_top - 1 : Kept(n)
    BY <2>2, <2>3 DEF Below
  <2>5. call_stack_top = sbuf_stack_top /\ call_stack_top <= CallDepth
    BY <2>1, <2>3, SharedAssumption DEF Level, Records
  <2>6. \A n \in DOMAIN call_stack : call_stack[n] # <<>> <=> n < call_stack_top
    BY <2>1, <2>3 DEF Records, SharedTypeOK
  <2>7. \A n \in DOMAIN sbuf_stack : n < call_stack_top => Kept(n)
    BY <2>1, <2>4, SharedAssumption DEF SharedTypeOK
  <2>8. \A n \in DOMAIN sbuf_stack : ~(n < call_stack_top) => sbuf_stack[n] = <<>>
    BY <2>1, <2>3, SharedAssumption DEF Unused, SharedTypeOK
  <2> QED
    BY <2>5, <2>6, <2>7, <2>8 DEF Kept
<1> QED
  BY <1>1, SharedInvariant, PTL

(* Programs that nest their requests properly get their own data back, each of them,      *)
(* however many share the two stacks, and the only fault they can meet is the overflow of *)
(* one of the two arrays.                                                                 *)
THEOREM OwnFrameHolds == Spec => []OwnFrame
<1>1. IInv => OwnFrame
  <2> SUFFICES ASSUME IInv, tidy
               PROVE  /\ fault \in {"none", "overflow"}
                      /\ \A p \in Procs : pc[p] = "user" =>
                            \A d \in 1 .. Levels : mem[p][d] = IF d <= depth[p] THEN Fill ELSE <<p, d>>
    BY DEF OwnFrame
  <2>1. \A p \in Procs : pc[p] = "user" => Gone(p) = depth[p] /\ pc[p] # "dead"
    BY DEF Gone, Encrypting, Decrypting
  <2> QED
    BY <2>1 DEF IInv, Tidy
<1> QED
  BY <1>1, SharedInvariant, PTL
=============================================================================
