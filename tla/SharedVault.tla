---------------------------- MODULE SharedVault -----------------------------
(***************************************************************************)
(* Several protected programs on the globals of kernel_probe/jprobe.c.     *)
(* call_stack[], sbuf_stack[], their tops and init belong to nobody and    *)
(* have no lock.  StackVault follows one program cell by cell; here a      *)
(* frame is one piece of data, and what is followed is who gets which      *)
(* record and which buffer when programs run on several processors, die    *)
(* between encrypt and decrypt, and the module is loaded and unloaded      *)
(* under them.                                                             *)
(*                                                                         *)
(* Each access to a top is a step of its own: top++ is a load and a store. *)
(* A handler is not preempted, so at most Cpus handlers run at a time.     *)
(* All programs are the same executable (path_to_exe), so the d-th nested  *)
(* frame of each lies at the same addresses.                               *)
(***************************************************************************)
EXTENDS Integers, FiniteSets, Sequences

CONSTANTS
    Procs,       \* processes that run the protected executable
    Levels,      \* how deep one of them nests its encrypts
    Cpus,        \* processors
    CallDepth,   \* slots of call_stack[]
    SbufDepth,   \* slots of sbuf_stack[]
    Fill         \* what memset(.., '0', ..) leaves of a frame

Frame == Procs \X (1 .. Levels)

ASSUME SharedAssumption ==
    /\ Levels \in Nat \ {0} /\ Cpus \in Nat \ {0}
    /\ CallDepth \in Nat \ {0} /\ SbufDepth \in Nat \ {0}
    /\ Fill \notin Frame

VARIABLES
    module,                       \* "out", "loading", "in" or "leaving"
    planted,                      \* the system calls that have a jprobe
    init,
    call_stack, call_stack_top,   \* a record is the frame it was made for; <<>>: none, or a released one
    sbuf_stack, sbuf_stack_top,   \* a buffer is the pieces it holds
    old,                          \* the buffers that each process has replaced, and who still uses them
    pc,                           \* where each process is: "user" outside the kernel
    reg,                          \* the value a handler has loaded from a top
    depth,                        \* encrypts a process has not asked a decrypt for
    mem,                          \* what is in the frames of each process
    fault,
    raced,                        \* history: a handler started inside another one's critical section
    tidy                          \* history: none did, and every decrypt found its own record on top

globals == <<init, call_stack, call_stack_top, sbuf_stack, sbuf_stack_top, old>>
vars == <<module, planted, init, call_stack, call_stack_top, sbuf_stack, sbuf_stack_top, old,
          pc, reg, depth, mem, fault, raced, tidy>>

Calls == {"encrypt", "decrypt"}
Piece == [level : 1 .. Levels, data : Frame \cup {Fill}]
Empty == [n \in 0 .. SbufDepth - 1 |-> <<>>]
Replaced == [users : SUBSET Procs, bufs : [0 .. SbufDepth - 1 -> Seq(Piece)]]
NoneReplaced == [users |-> {}, bufs |-> Empty]

(* The static data of a module that has just been loaded. *)
Loaded(i, cs, cst, sb, sbt) ==
    /\ i = 0 /\ cs = [n \in 0 .. CallDepth - 1 |-> <<>>] /\ cst = 0
    /\ sb = Empty /\ sbt = 0

Init ==
    /\ module = "out" /\ planted = {}
    /\ Loaded(init, call_stack, call_stack_top, sbuf_stack, sbuf_stack_top)
    /\ old = [p \in Procs |-> NoneReplaced]
    /\ pc = [p \in Procs |-> "user"] /\ reg = [p \in Procs |-> 0]
    /\ depth = [p \in Procs |-> 0]
    /\ mem = [p \in Procs |-> [d \in 1 .. Levels |-> <<p, d>>]]
    /\ fault = "none" /\ raced = FALSE /\ tidy = TRUE

InKernel   == {p \in Procs : pc[p] \notin {"user", "dead"}}
Goto(p, l) == pc' = [pc EXCEPT ![p] = l]
Load(p, v) == reg' = [reg EXCEPT ![p] = v]
Return(p)  == Goto(p, "user") /\ Load(p, 0)
HasCpu     == Cardinality(InKernel) < Cpus

(* An encrypt that has its buffer only copies into it; up to there, and in a decrypt up  *)
(* to its end, the globals are in use.                                                   *)
Critical   == {p \in InKernel : pc[p] # "hide"}
AtUser(p)  == pc[p] = "user" /\ fault = "none"
At(p, l)   == pc[p] = l /\ fault = "none"

Break(f) == /\ fault' = f
            /\ UNCHANGED <<module, planted, globals, pc, reg, depth, mem, raced, tidy>>
-----------------------------------------------------------------------------
(* insmod and rmmod.  The probes are planted and removed one after the other.         *)
(* unregister_jprobe() disarms the probe and then waits until the handlers that are   *)
(* running have ended, so the module is released only when none runs.                 *)
jprobe_init ==
    /\ module = "out" /\ planted = {} /\ fault = "none"
    /\ module' = "loading" /\ planted' = {"encrypt"}
    /\ Loaded(init', call_stack', call_stack_top', sbuf_stack', sbuf_stack_top')
    /\ tidy' = (tidy /\ \A p \in Procs : depth[p] = 0)
    /\ UNCHANGED <<old, pc, reg, depth, mem, fault, raced>>

jprobe_init_second ==
    /\ module = "loading" /\ fault = "none"
    /\ module' = "in" /\ planted' = Calls
    /\ UNCHANGED <<globals, pc, reg, depth, mem, fault, raced, tidy>>

(* If the second probe cannot be planted the load fails with the first one left behind, *)
(* and the module is released, even under an encrypt that has begun meanwhile.          *)
jprobe_init_fails ==
    /\ module = "loading" /\ fault = "none" /\ InKernel = {}
    /\ module' = "out" /\ tidy' = FALSE
    /\ UNCHANGED <<planted, globals, pc, reg, depth, mem, fault, raced>>

jprobe_init_fails_under ==
    /\ module = "loading" /\ fault = "none" /\ InKernel # {}
    /\ fault' = "dangling" /\ tidy' = FALSE
    /\ UNCHANGED <<module, planted, globals, pc, reg, depth, mem, raced>>

jprobe_exit ==
    /\ module = "in" /\ fault = "none"
    /\ module' = "leaving" /\ planted' = {"decrypt"}
    /\ tidy' = (tidy /\ \A p \in Procs : depth[p] = 0)
    /\ UNCHANGED <<globals, pc, reg, depth, mem, fault, raced>>

Encrypting == {"init", "check", "push", "count", "counted", "take", "taken", "hide"}
Ended316 == \A p \in Procs : pc[p] \notin Encrypting

(* Mutant: only one probe is removed. *)
jprobe_exit_forgets ==
    /\ module = "leaving" /\ planted = {"decrypt"} /\ Ended316 /\ fault = "none"
    /\ module' = "out"
    /\ UNCHANGED <<planted, globals, pc, reg, depth, mem, fault, raced, tidy>>

jprobe_exit_second ==
    /\ module = "leaving" /\ planted = {"decrypt"} /\ Ended316 /\ fault = "none"
    /\ planted' = {}
    /\ UNCHANGED <<module, globals, pc, reg, depth, mem, fault, raced, tidy>>

jprobe_exit_done ==
    /\ module = "leaving" /\ planted = {} /\ InKernel = {} /\ fault = "none"
    /\ module' = "out"
    /\ UNCHANGED <<planted, globals, pc, reg, depth, mem, fault, raced, tidy>>

(* A process is killed outside the handlers; nothing tells the module. *)
Die(p) ==
    /\ AtUser(p)
    /\ Goto(p, "dead")
    /\ depth' = [depth EXCEPT ![p] = 0]
    /\ mem' = [mem EXCEPT ![p] = [d \in 1 .. Levels |-> Fill]]
    /\ UNCHANGED <<module, planted, globals, reg, fault, raced, tidy>>
-----------------------------------------------------------------------------
(* jsys_encrypt_stack *)
Asks316(p) == AtUser(p) /\ depth[p] < Levels /\ depth' = [depth EXCEPT ![p] = @ + 1]

(* Without a probe, 316 is the empty system call of the kernel patch. *)
EncryptIgnored(p) ==
    /\ Asks316(p) /\ "encrypt" \notin planted
    /\ tidy' = FALSE
    /\ UNCHANGED <<module, planted, globals, pc, reg, mem, fault, raced>>

(* The probe of a module whose load failed leads into released memory. *)
EncryptDangling(p) ==
    /\ AtUser(p) /\ depth[p] < Levels /\ "encrypt" \in planted /\ module = "out"
    /\ Break("dangling")

EncryptEnter(p) ==
    /\ Asks316(p) /\ "encrypt" \in planted /\ module # "out" /\ HasCpu
    /\ Goto(p, IF init = 0 THEN "init" ELSE "check")
    /\ raced' = (raced \/ Critical # {})
    /\ tidy' = (tidy /\ module = "in" /\ ~raced')
    /\ UNCHANGED <<module, planted, globals, reg, mem, fault>>

(* The slot's pointer is read once, before the loop: a handler that is in its loop keeps *)
(* the buffer it has when another one replaces the slots.                               *)
UsesOld(p) == \E b \in Procs : p \in old[b].users
Looping    == {p \in InKernel : pc[p] \in {"hide", "restore"} /\ ~UsesOld(p)}

(* Whoever saw init = 0 builds all buffers anew. *)
EncryptInit(p) ==
    /\ At(p, "init")
    /\ sbuf_stack' = Empty /\ init' = 1
    /\ old' = IF Looping = {} THEN old ELSE [old EXCEPT ![p] = [users |-> Looping, bufs |-> sbuf_stack]]
    /\ Goto(p, "check")
    /\ UNCHANGED <<module, planted, call_stack, call_stack_top, sbuf_stack_top,
                   reg, depth, mem, fault, raced, tidy>>

(* The record of the caller is read, for a warning only. *)
Record(n) == IF n \in DOMAIN call_stack THEN call_stack[n] ELSE <<>>
CallerGone == call_stack_top > 0 /\ Record(call_stack_top - 1) = <<>>

EncryptCheckWild(p) == At(p, "check") /\ CallerGone /\ Break("use_after_free")

EncryptCheck(p) ==
    /\ At(p, "check") /\ ~CallerGone
    /\ Goto(p, "push")
    /\ UNCHANGED <<module, planted, globals, reg, depth, mem, fault, raced, tidy>>

EncryptPush(p) ==
    /\ At(p, "push") /\ call_stack_top \in DOMAIN call_stack
    /\ call_stack' = [call_stack EXCEPT ![call_stack_top] = <<p, depth[p]>>]
    /\ Goto(p, "count")
    /\ UNCHANGED <<module, planted, init, call_stack_top, sbuf_stack, sbuf_stack_top, old,
                   reg, depth, mem, fault, raced, tidy>>

EncryptPushOverflow(p) ==
    At(p, "push") /\ call_stack_top \notin DOMAIN call_stack /\ Break("overflow")

(* call_stack_top++ *)
EncryptCount(p) ==
    /\ At(p, "count")
    /\ Load(p, call_stack_top) /\ Goto(p, "counted")
    /\ UNCHANGED <<module, planted, globals, depth, mem, fault, raced, tidy>>

EncryptCounted(p) ==
    /\ At(p, "counted")
    /\ call_stack_top' = reg[p] + 1 /\ Goto(p, "take")
    /\ UNCHANGED <<module, planted, init, call_stack, sbuf_stack, sbuf_stack_top, old,
                   reg, depth, mem, fault, raced, tidy>>

(* sbuf_stack[sbuf_stack_top++] *)
EncryptTake(p) ==
    /\ At(p, "take")
    /\ Load(p, sbuf_stack_top) /\ Goto(p, "taken")
    /\ UNCHANGED <<module, planted, globals, depth, mem, fault, raced, tidy>>

EncryptTaken(p) ==
    /\ At(p, "taken")
    /\ sbuf_stack_top' = reg[p] + 1 /\ Goto(p, "hide")
    /\ UNCHANGED <<module, planted, init, call_stack, call_stack_top, sbuf_stack, old,
                   reg, depth, mem, fault, raced, tidy>>

(* Mutant: the frame is wiped before it is copied. *)
EncryptHideWiped(p) ==
    LET d == depth[p]
    IN  /\ At(p, "hide") /\ reg[p] \in DOMAIN sbuf_stack /\ ~UsesOld(p)
        /\ mem' = [mem EXCEPT ![p][d] = Fill]
        /\ sbuf_stack' = [sbuf_stack EXCEPT ![reg[p]] = Append(@, [level |-> d, data |-> mem'[p][d]])]
        /\ Return(p)
        /\ UNCHANGED <<module, planted, init, call_stack, call_stack_top, sbuf_stack_top, old,
                       depth, fault, raced, tidy>>

(* The loop over the frame: what is copied out is overwritten. *)
EncryptHide(p) ==
    LET d == depth[p]
    IN  /\ At(p, "hide") /\ reg[p] \in DOMAIN sbuf_stack /\ ~UsesOld(p)
        /\ sbuf_stack' = [sbuf_stack EXCEPT ![reg[p]] = Append(@, [level |-> d, data |-> mem[p][d]])]
        /\ mem' = [mem EXCEPT ![p][d] = Fill]
        /\ Return(p)
        /\ UNCHANGED <<module, planted, init, call_stack, call_stack_top, sbuf_stack_top, old,
                       depth, fault, raced, tidy>>

(* p leaves the old buffers, the one it used holding `pieces' now. *)
Replacer(p) == CHOOSE b \in Procs : p \in old[b].users
OldBuf(p)   == old[Replacer(p)].bufs[reg[p]]

LeaveOld(p, pieces) ==
    old' = [old EXCEPT ![Replacer(p)] =
              IF @.users = {p} THEN NoneReplaced
              ELSE [users |-> @.users \ {p}, bufs |-> [@.bufs EXCEPT ![reg[p]] = pieces]]]

(* What goes into a buffer that was replaced is lost, but for who else still has it. *)
EncryptHideOld(p) ==
    LET d == depth[p]
    IN  /\ At(p, "hide") /\ reg[p] \in DOMAIN sbuf_stack /\ UsesOld(p)
        /\ LeaveOld(p, Append(OldBuf(p), [level |-> d, data |-> mem[p][d]]))
        /\ mem' = [mem EXCEPT ![p][d] = Fill]
        /\ Return(p)
        /\ UNCHANGED <<module, planted, init, call_stack, call_stack_top, sbuf_stack, sbuf_stack_top,
                       depth, fault, raced, tidy>>

EncryptHideOverflow(p) == At(p, "hide") /\ reg[p] \notin DOMAIN sbuf_stack /\ Break("overflow")
-----------------------------------------------------------------------------
(* jsys_decrypt_stack *)
Asks317(p) == AtUser(p) /\ depth[p] > 0 /\ depth' = [depth EXCEPT ![p] = @ - 1]

DecryptIgnored(p) ==
    /\ Asks317(p) /\ "decrypt" \notin planted
    /\ UNCHANGED <<module, planted, globals, pc, reg, mem, fault, raced, tidy>>

DecryptNoMapper(p) ==
    /\ AtUser(p) /\ depth[p] > 0 /\ "decrypt" \in planted /\ init = 0
    /\ Break("null_mapper")

DecryptRefused(p) ==
    /\ Asks317(p) /\ "decrypt" \in planted /\ init = 1 /\ HasCpu
    /\ call_stack_top = 0
    /\ tidy' = FALSE
    /\ UNCHANGED <<module, planted, globals, pc, reg, mem, fault, raced>>

(* A record of another function or program is popped as well: the names are only logged. *)
DecryptEnter(p) ==
    /\ Asks317(p) /\ "decrypt" \in planted /\ init = 1 /\ HasCpu
    /\ call_stack_top # 0 /\ Record(call_stack_top - 1) # <<>>
    /\ Goto(p, "uncount")
    /\ raced' = (raced \/ Critical # {} \/ \E q \in InKernel : Record(call_stack_top - 1) = <<q, depth[q]>>)
    /\ tidy' = (tidy /\ ~raced' /\ Record(call_stack_top - 1) = <<p, depth[p]>>)
    /\ UNCHANGED <<module, planted, globals, reg, mem, fault>>

DecryptEnterWild(p) ==
    /\ AtUser(p) /\ depth[p] > 0 /\ "decrypt" \in planted /\ init = 1
    /\ HasCpu
    /\ call_stack_top # 0 /\ Record(call_stack_top - 1) = <<>>
    /\ Break("use_after_free")

(* call_stack_top-- *)
DecryptUncount(p) ==
    /\ At(p, "uncount")
    /\ Load(p, call_stack_top - 1) /\ Goto(p, "uncounted")
    /\ UNCHANGED <<module, planted, globals, depth, mem, fault, raced, tidy>>

DecryptUncounted(p) ==
    /\ At(p, "uncounted")
    /\ call_stack_top' = reg[p] /\ Goto(p, "pop")
    /\ UNCHANGED <<module, planted, init, call_stack, sbuf_stack, sbuf_stack_top, old,
                   reg, depth, mem, fault, raced, tidy>>

(* Mutant: a record of another program is released, but its buffer stays. *)
DecryptPopMismatch(p) ==
    /\ At(p, "pop") /\ Record(reg[p]) # <<>>
    /\ call_stack' = [call_stack EXCEPT ![reg[p]] = <<>>]
    /\ IF Record(reg[p])[1] = p THEN Goto(p, "untake") /\ UNCHANGED reg ELSE Return(p)
    /\ UNCHANGED <<module, planted, init, call_stack_top, sbuf_stack, sbuf_stack_top, old,
                   depth, mem, fault, raced, tidy>>

(* The record is released.  The compiler may keep the index or read the top again. *)
DecryptPop(p) ==
    /\ At(p, "pop")
    /\ \E n \in {reg[p], call_stack_top} :
          /\ Record(n) # <<>>
          /\ call_stack' = [call_stack EXCEPT ![n] = <<>>]
    /\ Goto(p, "untake")
    /\ UNCHANGED <<module, planted, init, call_stack_top, sbuf_stack, sbuf_stack_top, old,
                   reg, depth, mem, fault, raced, tidy>>

DecryptPopWild(p) ==
    /\ At(p, "pop") /\ \E n \in {reg[p], call_stack_top} : Record(n) = <<>>
    /\ Break("use_after_free")

(* sbuf_stack[--sbuf_stack_top] *)
DecryptUntake(p) ==
    /\ At(p, "untake")
    /\ Load(p, sbuf_stack_top - 1) /\ Goto(p, "untaken")
    /\ UNCHANGED <<module, planted, globals, depth, mem, fault, raced, tidy>>

DecryptUntaken(p) ==
    /\ At(p, "untaken")
    /\ sbuf_stack_top' = reg[p] /\ Goto(p, "restore")
    /\ UNCHANGED <<module, planted, init, call_stack, call_stack_top, sbuf_stack, old,
                   reg, depth, mem, fault, raced, tidy>>

(* The pieces go to their addresses, in the memory of the process that asks. *)
Restored(m, pieces) ==
    [d \in 1 .. Levels |-> LET at == {n \in DOMAIN pieces : pieces[n].level = d}
                           IN  IF at = {} THEN m[d]
                               ELSE pieces[CHOOSE n \in at : \A o \in at : n >= o].data]

DecryptRestore(p) ==
    /\ At(p, "restore") /\ reg[p] \in DOMAIN sbuf_stack /\ ~UsesOld(p)
    /\ mem' = [mem EXCEPT ![p] = Restored(@, sbuf_stack[reg[p]])]
    /\ sbuf_stack' = [sbuf_stack EXCEPT ![reg[p]] = <<>>]
    /\ Return(p)
    /\ UNCHANGED <<module, planted, init, call_stack, call_stack_top, sbuf_stack_top, old,
                   depth, fault, raced, tidy>>

DecryptRestoreOld(p) ==
    /\ At(p, "restore") /\ reg[p] \in DOMAIN sbuf_stack /\ UsesOld(p)
    /\ mem' = [mem EXCEPT ![p] = Restored(@, OldBuf(p))]
    /\ LeaveOld(p, <<>>)
    /\ Return(p)
    /\ UNCHANGED <<module, planted, init, call_stack, call_stack_top, sbuf_stack, sbuf_stack_top,
                   depth, fault, raced, tidy>>

DecryptRestoreWild(p) == At(p, "restore") /\ reg[p] \notin DOMAIN sbuf_stack /\ Break("wild_buf")
-----------------------------------------------------------------------------
Encrypt(p) == \/ EncryptIgnored(p) \/ EncryptDangling(p) \/ EncryptEnter(p) \/ EncryptInit(p)
              \/ EncryptCheck(p) \/ EncryptCheckWild(p) \/ EncryptPush(p) \/ EncryptPushOverflow(p)
              \/ EncryptCount(p) \/ EncryptCounted(p)
              \/ EncryptTake(p) \/ EncryptTaken(p) \/ EncryptHide(p) \/ EncryptHideOld(p)
              \/ EncryptHideOverflow(p)

Decrypt(p) == \/ DecryptIgnored(p) \/ DecryptNoMapper(p) \/ DecryptRefused(p) \/ DecryptEnter(p)
              \/ DecryptEnterWild(p) \/ DecryptUncount(p) \/ DecryptUncounted(p)
              \/ DecryptPop(p) \/ DecryptPopWild(p)
              \/ DecryptUntake(p) \/ DecryptUntaken(p) \/ DecryptRestore(p) \/ DecryptRestoreOld(p)
              \/ DecryptRestoreWild(p)

Halted == (fault # "none" \/ \A p \in Procs : pc[p] = "dead") /\ UNCHANGED vars

Next == \/ jprobe_init \/ jprobe_init_second \/ jprobe_init_fails \/ jprobe_init_fails_under
        \/ jprobe_exit \/ jprobe_exit_second \/ jprobe_exit_done
        \/ \E p \in Procs : Encrypt(p) \/ Decrypt(p) \/ Die(p)
        \/ Halted

Spec == Init /\ [][Next]_vars
-----------------------------------------------------------------------------
(* Type invariant. *)
SharedTypeOK ==
    /\ module \in {"out", "loading", "in", "leaving"}
    /\ planted \in CASE module = "out"     -> {{}, {"encrypt"}}
                      [] module = "loading" -> {{"encrypt"}}
                      [] module = "in"      -> {Calls}
                      [] module = "leaving" -> {{"decrypt"}, {}}
    /\ init \in {0, 1}
    /\ call_stack \in [0 .. CallDepth - 1 -> Frame \cup {<<>>}]
    /\ call_stack_top \in Int /\ sbuf_stack_top \in Int
    /\ sbuf_stack \in [0 .. SbufDepth - 1 -> Seq(Piece)]
    /\ old \in [Procs -> Replaced]
    /\ pc \in [Procs -> {"user", "dead", "init", "check", "push", "count", "counted", "take", "taken", "hide",
                         "uncount", "uncounted", "pop", "untake", "untaken", "restore"}]
    /\ reg \in [Procs -> Int] /\ depth \in [Procs -> 0 .. Levels]
    /\ mem \in [Procs -> [1 .. Levels -> Frame \cup {Fill}]]
    /\ Cardinality(InKernel) <= Cpus
    /\ raced \in BOOLEAN /\ tidy \in BOOLEAN

(* As long as no handler starts inside another one's critical section, which ends for  *)
(* an encrypt when it has its buffer, and no decrypt pops the record of an encrypt that *)
(* is still copying, the two stacks stay paired: between requests they have the same    *)
(* height, every slot below it has a record of its own and the one piece of the         *)
(* function that record was made for, and no slot above it holds anything, however      *)
(* programs interleave, die or are unprotected by a reload.                             *)
Paired ==
    (~raced /\ InKernel = {} /\ fault = "none") =>
        /\ call_stack_top = sbuf_stack_top /\ call_stack_top <= CallDepth
        /\ \A n \in DOMAIN call_stack : call_stack[n] # <<>> <=> n < call_stack_top
        /\ \A n \in DOMAIN sbuf_stack :
              IF n < sbuf_stack_top
              THEN /\ Len(sbuf_stack[n]) = 1
                   /\ sbuf_stack[n][1].level = call_stack[n][2]
              ELSE sbuf_stack[n] = <<>>

(* Any number of programs may share the two stacks, and an encrypt may copy while other  *)
(* handlers run, as long as critical sections do not meet, every decrypt finds the record *)
(* of its own encrypt on top, and the module is loaded and unloaded only while nobody is *)
(* protected: then every living program finds its own data in each frame it has back and *)
(* nobody's in the frames it has hidden, and what programs killed between 316 and 317     *)
(* left on the stacks costs slots and nothing else.                                      *)
OwnFrame ==
    tidy => /\ fault \in {"none", "overflow"}
            /\ \A p \in Procs : (pc[p] = "user" /\ fault = "none") =>
                  \A d \in 1 .. Levels : mem[p][d] = IF d <= depth[p] THEN Fill ELSE <<p, d>>
=============================================================================
