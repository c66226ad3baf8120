# A TLA+ model of StackVault / memClear

StackVault hides the stack frames of a running program from the functions it calls.
A function asks the kernel to take its frame off the stack (system call 316,
"encrypt"), calls somebody else, and asks for the frame back (317, "decrypt").  The
kernel module `memClear` hooks the two calls with jprobes.  An older user-level
prototype of the same idea, a server that reaches other processes through
`/proc/<pid>/pagemap` and `/dev/mem`, is in `clear_stack/`.

This directory models the code of the repository in TLA+, checks the models with TLC
and proves the central facts with TLAPS.  Definitions keep the names of the C
functions where they stand for one.  `PROJECT.json` maps each definition to the lines
it models.

## 1. The system

| part | code | state | operations |
|---|---|---|---|
| system-call handlers | `kernel_probe/jprobe.c` | `call_stack[64]`, `sbuf_stack[16]`, their tops, `mapper`, `init`: all global, no lock | `jsys_encrypt_stack`, `jsys_decrypt_stack`, `contains`, `find_in_stack_buf`, `restore_pointers` |
| stack buffers | `kernel_probe/stack_buf.c` | a growable array of segments; a list of holes | `init_stack_buf`, `copy_stack_buf`, `restore_stack_buf` |
| module load and unload | `kernel_probe/jprobe.c` | which system calls have a probe | `jprobe_init`, `jprobe_exit` |
| symbol map | `kernel_probe/mapper.c`, `parse_elf.c`, `file_ops.c` | a growable array of functions; the ELF image while it is read | `init_mapper`, `insert_mapper`, `get_func_name`, `elf_open`, `parse`, `elf_close` |
| user-level ELF reader | `parse_elf/elf.c` | the mapped file | lists the symbols |
| XOR encryption | `kernel_probe/stack_encrypt.c` | none of its own: the frame stays in place | `encrypt_stack`, `decrypt_stack` (their calls in `jprobe.c` are commented out) |
| write probes, samples | `jprobe.c`, `kprobe.c`, `readmem.c` | none | logging; not registered |
| encrypt server, client | `clear_stack/stack_encrypt_server.c`, `_client.c` | a table of functions, one line buffer, one connection at a time | accept, receive, encrypt or decrypt, send back |
| hash table | `clear_stack/hash.c` | bins of sorted lists | `htCreate`, `htSet`, `htGet` |
| stack clearing | `clear_stack/stack_clear.c` | none | clears a frame in a compiler hook |
| call graph parser | `parser.py` | two lists of functions, one of which grows while it is gone through | finds the untrusted functions, and the frame sizes in a disassembly |
| LLVM pass | `llvm/Hello.cpp` | the module it changes, the `invoke` it has met | inserts a system call and a call of `invoke` behind each call of `multi` |
| kernel patches | `kernel_patches/` | none | the empty system calls; `para_t` |
| examples, benchmarks | `test/` | the program's own | call 316 and 317 around a call |

How they interact.  A program builds a `para_list_t` that names the parameters its
callee needs: by value (`pointer == 0`) or through so many levels of pointers.  The
encrypt handler finds the caller's name in the symbol map (built by the first request),
pushes a record on `call_stack`, takes a buffer from `sbuf_stack`, goes through the
frame cell by cell, copies everything but the by-value parameters into the buffer and
overwrites it with `'0'`.  Then it goes through the list again and gives pointers and
their targets back, leaving a hole in the buffer for each.  The decrypt handler pops
both stacks and copies the buffer back around the holes, so that what the callee wrote
through a pointer stays.

What is hard.  Nested and recursive use (frames come back in the opposite order, callees
store in given-back cells of callers); two fixed arrays of different size; arrays that
are reallocated under somebody's pointer; a list that the kernel modifies and the
program may use again; error paths that return early with half of the work done; a
request refused and its decrypt carried out; requests in an order nobody wrote; several
processes on globals without a lock, processes that die between the two calls, a module
that is unloaded while frames are hidden.  For the tools: loops over what they change.
For the server: clients that die at any moment, one buffer for all connections, a hash that
starts from an uninitialised value.  `PROJECT.json` lists them as hazards at their lines.

What makes each part correct.

* Handlers: a hidden cell is hidden from encrypt to decrypt; exactly the cells outside
  the granted parameters are hidden; decrypt gives the frame of the caller back as the
  program would have it without protection; no request breaks the kernel; every request
  returns.
* Stack buffers: the look-up finds a segment exactly if there is one; growth loses
  nothing and leaves no dangling pointer; restore steps over holes.
* Shared globals: the two kernel stacks stay paired, and each program gets its own data.
* Symbol map: it holds the symbols read so far, uses nothing after its release and loses
  nothing while it grows, and attributes an instruction pointer to the right function;
  both ELF readers see the same table.
* XOR encryption: a cell is its plain value under exactly the keys that are on it.
* Compiler side: what has to be instrumented is found, nothing else is, and it is
  instrumented once.
* Hash table: it is a map, as far as its hash is a function of the key.
* Server: nobody gets another client's answer, nobody waits for ever, a decrypt needs an
  encrypt; the walk over physical memory stays in the range it was given.

## 2. Modules

| module | models | composed of |
|---|---|---|
| `StackBuf` | stack buffers as operators | |
| `FrameVault` | what protection promises (abstract) | |
| `StackVault` | the two handlers and one protected program | extends `StackBuf`, implements `FrameVault` |
| `SharedVault` | several programs, the module's load and unload, on the same globals | the coarse counterpart of `StackVault`: a frame is one datum |
| `ElfFile` | an executable as both readers see it | |
| `SymbolMap` | loading and searching the symbol map | extends `ElfFile`; its result is `StackVault`'s `LoadMapper` |
| `ElfLister` | the user-level reader | extends `ElfFile` |
| `SymbolReaders` | both readers on the same file | extends `SymbolMap`, instantiates `ElfLister` |
| `XorVault` | `stack_encrypt.c` and a program that stores meanwhile | |
| `CallGraph` | `parser.py` | |
| `HelloPass` | the LLVM pass | |
| `Tools` | both tools, one after the other | extends `CallGraph`, instantiates `HelloPass` |
| `KeyMap` | what a table promises (abstract) | |
| `HashTable` | `hash.c` | implements `KeyMap` |
| `EncryptServer` | server and clients | extends `HashTable` |
| `StackAreas` | `get_stack_areas`, `encrypt_stack` | called by the server |
| `MC*` | instances for TLC | |
| `NumberFacts` | lemmas about numbers that several proofs use | |
| `*Proofs` | theorems | each extends its module; `StackVaultProofs` has those about `StackBuf`, `EncryptServerProofs` those about `HashTable` |

Definitions whose comment starts with "Mutant" are variants of a definition with a
plausible mistake.  They are used by no specification; each shows that a property can
fail.

### StackBuf and StackVault

Memory is counted in cells the size of a pointer; what the bytes of a cell are is a
model value or, when it is used as a pointer, a cell number.  `Fill` is the pattern that
`memset(.., '0', ..)` leaves.  The kernel's copy of a segment is indexed by the stack
cells it came from, so that the C expression `buf + (addr - start)` is the pair of a
segment and a cell.  `freed` says that the array was reallocated: `copy_stack_buf`
updates the caller's local pointer, and `sbuf_stack[]` keeps the old one.

`mem` is the stack, `acts` the active functions of the program (innermost last, with the
list they built and whether they are between 316 and 317), `call_stack` and `sbuf_stack`
the kernel's stacks.  A handler is atomic for the program but not for the properties:
`pc` with `i`, `prev_rsp`, `k` and `addr_in_stack` are its locals, and each iteration of
its loops is one action.

| action | code |
|---|---|
| `EncryptRefused` | NULL name, or rbp below rsp |
| `EncryptEnter`, `EncryptOverflow` | the push on both stacks, within and beyond the arrays |
| `ScanParameter`, `ScanLast`, `ScanCell`, `ScanDone` | the loop over the frame; `TakeOff` is `copy_stack_buf` with its failure, then `memset` |
| `PassByValue`, `PassPointer`, `PassPointerStale`, `PassPointerMissing`, `FollowPointer`, `FollowPointerMissing`, `PassObject` | `restore_pointers` |
| `DecryptNoMapper`, `DecryptRefused`, `DecryptNoName`, `DecryptEnter` | `jsys_decrypt_stack` up to the restore |
| `RestoreSegment`, `RestoreUndefined`, `DecryptReturn` | `restore_stack_buf` |
| `Call`, `Return`, `Store` | the program, as the examples under `test/` behave |

A dereference of NULL or of released memory, an index outside an array and a `memcpy`
with a meaningless length set `fault`, after which nothing is claimed (`Halted`).

The program keeps to three rules, which the examples follow: frames of callees lie below
their callers', a function that asked for an encrypt asks for the decrypt before it
returns, and nobody stores in a hidden cell.  The last is a guard of `Store`: a callee
that writes in its caller's hidden frame loses the write at decrypt, by design.

What the program puts in its list is unrestricted: `pointer` is a C `int` (`CInt`, with
`IntLimit` in place of 2^31; counting down goes round, `Below`), so that a negative number
of levels is a request like any other, and an object may have size 0.  Sizes so large that
an address plus a size goes round are left out.

`FrameVault` is the promise: `plain` is the stack of the unprotected program, and a cell
of `view` shows its plain value or the fill pattern.  `asking` is the frame
whose protection is being set up; only its cells may be hidden.  With `MayLose`, which is
set where the growth of a buffer may fail, cells of that frame may also be lost at the
moment they would be hidden: those `copy_stack_buf` could not copy and `memset` erased.
Nothing else is ever lost, and in particular nothing that a buffer keeps.

### SharedVault

All protected processes run one executable (the module reads one, `path_to_exe`), so
frames of the same level lie at the same addresses, and a buffer that is restored for
the wrong process overwrites its frame of that level.  `x++` on a top is a load and a
store, with the register in `reg`; the accesses between are steps of their own.  A
handler is not preempted (jprobes disable preemption), so as many run at a time as there
are `Cpus`.  `DecryptPop` chooses whether the compiler kept the decremented top or reads
it again.  Whoever finds `init` at 0 builds all buffers, though another handler may already
be in its loop with the pointer it has read from its slot: `old` has the buffers that were
replaced under somebody, and `EncryptHideOld` and `DecryptRestoreOld` are the loops that go
on in them.  `planted` is the set of system calls that have a probe; without one, a call is
the empty function of the kernel patch.  A module that is loaded again has fresh static
data.  The module may be unloaded at any time, also while handlers run: `jprobe_exit` and
`jprobe_exit_second` remove the probes, and requests go on in between.
`unregister_jprobe` (external) disarms a probe and then waits for the handlers that run
(a jprobe handler runs with preemption disabled, and the call waits for a grace period), so
the module itself is released only when none does.  A load that fails
(`jprobe_init_fails`) waits for nobody: with a handler running it is a fault.

History variables delimit what is claimed.  `raced` is set when a handler starts inside
the critical section of another, or a decrypt pops the record of an encrypt that is still
copying; `Critical` says where that section ends: for an encrypt when it has its buffer
(it may copy while others run), for a decrypt only at its end, since the buffer it restores
is already free for the next encrypt.  Both ends are sharp: with an earlier one TLC finds
`Paired` violated.  `tidy` is true while nothing raced, every decrypt found its own record
on top, and the module came and went with nobody protected.  `OwnFrame` is the contract of
the lock-free code: under `tidy`, everybody's data are their own; so a lock would have to
cover `Critical`, and the records would have to be per process.  The model goes on
beyond the contract (it reaches `use_after_free`, `wild_buf`, `dangling`, `null_mapper` and
`overflow`), but the code gives no promise there that could be stated.

### SymbolMap, ElfLister

The heap is the set of live blocks.  The executable has static and dynamic symbol tables
among its sections, in any order; it may be missing, too short, not ELF or stripped, and
any `kmalloc` may fail.  A stripped file is read through an uninitialised pointer: the
kernel's reader stops with the fault `bad_symtab`, the user-level one with `crash`.  `elf_open` opens with `O_CREAT`, so that a missing file is created and then too
short; both outcomes leave the same state.  The error returns of `elf_open` and the early return of
`parse` release nothing and drop the only pointer to the `Elf_obj` and the image: these
blocks stay in the heap without an owner (`Lost`), and `HeapOwned` says that only such a
return (`GaveUp`) loses anything and that these two blocks are all it loses.  `destroy_mapper` has no caller and is not an
action.

### HashTable, EncryptServer, StackAreas

A key is its rank in `strcmp` order.  `Bins` gives the bins `htHash` may return for a key:
`hashval` is uninitialised, and only eight shifts by eight bits push its first value out, so
a key of fewer than eight characters may get another bin in every call.  (So may a longer
one if the value happens to be `ULONG_MAX`, since the loop is then left at once.)  `call` is
the last call with its key and value.  `KeyMap` is the promise: `htSet` keeps the value it is
given under its own key and touches no other, and `htGet` answers with a value of its own
key.  For a key of `Exact`, one that always gets the same bin (`OneBin`), that is the value
it was last set to; of the others older values may be left in other bins.

The server's line keeps the tokens that decide what happens.  `recv` puts no NUL behind a
line, so a line that lacks tokens (`"short"`) goes on with what the buffer has from before;
since that may be the end of any longer line, or bytes nobody wrote, `Tokens` allows every
continuation, a missing token included.  `read` is a history of what each line was taken
for.  The server can stop in these ways: `exited` (a decrypt without entry leaves the loop,
or `encrypt_stack` calls `exit(1)` for a pagemap that cannot be positioned), `crashed`
(`fseek` of a pagemap that could not be opened, nothing received, a token that is not
there) and `killed` (SIGPIPE).

`StackAreas` walks an address range; `PageSize` is the code's 4096.  The two addresses are
any two: the code does not compare them, and `main` itself passes 0 for the lower end (it
encrypts only if the rbp token starts with `e`, which `atol` reads as 0).  An entry of the
page map has a number and a present bit.  Present pages have different frames; the number of
an absent page is 0 or, if it is in the swap area, may look like any frame, and the code
does not test the bit.  The page map may also not open or not be positioned
(`get_page_frame_number_fails`).  `phys` is the memory behind `/dev/mem` and `buffer` the
page that was read from it; a `write` goes where the file position is, one page further.

### XorVault

A cell is a byte of which one bit is followed, since XOR treats the bits alike; a word has
`Word` cells (the code's 8).  The loop runs word by word while `p <= user_rbp`, so it
covers the word at rbp.  The parameters are copied aside and put back in list order.
`kmalloc` may fail, and its result is used all the same (fault `null`).  A frame that is
encrypted is decrypted before it is encrypted again, in any order with others.

### CallGraph, HelloPass, Tools

A function of the call graph is a name; `all_simple_paths` of networkx, which is external,
is its definition: ways that meet no function twice.  The names are looked up one by one;
those that are no label of the graph are dropped.  Then one step is one pair of the two
loops, and the functions it finds are appended in any order, since the order of the paths
is not determined.  A line of the disassembly is a function's head or an instruction with
its number.

In `HelloPass` an instruction is a call (of `NULL` if it is indirect), the inline assembly
or something else, and
`inserted` is a history that tells the pass's own instructions from the programmer's.
Declarations are not handed to a pass (the pass manager, external), so an `invoke` that
is only declared is never met.

## 3. Runs

Bounds are constants of the cfg files: the depth of nesting (2 or 3 frames), the size of
the two kernel arrays, the capacity of a buffer, and so on.  They are small, but each
limit is met in some run: both arrays are filled, buffers grow, growth fails, the
backlog is shorter than the number of clients, the areas run out.

| run | shows |
|---|---|
| `vault` | f with a by-value parameter and a pointer to a pointer, g with a pointer that f or g may redirect into either frame, f recursively: `Concealment`, `GrantExact`, `NoFault`, `DecryptPopsOwn`, the refinement `Transparent` of `FrameVault`, and `SyscallReturns` |
| `odd_requests` | lists used twice, pointers across a parameter, out of the frame or with a negative number of levels, objects of size 0, frames in three pieces, callers without a name, rbp below rsp, stray decrypts, a nest of three frames on two slots of `sbuf_stack`, capacity two and growth that may fail: `Concealment` and `Transparent` up to the fault, and `SyscallReturns` |
| `shared` | two processes of two levels on two processors, arrays of two slots, load and unload at any time, handlers that meet: `Paired`, `OwnFrame` |
| `symbol_map` | all tables of up to four symbols and the odd files, both readers: `MapIsPrefix`, `HeapOwned`, `Resolves`, `Loads`, `ListShowsMap`, `ListerEnds` |
| `stack_areas` | any two addresses of a four-page stack on all frames, absent and swapped-out pages included, with three slots for areas: `RangeExact`, `WalkEnds` |
| `server` | three clients that may die, backlog two, complete lines and lines that lack tokens, three keys on two bins, one of them with a bin that may change, set in any order, twice and to two values: `OwnAnswer`, `DecryptAfterEncrypt`, `NobodyWaits`, and for the table `BinsSorted` and the refinement `IsMap` of `KeyMap` |
| `xor` | words of two cells; frames of even and odd length that share cells, one with rbp below rsp; parameters inside, at the end and across: `Masked`, `CallsReturn` |
| `compiler` | all 4096 call graphs of four functions, two of them sensitive and one or two untrusted; disassemblies of three functions of one to four instructions in any order; modules of `main`, `invoke` and `multi` in any order with up to two calls each: `AddedForCause`, `NoneMissed`, `ThirdLines`, `Instrumented`, `NoCrash`, `ParserEnds`, `PassEnds` |

Why these bounds.  Two processes are enough for every pair of handlers to interleave in every
way.  `shared` has one bound that is not a constant, `RaceBound` of `MCSharedVault`, an action
constraint of the run and no part of the specification: once critical sections have met,
both properties claim nothing any more, and the run follows such a race only until its
handlers have returned or data have come into a frame they do not belong to.  New handlers
start during a race only where they are the only way to an action (a released record below
the top; buffers that are built under a loop).  Without a race the run is not bounded.  Four functions give a path
with two functions between a sensitive and an untrusted one, which is the shortest on
which an addition can cause another; three functions in a module let `invoke` come first,
in the middle and last.  Two-cell words have both parities.

Four runs show where the code does something else than a line of the repository says; the
quotations are in `PROJECT.json`.

| run | shows |
|---|---|
| `deep_nesting` | `sbuf_stack[16]` is overrun long before the 64 calls `call_stack` is declared for |
| `buffer_growth` | the 33rd segment of a frame reallocates the array, and decrypt uses the released one |
| `server_format` | the letter is looked for in the wrong token, so that no request in the documented format is carried out |
| `write_back` | the page that was read is written to the following frame |

`NoFault`, `GrantExact` and `DecryptPopsOwn` of `vault` hold for requests that stay clear
of the first two, and of five more limits that the model has and no run of its own shows:
a refused encrypt followed by its decrypt, which pops and restores the caller's frame; a
parameter list used for two requests, whose pointer levels the first has counted down; a
pointer target in another segment than the first, whose hole goes in the wrong list (fault
`bad_copy`); a negative number of levels or an object of size 0; and a decrypt before every encrypt, which looks its name up in a map that does
not exist (`null_mapper`).  `odd_requests` walks through all of them.  In the same way
`stack_areas` reaches the fault `overflow` where a range lies in more frames than the array
has slots (not from `main`, whose ranges are empty), `NoCrash` is about modules that define `invoke` in time, and `ThirdLines` about
disassemblies whose functions have three instructions (`<crash>` or a line of the next
function otherwise).

Two properties state what the code does where a reader may expect something else.
`RangeExact` says that a range whose bottom is not above its top, which is the only kind
`main` asks for, still gets an area, of the byte at rsp.  `IsMap` is exact only for keys
that always get one bin: a short key, such as the `f1` of the client, may be hashed to
another bin than when it was entered, and the server then says of an encrypted function
that it has not been encrypted, and ends.

**Fairness.**  `vault` and `odd_requests` assume that a handler that is running goes on (`WF` of its
steps): it runs in the kernel, with preemption disabled by the jprobe, and waits for
nobody; where it has broken the kernel (`fault`) it need not.  Nothing is assumed about the program, which may stop anywhere.  `symbol_map`
and `stack_areas` assume the same of one sequential loop.  `server` assumes that the
server process and each client process are scheduled; a client's `send` follows its
`connect` at once in the code, and death is always possible instead.  `xor` assumes that a
call that runs in the kernel goes on, `compiler` that a tool that was started is not
stopped, `symbol_map` the same of the user-level reader.  `shared` has no liveness
property and assumes none: its handlers never wait for each other.

## 4. Proofs

Every safety property that a passing run checks is proved for all values of the constants.
The assumptions are the `ASSUME`s of the modules, which type the constants; TLC evaluates
them in the runs.  Three theorems have hypotheses of their own (`WellAsked`,
`LimitsSuffice`, `RequestsFit`), explained below.  In each module an
inductive invariant is proved first (`Invariant`, `SharedInvariant`, `ServerInvariant`,
`XorInvariant`, `AreasInvariant`, `SymbolInvariant`, `ToolsInvariant`), and the properties
follow from it.

### StackVaultProofs

For every program (any set of sites with frames in the stack), every stack size, slack,
depth and capacity, with or without failing allocations, reused lists and stray decrypts:

* `TypeCorrect`: `Spec => []TypeOK`;
* `ConcealmentHolds`: `Spec => []Concealment`;
* `TransparentHolds`: `Spec => Transparent`, the refinement of `FrameVault`;
* `DecryptPopsOwnHolds`: `Spec => DecryptPopsOwn` for programs that are `WellAsked`;
* `NoFaultHolds`, `GrantExactHolds`: `Spec /\ []RequestsFit => []NoFault` and
  `... => []GrantExact` for programs that are `WellAsked` and have `LimitsSuffice`.

Assumptions: `MemoryAssumption` (the fill pattern is no datum), `SiteAssumption` (frames
lie in the stack with sp not above rbp), `ParameterAssumption` (types of the other
constants).

*Concealment* is not inductive: a handler that writes in one frame could disturb a cell
that another buffer hides.  `IInv` adds where things are.

* `ActsOrdered`: activations descend the stack without overlap.
* `RecordsOwned`, `RecordsOrdered`: each record is the frame of an activation that has
  asked, and records descend as well.
* `HandlerFrame`: during an encrypt the top record is the caller's; during a decrypt all
  remaining records lie above the caller's frame.
* `Slots`: the segments of slot d lie within record d + 1, ascend without overlap, and
  unused slots are empty; the slot being restored lies below all remaining records,
  although, after a refused encrypt, it need not be the caller's own.

From these, `LiveDisjoint`: a cell is hidden by at most one segment of one live slot.
So `TakeOff` fills just what it adds, giving a cell back opens a hole in the one segment
that hides it, and a restore touches cells that no other buffer hides.  `IInv` was checked
with TLC on the constants of the passing runs before it was proved.

*Transparent.*  The refinement mapping takes a cell from the memory, or from the segment
that hides it (`plainStack`); by `LiveDisjoint` there is no choice (`PlainIs`).  What a step
does to both memories then depends on which cells it hides or shows.  Beyond `IInv` the
proof needs `GivenBack`: while an encrypt scans, its buffer has no holes (`ScanUnholed`); a
cell that was given back is in the memory (`GivenBackShown`), so that opening a hole twice
changes nothing (a hole of size 0 gives nothing back); and holes are linked to the first segment of a slot (`HolesInFirst`), so
that a restore copies every other segment as a whole.  `TakeOffVault`, `GiveBackVault`,
`RestoreVault` and `StoreVault` are the four kinds of steps that move data; all others
stutter, or begin or end the scan, which is when `asking` changes.

*DecryptPopsOwn* is false of programs that ask out of turn: after a refused encrypt the
decrypt pops the caller's record.  `WellAsked` says of the program that its functions are
in the symbol map, that their frames are larger than the slack (or the encrypt is refused
as rsp above rbp), that it asks for no stray decrypt, and that allocations do not fail (the
map may be a prefix otherwise).  `vault` satisfies it.  Then every activation that has
asked has exactly one record (`Covered`), and the top one is the innermost.

*NoFault and GrantExact* are false of some requests, as section 3 says; the hypotheses
name the limits of the code, and no more.  `LimitsSuffice` is about the constants: no nest
of frames is deeper than `call_stack` or `sbuf_stack`, a list has fewer by-value entries
than a buffer has segments, each request has a list of its own, and cells hold words.
`RequestsFit` is about the stack at the moment the program may ask: no object has size 0 and
no number of levels is negative; the by-value parameters
lie in the frame and do not overlap; each level of a pointer, and the object at its end if
that is in the frame, lies in the lowest piece that the values leave of the frame, and no
two of these overlap.  Where one fails there is a fault or a wrong grant: `deep_nesting` and
`buffer_growth` show it for the limits, `odd_requests` goes through the rest.  The program
of `vault` satisfies them: with `RequestsFit` and `FitInv` as invariants of that run, and of
a second instance with several values and pointers to a list, TLC found no violation.

`FitInv` says why.  During a scan the buffer has exactly the cells of the frame before
`prev_rsp` that are no value, and no value crosses from there to `i` (`ScanPlace`); each
segment but the last ends where a value begins, so there are no more than values and one,
and the array never grows (`NoGrowth`).  The first segment is the first piece
(`FirstTaken`), hence the look-up finds every pointer there, and the holes, which the code
always links to the first segment, are where they should be and apart (`HolesApart`), so
that the gaps between them have a length.  The program's list is the one it built but for
the levels counted down, and `addr_in_stack` is at that level of the chain (`ListKept`);
the cells in holes are exactly those of the levels passed (`PiecesGiven`), which at the end
are the grants.  `Chain` is a recursive function.  That it has a value is shown by a least
level at which it had none (`HopsExist`), and then only one level at a time is needed.
`RoomForTop` counts records: their owners and the caller are a nest.

`FindIsFound`: where a segment holds the cells, the look-up returns one that does, and no
segment before it does.

### SharedVaultProofs

`SharedTypeCorrect`, `PairedHolds`, `OwnFrameHolds`, for any number of processes,
processors, levels and slots, and without the bound of the run.  The two stacks are paired only between requests; in the middle
of one the records, the two tops and the buffers are one apart, depending on where the
handler is.  `Base(p)` is the number of slots below the one a request of p is about, and
`Midway(p)` says for each program counter how records, tops and buffers stand to it.  As
long as nothing raced, at most one handler is in its critical section, so `Stacks` is
`Midway` of that one or `Level`; encrypts that are still copying have a slot of their own
below (`Below`).  `Current` says that buffers are built under a handler's loop only after a
race: whoever finds `init` at 0 while another handler loops came in while that one, or an
earlier one, was still critical.  `Tidy` adds whose data are where.

### EncryptServerProofs

`ServerTypeCorrect`, `OwnAnswerHolds`, `DecryptAfterEncryptHolds`, `BinsSortedHolds`, for any
number of clients, keys and bins and any backlog; `TableIsMap`, the refinement of `KeyMap`.
The invariant says that waiting connections are different clients without an answer
(`Waiting`), that the line buffer has the line of the connection that is served, as it was
sent or as it was continued (`Serving`), and that an entry of the table comes from an encrypt that was carried out
(`Entries`).  Neither `BinsSorted` nor `TableIsMap` assumes anything of the hash.  `Home` (each
pair is in a bin its key may get) makes a key of one bin exact; a key for which `htHash` may
return two bins, as it may for a key shorter than eight characters, can be stored twice and
not be found, and for it the theorem only says that no other key's value is answered or
lost.

### XorVaultProofs

`XorTypeCorrect`, `MaskedHolds`, for every word size and set of requests, overlapping or
not.  In the middle of a call, the cells it has passed are under its key as well, its
parameters included, and the copies of the parameters are as they were before the call
(`Midway`).  The number of keys over a cell counts modulo two, so a finite set suffices.

### StackAreasProofs

`AreasTypeCorrect`, `RangeExactHolds`, for every page size, page map and any two
addresses.  `End` is where the last area ends: at `bottom_addr`, or one byte above rsp if
that is not below it.  While the
areas are made, the addresses passed since the last one have one frame (`OneFrame`), and
if all pages are present the areas are inside the range and have all of it up to there
(`Exact`).  Division is dealt with in `NumberFacts`.

### SymbolMapProofs

`SymbolTypeCorrect`, `HeapOwnedHolds`, `MapIsPrefixHolds`, `ResolvesHolds` (an action
property), for every executable, first capacity, set of callers and failure of `kmalloc`.
For `HeapOwned` it is said of each place in the load which blocks are without an owner: none
up to `elf_close`, and at most two neighbours after an early return.  `Follows` has the increasing function from items to the symbols they came from; an item is
behind as many others as there were sized symbols before.

`ListShowsMapHolds` is about both readers (`SymbolReaders`), in any interleaving.  What the
lister has printed is the beginning of the last static table (`ListerInv`), the table the
kernel's `parse` walks is the same one, and the item of a sized symbol is at the place that
its number among the sized symbols gives.

### ToolsProofs

For every finite call graph, lists of names, disassembly and module: `ToolsTypeCorrect`,
`AddedForCauseHolds`, `NoneMissedHolds`, `ThirdLinesHolds`, `InstrumentedHolds`,
`NoCrashHolds`.

*The parser.*  `LoopInv` says what is settled, that is, leaves nothing to add: the sensitive
functions before s with all functions that were given, and the one at s with the list up to
u.  Earlier sensitive functions need not be settled with functions that were added later,
so `NoneMissed` is about what was given.  An added function leads to one that was given
because it was found on a way to a function from which, if it was added itself, a way goes
on; the two ways may meet before that function, and `JoinedWays` changes over where they
first do.  That the result is among the paths that are listed is the pigeonhole principle.

*The scan.*  `ScanInv`: the third lines up to `idx` are shown and no others, `idx` is never
on the first or second instruction of a sensitive function, since the scan jumps over them,
and no name before j is that of the head at `idx`.  `LongEnough`, part of `ThirdLines`
itself, is what makes the jump of three lines land in the same function.

*The pass.*  `Ahead`: of its own instructions at most two are ahead of the pass, and it is
at the first of them, so it never inserts behind a call twice; `InsertKeeps` and
`InsertShapes` are about the list it inserts into.  `NotMet` and `CrashCause` are for
`NoCrash`: as long as no `invoke` was met, no function gone over defines it.

### Only model-checked

Liveness (`SyscallReturns`, `Loads`, `ListerEnds`, `WalkEnds`, `NobodyWaits`, `CallsReturn`,
`ParserEnds`, `PassEnds`): fairness and `ENABLED` are out of the prover's reach.

## 5. Not modelled

* The return from a jprobe handler without `jprobe_return()` on the refused paths: what
  the kernel's kprobes do then is outside the repository.
* In `SharedVault`: parameters, refused encrypts and the growth of buffers, which
  `StackVault` has; a process that is killed inside a handler (a signal is delivered on
  the way back to user mode).
* Failures of `kmalloc` for records, holes and the copies of segments, which the code
  does not look at.
* Widths of addresses: a parameter for which `addr + size` goes round; and `cmp` casts a
  difference of addresses in one buffer to `int`, which is exact for buffers below 2 GB.
* The file descriptor that `elf_open` leaves in the caller's table after it has closed the
  file: descriptor tables belong to the kernel.
* The write probes (not registered), `kprobe.c` and `readmem.c` (samples that log),
  `file_ops.c` (wrappers), the dynamic-symbol accessors, `destroy_mapper`,
  `get_page_frames` and `read_memory_page` (no caller), `Hello2` (prints).
* `stack_clear.c`: one loop of stores between two frame pointers; which cells these are is
  the compiler's choice.  The memset benchmarks: a copy of the C library's function, timed.
* That `runOnFunction` returns false after it has changed the function: what later passes
  make of it is LLVM's.

## 6. Plan

1. Done: `StackBuf`, `FrameVault`, `StackVault` with its runs; type and concealment
   theorems; `SymbolMap`; `HashTable`, `EncryptServer`, `StackAreas`.
2. Done: `SharedVault`; both ELF readers; `XorVault`; `CallGraph` and `HelloPass`; absent
   pages and the write-back of the server; failed growth in the refinement of `FrameVault`.
3. Done, proofs: every safety property of the passing runs, the refinements of
   `FrameVault` and `KeyMap` among them.
4. Open: liveness, which stays with TLC, and what section 5 names.
