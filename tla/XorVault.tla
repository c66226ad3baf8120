------------------------------ MODULE XorVault ------------------------------
(***************************************************************************)
(* The alternative the memClear module is linked with: encrypt_stack and   *)
(* decrypt_stack of kernel_probe/stack_encrypt.c leave a frame in place    *)
(* and XOR it with a key, word by word.  Parameters are copied aside       *)
(* before, and copied over the result afterwards.                          *)
(*                                                                         *)
(* A cell is one byte, of which one bit is followed: XOR treats the bits   *)
(* alike.  A word has Word cells, and a key is a word.                     *)
(***************************************************************************)
EXTENDS Integers, Sequences, FiniteSets

CONSTANTS
    MaxAddr,     \* the highest cell of the stack
    Word,        \* sizeof(uint64_t)
    Requests,    \* what may be protected: [rsp, rbp, plt, key]
    AllocFails   \* kmalloc() may fail

Bit  == {0, 1}
Addr == 0 .. MaxAddr
Para == [addr : Addr, size : Nat \ {0}]
Key  == [0 .. Word - 1 -> Bit]

ASSUME XorAssumption ==
    /\ MaxAddr \in Nat /\ Word \in Nat \ {0} /\ AllocFails \in BOOLEAN
    /\ \A r \in Requests : /\ r.rsp \in Addr /\ r.rbp \in Nat /\ r.rbp + Word <= MaxAddr + 1
                           /\ r.plt \in Seq(Para) /\ r.key \in Key
                           /\ \A n \in DOMAIN r.plt : r.plt[n].addr + r.plt[n].size <= MaxAddr + 1

VARIABLES
    mem,        \* the stack
    plain,      \* history: the stack as it would be without protection
    active,     \* the requests that are encrypted
    pc, req,    \* the call that runs: "user", or where it is, and its arguments
    p, buf,     \* its locals: the word it is at, the parameters it has copied aside
    fault

vars == <<mem, plain, active, pc, req, p, buf, fault>>

(* Mutant: the key is added. *)
Added(x, y) == x + y

Xor(x, y) == (x + y) % 2

Init ==
    /\ mem \in [Addr -> Bit] /\ plain = mem
    /\ active = {} /\ pc = "user" /\ req \in Requests /\ p = 0 /\ buf = <<>> /\ fault = "none"

Running == pc = "user" /\ fault = "none"

(* Which active requests change a cell, and whether a store can be meant for it. *)
Paras(r)    == UNION {r.plt[n].addr .. r.plt[n].addr + r.plt[n].size - 1 : n \in DOMAIN r.plt}
Reached(r)  == {a \in Addr : \E w \in 0 .. MaxAddr :
                                /\ r.rsp + w * Word <= r.rbp
                                /\ a \in r.rsp + w * Word .. r.rsp + w * Word + Word - 1}
Masking(a)  == {r \in active : a \in Reached(r) \ Paras(r)}
-----------------------------------------------------------------------------
(* The protected program stores where nothing is masked: in a callee's own frame, or  *)
(* through a parameter that was left to it.                                           *)
Store(a) ==
    /\ Running /\ Masking(a) = {}
    /\ \E v \in Bit : mem' = [mem EXCEPT ![a] = v] /\ plain' = [plain EXCEPT ![a] = v]
    /\ UNCHANGED <<active, pc, req, p, buf, fault>>

(* The parameters one after the other, as they are in m. *)
Cells(q)   == [n \in 1 .. q.size |-> q.addr + n - 1]
Saved(plt, m) == [n \in DOMAIN plt |-> [c \in DOMAIN Cells(plt[n]) |-> m[Cells(plt[n])[c]]]]

(* Mutant: only the first byte of a parameter is put back. *)
PutFirstBack(plt, b, m) ==
    [a \in Addr |->
        LET of == {n \in DOMAIN plt : a = plt[n].addr}
        IN  IF of = {} THEN m[a] ELSE b[CHOOSE n \in of : \A o \in of : o <= n][1]]

(* They are put back in the same order, so the last one that has a cell decides. *)
PutBack(plt, b, m) ==
    [a \in Addr |->
        LET of == {n \in DOMAIN plt : a \in plt[n].addr .. plt[n].addr + plt[n].size - 1}
            n  == CHOOSE n \in of : \A o \in of : o <= n
        IN  IF of = {} THEN m[a] ELSE b[n][a - plt[n].addr + 1]]

(* The copy is made without a look at what kmalloc() returned. *)
Begin(r, l) ==
    /\ req' = r /\ p' = r.rsp
    /\ \/ buf' = Saved(r.plt, mem) /\ pc' = l /\ UNCHANGED fault
       \/ AllocFails /\ r.plt # <<>> /\ fault' = "null" /\ UNCHANGED <<buf, pc>>
    /\ UNCHANGED <<mem, plain, active>>

(* A frame is decrypted once for each time it was encrypted, in any order. *)
encrypt_stack(r) == Running /\ r \notin active /\ Begin(r, "encrypt")
decrypt_stack(r) == Running /\ r \in active /\ Begin(r, "decrypt")

Working == pc \in {"encrypt", "decrypt"} /\ fault = "none"

(* Mutant: p is not moved on. *)
XorWordStuck ==
    /\ Working /\ p <= req.rbp
    /\ mem' = [a \in Addr |-> IF a \in p .. p + Word - 1 THEN Xor(mem[a], req.key[a - p]) ELSE mem[a]]
    /\ UNCHANGED <<plain, active, pc, req, p, buf, fault>>

XorWord ==
    /\ Working /\ p <= req.rbp
    /\ mem' = [a \in Addr |-> IF a \in p .. p + Word - 1 THEN Xor(mem[a], req.key[a - p]) ELSE mem[a]]
    /\ p' = p + Word
    /\ UNCHANGED <<plain, active, pc, req, buf, fault>>

(* The bytes that are left below rbp, with the lowest byte of the key; there are none, *)
(* since p is above rbp.                                                               *)
XorTail(m) == [a \in Addr |-> IF a \in p .. req.rbp - 1 THEN Xor(m[a], req.key[0]) ELSE m[a]]

End ==
    /\ Working /\ p > req.rbp
    /\ mem' = PutBack(req.plt, buf, XorTail(mem))
    /\ active' = IF pc = "encrypt" THEN active \cup {req} ELSE active \ {req}
    /\ pc' = "user" /\ buf' = <<>>
    /\ UNCHANGED <<plain, req, p, fault>>

Halted == fault # "none" /\ UNCHANGED vars

Next == \/ \E a \in Addr : Store(a)
        \/ \E r \in Requests : encrypt_stack(r) \/ decrypt_stack(r)
        \/ XorWord \/ End
        \/ Halted

(* A call runs in the kernel to its end. *)
Spec == Init /\ [][Next]_vars /\ WF_vars(XorWord \/ End)
-----------------------------------------------------------------------------
(* Type invariant. *)
XorTypeOK ==
    /\ mem \in [Addr -> Bit] /\ plain \in [Addr -> Bit]
    /\ active \subseteq Requests /\ req \in Requests
    /\ pc \in {"user", "encrypt", "decrypt"} /\ p \in Nat
    /\ buf \in Seq(Seq(Bit)) /\ fault \in {"none", "null"}
    /\ Working => p = req.rsp \/ p <= req.rbp + Word

(* Between calls every cell is its plain value under the keys of exactly the requests    *)
(* that are encrypted and reach it without having it as a parameter.  So whatever order  *)
(* frames are encrypted and decrypted in, however they and their parameters overlap and  *)
(* whatever the program stores meanwhile, a parameter of the only request that reaches   *)
(* it is in clear, and when all are decrypted the stack is the program's own.            *)
KeyBit(r, a) == r.key[(a - r.rsp) % Word]
Masked ==
    Running => \A a \in Addr :
                  mem[a] = Xor(plain[a], Cardinality({r \in Masking(a) : KeyBit(r, a) = 1}) % 2)

(* Every call returns, or breaks the kernel at once. *)
CallsReturn == pc # "user" ~> (pc = "user" \/ fault # "none")
=============================================================================
