--------------------------- MODULE XorVaultProofs ---------------------------
(***************************************************************************)
(* The XOR encryption for every stack, word size and set of requests: its  *)
(* types, and Masked, that between calls each cell is its plain value      *)
(* under the keys of exactly the requests that hold it.                    *)
(***************************************************************************)
EXTENDS XorVault, NumberFacts, FiniteSetTheorems, SequenceTheorems

(* Whether the keys of the encrypted requests flip cell a, and what it is then. *)
Keyed(a)  == {r \in Masking(a) : KeyBit(r, a) = 1}
Parity(a) == Cardinality(Keyed(a)) % 2
Under(a)  == Xor(plain[a], Parity(a))

(* No call runs. *)
Clear == pc = "user" => \A a \in Addr : mem[a] = Under(a)

(* A call has been over whole words from rsp on, and not over more than it had to; what  *)
(* it has been over is under its key as well, its parameters included, and the copy of   *)
(* the parameters is as they were before it.                                             *)
Words  == \E w \in Nat : p = req.rsp + w * Word /\ (w = 0 \/ p <= req.rbp + Word)
Passed(a) == IF a \in req.rsp .. p - 1 THEN KeyBit(req, a) ELSE 0
Midway ==
    pc # "user" =>
        /\ pc = "encrypt" <=> req \notin active
        /\ Words
        /\ \A a \in Addr : mem[a] = Xor(Under(a), Passed(a))
        /\ \A n \in DOMAIN req.plt : \A c \in 1 .. req.plt[n].size :
              buf[n][c] = Under(req.plt[n].addr + c - 1)

IInv == XorTypeOK /\ IsFiniteSet(active) /\ (fault # "none" => pc = "user") /\ Clear /\ Midway

(* XOR of bits has a neutral element, is associative and takes itself back. *)
LEMMA XorBits ==
    /\ \A x, y \in Bit : Xor(x, y) \in Bit
    /\ \A x \in Bit : Xor(x, 0) = x
    /\ \A x, y, z \in Bit : Xor(Xor(x, y), z) = Xor(x, Xor(y, z))
    /\ \A x, y \in Bit : Xor(Xor(x, y), y) = x
  BY DEF Xor, Bit

(* The keys over a cell. *)
(* What the assumption on the requests says of one of them. *)
LEMMA RequestIs ==
    ASSUME NEW r \in Requests
    PROVE  /\ r.rsp \in Nat /\ r.rsp <= MaxAddr /\ r.rbp \in Nat /\ r.rbp + Word <= MaxAddr + 1
           /\ r.plt \in Seq(Para) /\ r.key \in Key
           /\ \A n \in DOMAIN r.plt : /\ r.plt[n].addr \in Nat /\ r.plt[n].size \in Nat \ {0}
                                      /\ r.plt[n].addr + r.plt[n].size <= MaxAddr + 1
<1>1. /\ r.rsp \in Addr /\ r.rbp \in Nat /\ r.rbp + Word <= MaxAddr + 1
      /\ r.plt \in Seq(Para) /\ r.key \in Key
      /\ \A n \in DOMAIN r.plt : r.plt[n].addr + r.plt[n].size <= MaxAddr + 1
  BY XorAssumption
<1>2. \A n \in DOMAIN r.plt : r.plt[n] \in Para
  BY <1>1
<1>3. \A n \in DOMAIN r.plt : r.plt[n].addr \in Addr /\ r.plt[n].size \in Nat \ {0}
  BY <1>2 DEF Para
<1> QED
  BY <1>1, <1>3, XorAssumption DEF Addr

(* The bit of a request's key that meets a cell is a bit. *)
LEMMA KeyBitIs ==
    ASSUME NEW r \in Requests, NEW a \in Int
    PROVE  KeyBit(r, a) \in Bit
<1>1. r.key \in Key /\ r.rsp \in Nat /\ Word \in Nat \ {0}
  BY RequestIs, XorAssumption
<1>2. (a - r.rsp) % Word \in 0 .. Word - 1
  BY <1>1
<1> QED
  BY <1>1, <1>2 DEF KeyBit, Key

(* The key bits over a cell are finitely many, and their sum modulo two is a bit. *)
LEMMA ParityIs ==
    ASSUME IsFiniteSet(active), NEW a
    PROVE  Keyed(a) \subseteq active /\ IsFiniteSet(Keyed(a)) /\ Parity(a) \in Bit
<1>1. Keyed(a) \subseteq active
  BY DEF Keyed, Masking
<1>2. IsFiniteSet(Keyed(a)) /\ Cardinality(Keyed(a)) \in Nat
  BY <1>1, FS_Subset, FS_CardinalityType
<1> QED
  BY <1>1, <1>2 DEF Parity, Bit

(* A request that becomes active flips the cells that its call has changed for good. *)
LEMMA ParityAdd ==
    ASSUME IsFiniteSet(active), NEW r \in Requests, r \notin active, active' = active \cup {r},
           NEW a \in Addr
    PROVE  Parity(a)' = IF a \in Reached(r) \ Paras(r) THEN Xor(Parity(a), KeyBit(r, a)) ELSE Parity(a)
<1>0. KeyBit(r, a) \in Bit
  BY KeyBitIs DEF Addr
<1>1. Keyed(a) \subseteq active /\ IsFiniteSet(Keyed(a))
  BY ParityIs
<1>2. CASE a \in Reached(r) \ Paras(r) /\ KeyBit(r, a) = 1
  <2>1. Keyed(a)' = Keyed(a) \cup {r}
    BY <1>2 DEF Keyed, Masking
  <2>2. Cardinality(Keyed(a) \cup {r}) = Cardinality(Keyed(a)) + 1 /\ Cardinality(Keyed(a)) \in Nat
    BY <1>1, FS_AddElement, FS_CardinalityType
  <2>3. Parity(a)' = (Cardinality(Keyed(a)) + 1) % 2
    BY <2>1, <2>2 DEF Parity
  <2> QED
    BY <1>2, <2>2, <2>3 DEF Parity, Xor
<1>3. CASE ~(a \in Reached(r) \ Paras(r) /\ KeyBit(r, a) = 1)
  <2>1. Keyed(a)' = Keyed(a)
    BY <1>3 DEF Keyed, Masking
  <2>2. Parity(a)' = Parity(a)
    BY <2>1 DEF Parity
  <2> QED
    BY <1>0, <1>3, <2>2, ParityIs, XorBits DEF Bit
<1> QED
  BY <1>2, <1>3

(* And so does one that is no longer active. *)
LEMMA ParityRemove ==
    ASSUME IsFiniteSet(active), NEW r \in Requests, r \in active, active' = active \ {r},
           NEW a \in Addr
    PROVE  Parity(a)' = IF a \in Reached(r) \ Paras(r) THEN Xor(Parity(a), KeyBit(r, a)) ELSE Parity(a)
<1>0. KeyBit(r, a) \in Bit
  BY KeyBitIs DEF Addr
<1>1. Keyed(a) \subseteq active /\ IsFiniteSet(Keyed(a))
  BY ParityIs
<1>2. CASE a \in Reached(r) \ Paras(r) /\ KeyBit(r, a) = 1
  <2>1. Keyed(a)' = Keyed(a) \ {r} /\ r \in Keyed(a)
    BY <1>2 DEF Keyed, Masking
  <2>2. Cardinality(Keyed(a) \ {r}) = Cardinality(Keyed(a)) - 1 /\ Cardinality(Keyed(a)) \in Nat
    BY <1>1, <2>1, FS_RemoveElement, FS_CardinalityType
  <2>3. Parity(a)' = (Cardinality(Keyed(a)) - 1) % 2
    BY <2>1, <2>2 DEF Parity
  <2> QED
    BY <1>2, <2>2, <2>3 DEF Parity, Xor
<1>3. CASE ~(a \in Reached(r) \ Paras(r) /\ KeyBit(r, a) = 1)
  <2>1. Keyed(a)' = Keyed(a)
    BY <1>3 DEF Keyed, Masking
  <2>2. Parity(a)' = Parity(a)
    BY <2>1 DEF Parity
  <2> QED
    BY <1>0, <1>3, <2>2, ParityIs, XorBits DEF Bit
<1> QED
  BY <1>2, <1>3

(* A call that is through has been over exactly the cells that its request reaches. *)
LEMMA ReachedIs ==
    ASSUME NEW r \in Requests, NEW w \in Nat, NEW q \in Nat, q = r.rsp + w * Word,
           q > r.rbp, w = 0 \/ q <= r.rbp + Word, NEW a \in Addr
    PROVE  a \in Reached(r) <=> a \in r.rsp .. q - 1
<1>0. /\ r.rsp \in Nat /\ r.rbp \in Nat /\ Word \in Nat \ {0} /\ a \in Nat /\ MaxAddr \in Nat
      /\ r.rbp + Word <= MaxAddr + 1
  BY RequestIs, XorAssumption DEF Addr
<1>1. ASSUME a \in Reached(r) PROVE a \in r.rsp .. q - 1
  <2>1. PICK v \in 0 .. MaxAddr : /\ r.rsp + v * Word <= r.rbp
                                  /\ a \in r.rsp + v * Word .. r.rsp + v * Word + Word - 1
    BY <1>1 DEF Reached
  <2>2. v * Word \in Nat
    BY <1>0
  <2>3. v < w
    <3> SUFFICES ASSUME v >= w PROVE FALSE
      BY <2>1
    <3>1. v * Word >= w * Word
      BY <1>0
    <3> QED
      BY <1>0, <2>1, <2>2, <3>1
  <2>4. v * Word + Word <= w * Word
    <3>1. (w - v - 1) * Word >= 0
      BY <1>0, <2>1, <2>3
    <3> QED
      BY <1>0, <2>1, <3>1
  <2> QED
    BY <1>0, <2>1, <2>2, <2>4
<1>2. ASSUME a \in r.rsp .. q - 1 PROVE a \in Reached(r)
  <2> DEFINE v == (a - r.rsp) \div Word
             k == (a - r.rsp) % Word
  <2>0. a - r.rsp \in Nat
    BY <1>0, <1>2
  <2>1. v \in Nat /\ k \in 0 .. Word - 1 /\ a - r.rsp = v * Word + k
    BY <1>0, <2>0, DivisionIs
  <2> HIDE DEF v, k
  <2>2. v < w
    <3> SUFFICES ASSUME v >= w PROVE FALSE
      BY <2>1
    <3>1. v * Word >= w * Word
      BY <1>0, <2>1
    <3> QED
      BY <1>0, <1>2, <2>1, <3>1
  <2>3. v * Word + Word <= w * Word
    <3>1. (w - v - 1) * Word >= 0
      BY <1>0, <2>1, <2>2
    <3> QED
      BY <1>0, <2>1, <3>1
  <2>4. r.rsp + v * Word <= r.rbp /\ v * Word \in Nat
    BY <1>0, <2>1, <2>2, <2>3
  <2>5. v * Word >= v
    BY <1>0, <2>1
  <2>6. v \in 0 .. MaxAddr
    BY <1>0, <2>1, <2>4, <2>5
  <2>7. a \in r.rsp + v * Word .. r.rsp + v * Word + Word - 1
    BY <1>0, <2>1, <2>4
  <2> QED
    BY <2>4, <2>6, <2>7 DEF Reached
<1> QED
  BY <1>1, <1>2

(* The steps. *)
(* While no request comes or goes and the program stores nothing, what is under the keys *)
(* stays.                                                                                *)
LEMMA UnderStays ==
    ASSUME UNCHANGED <<plain, active>>
    PROVE  \A a : Under(a)' = Under(a) /\ Parity(a)' = Parity(a)
  BY DEF Under, Parity, Keyed, Masking

(* What is under the keys is a bit. *)
LEMMA UnderIs ==
    ASSUME XorTypeOK, IsFiniteSet(active), NEW a \in Addr
    PROVE  Under(a) \in Bit
  BY ParityIs, XorBits DEF Under, XorTypeOK

(* The copies of the parameters. *)
LEMMA SavedIs ==
    ASSUME XorTypeOK, NEW r \in Requests
    PROVE  /\ Saved(r.plt, mem) \in Seq(Seq(Bit))
           /\ \A n \in DOMAIN r.plt : \A c \in 1 .. r.plt[n].size :
                 /\ r.plt[n].addr + c - 1 \in Addr
                 /\ Saved(r.plt, mem)[n][c] = mem[r.plt[n].addr + c - 1]
<1> DEFINE plt == r.plt
<1>1. /\ plt \in Seq(Para) /\ MaxAddr \in Nat
      /\ \A n \in DOMAIN plt : /\ plt[n].addr \in Nat /\ plt[n].size \in Nat \ {0}
                               /\ plt[n].addr + plt[n].size <= MaxAddr + 1
  BY RequestIs, XorAssumption
<1> HIDE DEF plt
<1>2. ASSUME NEW n \in DOMAIN plt, NEW c \in 1 .. plt[n].size
      PROVE  plt[n].addr + c - 1 \in Addr
  BY <1>1 DEF Addr
<1>3. ASSUME NEW n \in DOMAIN plt
      PROVE  /\ Saved(plt, mem)[n] = [c \in 1 .. plt[n].size |-> mem[plt[n].addr + c - 1]]
             /\ Saved(plt, mem)[n] \in Seq(Bit)
  <2>1. Saved(plt, mem)[n] = [c \in DOMAIN Cells(plt[n]) |-> mem[Cells(plt[n])[c]]]
    BY DEF Saved
  <2>2. DOMAIN Cells(plt[n]) = 1 .. plt[n].size
        /\ \A c \in 1 .. plt[n].size : Cells(plt[n])[c] = plt[n].addr + c - 1
    BY DEF Cells
  <2>3. Saved(plt, mem)[n] = [c \in 1 .. plt[n].size |-> mem[plt[n].addr + c - 1]]
    BY <2>1, <2>2
  <2>4. [c \in 1 .. plt[n].size |-> mem[plt[n].addr + c - 1]] \in [1 .. plt[n].size -> Bit]
    BY <1>2 DEF XorTypeOK
  <2>5. plt[n].size \in Nat
    BY <1>1
  <2>6. Saved(plt, mem)[n] \in [1 .. plt[n].size -> Bit]
    BY <2>3, <2>4
  <2>7. Saved(plt, mem)[n] \in Seq(Bit)
    BY <2>5, <2>6, SeqDef
  <2> QED
    BY <2>3, <2>7
<1>4. Saved(plt, mem) \in [1 .. Len(plt) -> Seq(Bit)]
  BY <1>1, <1>3 DEF Saved
<1>5. Saved(plt, mem) \in Seq(Seq(Bit))
  BY <1>1, <1>4, SeqDef
<1> QED
  BY <1>2, <1>3, <1>5, ZenonT(30) DEF plt

(* The copies of a cell in b have the value v. *)
Copies(r, b, a, v) == \A n \in DOMAIN r.plt : \A c \in 1 .. r.plt[n].size :
                          a = r.plt[n].addr + c - 1 => b[n][c] = v

(* What putting the copies back makes of a cell: if all copies of it agree, their value; *)
(* a cell that is no parameter stays.                                                    *)
LEMMA PutBackPara ==
    ASSUME NEW r \in Requests, NEW b, NEW m, NEW a \in Addr, NEW v, a \in Paras(r), Copies(r, b, a, v)
    PROVE  PutBack(r.plt, b, m)[a] = v
<1> DEFINE plt == r.plt
           of == {n \in DOMAIN plt : a \in plt[n].addr .. plt[n].addr + plt[n].size - 1}
           n == CHOOSE n \in of : \A o \in of : o <= n
<1>1. /\ plt \in Seq(Para) /\ a \in Nat
      /\ \A k \in DOMAIN plt : plt[k].addr \in Nat /\ plt[k].size \in Nat \ {0}
  BY RequestIs DEF Addr
<1>2. of # {}
  BY DEF Paras
<1>3. PutBack(plt, b, m)[a] = b[n][a - plt[n].addr + 1]
  BY <1>2 DEF PutBack
<1>4. \E k \in of : \A o \in of : o <= k
  <2>1. of \subseteq 1 .. Len(plt) /\ Len(plt) \in Nat
    BY <1>1
  <2>2. \E k \in of : \A o \in of : k >= o
    BY <1>2, <2>1, Greatest
  <2> QED
    BY <2>1, <2>2
<1>5. n \in of
  BY <1>4
<1>6. n \in DOMAIN plt /\ a \in plt[n].addr .. plt[n].addr + plt[n].size - 1
  BY <1>5
<1> HIDE DEF n
<1>7. plt[n].addr \in Nat /\ plt[n].size \in Nat
  BY <1>1, <1>6
<1>8. a - plt[n].addr + 1 \in 1 .. plt[n].size /\ a = plt[n].addr + (a - plt[n].addr + 1) - 1
  <2>1. a \in Nat
    BY DEF Addr
  <2> QED
    BY <1>6, <1>7, <2>1
<1> QED
  BY <1>3, <1>6, <1>8 DEF Copies

(* Putting the parameters back changes no other cell. *)
LEMMA PutBackOther ==
    ASSUME NEW r, NEW b, NEW m, NEW a \in Addr, a \notin Paras(r)
    PROVE  PutBack(r.plt, b, m)[a] = m[a]
<1> DEFINE of == {n \in DOMAIN r.plt : a \in r.plt[n].addr .. r.plt[n].addr + r.plt[n].size - 1}
<1>1. of = {}
  BY DEF Paras
<1> QED
  BY <1>1 DEF PutBack

(* It gives a memory. *)
LEMMA PutBackType ==
    ASSUME NEW plt, NEW b, NEW m
    PROVE  PutBack(plt, b, m) = [a \in Addr |-> PutBack(plt, b, m)[a]]
<1> DEFINE of(a) == {n \in DOMAIN plt : a \in plt[n].addr .. plt[n].addr + plt[n].size - 1}
           n(a) == CHOOSE n \in of(a) : \A o \in of(a) : o <= n
           cell(a) == IF of(a) = {} THEN m[a] ELSE b[n(a)][a - plt[n(a)].addr + 1]
<1>1. PutBack(plt, b, m) = [a \in Addr |-> cell(a)]
  BY DEF PutBack
<1> HIDE DEF cell
<1> QED
  BY <1>1

(* The types, step by step. *)
(* What a call leaves in a cell when it ends: a parameter is as it was before the call. *)
LEMMA EndIs ==
    ASSUME IInv, End
    PROVE  /\ mem' = [a \in Addr |-> mem'[a]]
           /\ \A a \in Addr : mem'[a] = IF a \in Paras(req) THEN Under(a) ELSE mem[a]
<1>0. XorTypeOK /\ req \in Requests /\ p \in Nat /\ req.rbp \in Nat /\ p > req.rbp
  BY RequestIs DEF IInv, XorTypeOK, End
<1>1. PICK r \in Requests : r = req
  BY <1>0
<1>2. PICK m : m = XorTail(mem)
  OBVIOUS
<1>3. PICK b : b = buf
  OBVIOUS
<1>4. mem' = PutBack(r.plt, b, m)
  BY <1>1, <1>2, <1>3 DEF End
<1>5. \A a \in Addr : m[a] = mem[a]
  BY <1>0, <1>2 DEF XorTail
<1>6. mem' = [a \in Addr |-> mem'[a]]
  BY <1>4, PutBackType
<1>7. ASSUME NEW a \in Addr, a \notin Paras(r) PROVE mem'[a] = mem[a]
  BY <1>4, <1>5, <1>7, PutBackOther
<1>8. ASSUME NEW a \in Addr, a \in Paras(r) PROVE mem'[a] = Under(a)
  <2>1. PICK v : v = Under(a)
    OBVIOUS
  <2>2. Copies(r, b, a, v)
    BY <1>1, <1>3, <2>1 DEF IInv, Midway, End, Working, Copies
  <2>3. PutBack(r.plt, b, m)[a] = v
    BY <1>8, <2>2, PutBackPara
  <2> QED
    BY <1>4, <2>1, <2>3
<1> QED
  BY <1>1, <1>6, <1>7, <1>8

(* Types, and that the kernel breaks only between calls. *)
LEMMA TypeStep == IInv /\ [Next]_vars => XorTypeOK' /\ IsFiniteSet(active') /\ (fault' # "none" => pc' = "user")
<1> SUFFICES ASSUME IInv, [Next]_vars
             PROVE  XorTypeOK' /\ IsFiniteSet(active') /\ (fault' # "none" => pc' = "user")
  OBVIOUS
<1>0. XorTypeOK /\ IsFiniteSet(active) /\ (fault # "none" => pc = "user")
  BY DEF IInv
<1>1. ASSUME NEW a \in Addr, Store(a) PROVE XorTypeOK'
  BY <1>0, <1>1 DEF XorTypeOK, Store, Working
<1>2. ASSUME NEW r \in Requests, NEW l \in {"encrypt", "decrypt"}, Begin(r, l), Running
      PROVE  XorTypeOK' /\ IsFiniteSet(active') /\ (fault' # "none" => pc' = "user")
  <2>1. r.rsp \in Nat /\ Saved(r.plt, mem) \in Seq(Seq(Bit))
    BY <1>0, RequestIs, SavedIs
  <2> QED
    BY <1>0, <1>2, <2>1 DEF XorTypeOK, Begin, Running, Working
<1>3. ASSUME XorWord PROVE XorTypeOK'
  <2>1. \A a \in Addr : a \in p .. p + Word - 1 => Xor(mem[a], req.key[a - p]) \in Bit
    <3> SUFFICES ASSUME NEW a \in Addr, a \in p .. p + Word - 1 PROVE Xor(mem[a], req.key[a - p]) \in Bit
      OBVIOUS
    <3>1. a - p \in 0 .. Word - 1
      BY <1>0, XorAssumption DEF XorTypeOK, Addr
    <3>2. req.key[a - p] \in Bit
      BY <1>0, <3>1, RequestIs DEF XorTypeOK, Key
    <3> QED
      BY <1>0, <3>2, XorBits DEF XorTypeOK
  <2>2. mem' \in [Addr -> Bit]
    BY <1>0, <1>3, <2>1 DEF XorTypeOK, XorWord
  <2>3. p' \in Nat /\ p' <= req'.rbp + Word
    BY <1>0, <1>3, RequestIs, XorAssumption DEF XorTypeOK, XorWord
  <2> QED
    BY <1>0, <1>3, <2>2, <2>3 DEF XorTypeOK, XorWord
<1>4. ASSUME End PROVE XorTypeOK'
  <2>0. req \in Requests /\ p \in Nat /\ req.rbp \in Nat /\ p > req.rbp
    BY <1>0, <1>4, RequestIs DEF XorTypeOK, End
  <2>2. \A a \in Addr : mem'[a] \in Bit
    BY <1>0, <1>4, EndIs, UnderIs DEF XorTypeOK
  <2>3. mem' \in [Addr -> Bit]
    BY <1>4, <2>2, EndIs
  <2>4. IsFiniteSet(active \cup {req}) /\ IsFiniteSet(active \ {req})
    BY <1>0, FS_AddElement, FS_RemoveElement
  <2> QED
    BY <1>0, <1>4, <2>0, <2>3, <2>4 DEF XorTypeOK, End, Working
<1>5. CASE UNCHANGED vars
  BY <1>0, <1>5 DEF XorTypeOK, vars, Working
<1>6. ASSUME NEW a \in Addr, Store(a) PROVE UNCHANGED <<active, fault, pc>>
  BY <1>6 DEF Store
<1>7. ASSUME XorWord PROVE IsFiniteSet(active') /\ (fault' # "none" => pc' = "user")
  BY <1>0, <1>7 DEF XorWord
<1>8. ASSUME End PROVE IsFiniteSet(active') /\ (fault' # "none" => pc' = "user")
  <2>1. IsFiniteSet(active \cup {req}) /\ IsFiniteSet(active \ {req})
    BY <1>0, FS_AddElement, FS_RemoveElement
  <2> QED
    BY <1>0, <1>8, <2>1 DEF End, Working
<1> QED
  BY <1>0, <1>1, <1>2, <1>3, <1>4, <1>5, <1>6, <1>7, <1>8
  DEF Next, encrypt_stack, decrypt_stack, Halted, vars, XorWord

(* Cells and keys, step by step. *)
(* A store meets a cell that no key is over. *)
LEMMA StoreStep ==
    ASSUME IInv, NEW a \in Addr, Store(a)
    PROVE  Clear' /\ Midway'
<1>0. XorTypeOK /\ IsFiniteSet(active) /\ pc = "user" /\ Clear /\ Masking(a) = {}
  BY DEF IInv, Store, Running
<1>1. pc' = "user" /\ active' = active
  BY <1>0 DEF Store
<1>2. PICK v \in Bit : mem' = [mem EXCEPT ![a] = v] /\ plain' = [plain EXCEPT ![a] = v]
  BY DEF Store
<1>3. \A b : Parity(b)' = Parity(b)
  BY <1>1 DEF Parity, Keyed, Masking
<1>4. Parity(a) = 0
  <2>1. Keyed(a) = {}
    BY <1>0 DEF Keyed
  <2> QED
    BY <2>1, FS_EmptySet DEF Parity
<1>5. ASSUME NEW b \in Addr PROVE mem'[b] = Under(b)'
  <2>1. CASE b = a
    BY <1>0, <1>2, <1>3, <1>4, <2>1, XorBits DEF XorTypeOK, Under
  <2>2. CASE b # a
    <3>1. mem'[b] = mem[b] /\ plain'[b] = plain[b]
      BY <1>0, <1>2, <2>2 DEF XorTypeOK
    <3> QED
      BY <1>0, <1>3, <3>1 DEF Clear, Under
  <2> QED
    BY <2>1, <2>2
<1> QED
  BY <1>1, <1>5 DEF Clear, Midway

(* A call starts with no cell passed and the parameters aside. *)
LEMMA BeginStep ==
    ASSUME IInv, NEW r \in Requests, NEW l \in {"encrypt", "decrypt"}, Begin(r, l), Running,
           l = "encrypt" <=> r \notin active
    PROVE  Clear' /\ Midway'
<1>0. XorTypeOK /\ IsFiniteSet(active) /\ pc = "user" /\ \A a \in Addr : mem[a] = Under(a)
  BY DEF IInv, Clear, Running
<1>1. req' = r /\ p' = r.rsp /\ UNCHANGED <<mem, plain, active>>
  BY DEF Begin
<1>2. \A a : Under(a)' = Under(a)
  BY <1>1, UnderStays
<1>3. CASE pc' = "user"
  BY <1>0, <1>1, <1>2, <1>3 DEF Clear, Midway
<1>4. CASE pc' = l /\ buf' = Saved(r.plt, mem)
  <2>1. Words'
    <3>1. 0 \in Nat /\ r.rsp = r.rsp + 0 * Word
      BY RequestIs, XorAssumption
    <3> QED
      BY <1>1, <3>1 DEF Words
  <2>2. ASSUME NEW a \in Addr PROVE mem'[a] = Xor(Under(a)', Passed(a)')
    <3>1. Passed(a)' = 0
      BY <1>1, RequestIs DEF Passed, Addr
    <3> QED
      BY <1>0, <1>1, <1>2, <3>1, UnderIs, XorBits
  <2>3. ASSUME NEW n \in DOMAIN req'.plt, NEW c \in 1 .. req'.plt[n].size
        PROVE  buf'[n][c] = Under(req.plt[n].addr + c - 1)'
    <3>1. PICK x \in Addr : x = r.plt[n].addr + c - 1 /\ buf'[n][c] = mem[x]
      BY <1>0, <1>1, <1>4, SavedIs
    <3>2. buf'[n][c] = Under(x)'
      BY <1>0, <1>2, <3>1
    <3> QED
      BY <1>1, <3>1, <3>2 DEF Under, Parity, Keyed, Masking, KeyBit
  <2>4. pc' # "user" /\ (pc' = "encrypt" <=> req' \notin active')
    BY <1>1, <1>4
  <2> QED
    BY <2>1, <2>2, <2>3, <2>4 DEF Clear, Midway
<1> QED
  BY <1>0, <1>3, <1>4 DEF Begin

(* One word more is under the key of the call. *)
LEMMA WordStep ==
    ASSUME IInv, XorWord
    PROVE  Clear' /\ Midway'
<1>0. /\ XorTypeOK /\ IsFiniteSet(active) /\ pc # "user" /\ Midway
      /\ req \in Requests /\ p \in Nat /\ p <= req.rbp /\ req.rbp \in Nat /\ req.rsp \in Nat
      /\ req.key \in Key /\ Word \in Nat \ {0}
  BY RequestIs, XorAssumption DEF IInv, XorWord, Working, XorTypeOK
<1>1. p' = p + Word /\ UNCHANGED <<plain, active, pc, req, buf, fault>>
  BY DEF XorWord
<1>2. \A a : Under(a)' = Under(a)
  BY <1>1, UnderStays
<1>3. PICK w \in Nat : p = req.rsp + w * Word
  BY <1>0 DEF Midway, Words
<1>4. w * Word \in Nat /\ (w + 1) * Word = w * Word + Word
  BY <1>0
<1>5. Words'
  <2>1. w + 1 \in Nat /\ p' = req'.rsp + (w + 1) * Word /\ p' <= req'.rbp + Word
    BY <1>0, <1>1, <1>3, <1>4
  <2> QED
    BY <2>1 DEF Words
<1>6. ASSUME NEW a \in Addr PROVE mem'[a] = Xor(Under(a), Passed(a)')
  <2>0. a \in Nat
    BY DEF Addr
  <2>1. mem[a] = Xor(Under(a), Passed(a)) /\ Under(a) \in Bit
    BY <1>0, UnderIs DEF Midway
  <2>2. CASE a \in p .. p + Word - 1
    <3>1. Passed(a) = 0
      BY <1>0, <2>0, <2>2 DEF Passed
    <3>2. Passed(a)' = KeyBit(req, a)
      <4>1. a \in req'.rsp .. p' - 1
        BY <1>0, <1>1, <1>3, <1>4, <2>0, <2>2
      <4> QED
        BY <1>1, <4>1 DEF Passed, KeyBit
    <3>3. a - p \in 0 .. Word - 1 /\ a - req.rsp = w * Word + (a - p)
      BY <1>0, <1>3, <1>4, <2>0, <2>2
    <3>4. (a - req.rsp) % Word = a - p
      <4>1. PICK j \in 0 .. Word - 1 : j = a - p
        BY <3>3
      <4>2. (w * Word + j) % Word = j
        BY <1>0, DivisionUnique
      <4> QED
        BY <3>3, <4>1, <4>2
    <3>5. mem'[a] = Xor(mem[a], req.key[a - p])
      BY <2>2 DEF XorWord
    <3> QED
      BY <2>1, <3>1, <3>2, <3>4, <3>5, XorBits DEF KeyBit
  <2>3. CASE a \notin p .. p + Word - 1
    <3>1. mem'[a] = mem[a]
      BY <2>3 DEF XorWord
    <3>2. a \in req.rsp .. p - 1 <=> a \in req'.rsp .. p' - 1
      BY <1>0, <1>1, <1>3, <1>4, <2>0, <2>3
    <3>3. Passed(a)' = Passed(a)
      BY <1>1, <3>2 DEF Passed, KeyBit
    <3> QED
      BY <2>1, <3>1, <3>3
  <2> QED
    BY <2>2, <2>3
<1>7. \A a \in Addr : mem'[a] = Xor(Under(a)', Passed(a)')
  BY <1>2, <1>6
<1>8. ASSUME NEW n \in DOMAIN req'.plt, NEW c \in 1 .. req'.plt[n].size
      PROVE  buf'[n][c] = Under(req.plt[n].addr + c - 1)'
  <2>1. buf[n][c] = Under(req.plt[n].addr + c - 1)
    BY <1>0, <1>1 DEF Midway
  <2> QED
    BY <1>1, <2>1 DEF Under, Parity, Keyed, Masking, KeyBit
<1> QED
  BY <1>0, <1>1, <1>5, <1>7, <1>8 DEF Clear, Midway

(* The call ends: its request comes or goes, and its key is over what it has passed, or *)
(* no longer over it, but for the parameters.                                           *)
LEMMA EndStep ==
    ASSUME IInv, End
    PROVE  Clear' /\ Midway'
<1>0. /\ XorTypeOK /\ IsFiniteSet(active) /\ pc \in {"encrypt", "decrypt"} /\ Midway
      /\ req \in Requests /\ p \in Nat /\ p > req.rbp
  BY DEF IInv, End, Working, XorTypeOK
<1>1. pc' = "user" /\ plain' = plain
  BY DEF End
<1>2. PICK w \in Nat : p = req.rsp + w * Word /\ (w = 0 \/ p <= req.rbp + Word)
  BY <1>0 DEF Midway, Words
<1>3. PICK r \in Requests : r = req
  BY <1>0
<1>4. ASSUME NEW a \in Addr
      PROVE  Parity(a)' = IF a \in Reached(r) \ Paras(r) THEN Xor(Parity(a), KeyBit(r, a)) ELSE Parity(a)
  <2>1. CASE pc = "encrypt"
    <3>1. active' = active \cup {r} /\ r \notin active
      BY <1>0, <1>3, <2>1 DEF End, Midway
    <3> QED
      BY <1>0, <3>1, ParityAdd
  <2>2. CASE pc = "decrypt"
    <3>1. active' = active \ {r} /\ r \in active
      BY <1>0, <1>3, <2>2 DEF End, Midway
    <3> QED
      BY <1>0, <3>1, ParityRemove
  <2> QED
    BY <1>0, <2>1, <2>2
<1>5. ASSUME NEW a \in Addr PROVE mem'[a] = Under(a)'
  <2>1. Under(a)' = Xor(plain[a], Parity(a)')
    BY <1>1 DEF Under
  <2>2. plain[a] \in Bit /\ Parity(a) \in Bit /\ KeyBit(r, a) \in Bit /\ Under(a) \in Bit
    BY <1>0, ParityIs, KeyBitIs, UnderIs DEF XorTypeOK, Addr
  <2>3. CASE a \in Paras(r)
    BY <1>3, <1>4, <2>1, <2>3, EndIs DEF Under
  <2>4. CASE a \notin Paras(r)
    <3>1. mem'[a] = Xor(Under(a), Passed(a))
      BY <1>0, <1>3, <2>4, EndIs DEF Midway
    <3>2. a \in Reached(r) <=> a \in r.rsp .. p - 1
      <4>1. PICK q \in Nat : q = p
        BY <1>0
      <4>2. q = r.rsp + w * Word /\ q > r.rbp /\ (w = 0 \/ q <= r.rbp + Word)
        BY <1>0, <1>2, <1>3, <4>1
      <4>3. a \in Reached(r) <=> a \in r.rsp .. q - 1
        BY <4>2, ReachedIs
      <4> QED
        BY <4>1, <4>3
    <3>3. CASE a \in Reached(r)
      <4>1. Passed(a) = KeyBit(r, a)
        BY <1>3, <3>2, <3>3 DEF Passed
      <4>2. Under(a)' = Xor(plain[a], Xor(Parity(a), KeyBit(r, a)))
        BY <1>4, <2>1, <2>4, <3>3
      <4> QED
        BY <2>2, <3>1, <4>1, <4>2, XorBits DEF Under
    <3>4. CASE a \notin Reached(r)
      <4>1. Passed(a) = 0
        BY <1>3, <3>2, <3>4 DEF Passed
      <4>2. Under(a)' = Under(a)
        BY <1>4, <2>1, <3>4 DEF Under
      <4> QED
        BY <2>2, <3>1, <4>1, <4>2, XorBits
    <3> QED
      BY <3>3, <3>4
  <2> QED
    BY <2>3, <2>4
<1> QED
  BY <1>1, <1>5 DEF Clear, Midway

(* Nothing is encrypted at the start. *)
LEMMA InitIInv == Init => IInv
<1> SUFFICES ASSUME Init PROVE IInv
  OBVIOUS
<1>1. IsFiniteSet(active)
  BY FS_EmptySet DEF Init
<1>2. XorTypeOK
  BY DEF Init, XorTypeOK, Working
<1>3. \A a \in Addr : Parity(a) = 0
  <2>1. \A a \in Addr : Keyed(a) = {}
    BY DEF Init, Keyed, Masking
  <2> QED
    BY <2>1, FS_EmptySet DEF Parity
<1>4. \A a \in Addr : mem[a] = Under(a)
  BY <1>2, <1>3, XorBits DEF Init, XorTypeOK, Under
<1> QED
  BY <1>1, <1>2, <1>4 DEF Init, IInv, Clear, Midway

(* Between calls and in the midst of one, every cell is its plain value under the keys that *)
(* are to be over it: the inductive invariant of encrypt_stack and decrypt_stack.           *)
THEOREM XorInvariant == Spec => []IInv
<1>1. IInv /\ UNCHANGED vars => Clear' /\ Midway'
  BY DEF IInv, Clear, Midway, Words, Passed, Under, Parity, Keyed, Masking, KeyBit, vars
<1>2. IInv /\ [Next]_vars => Clear' /\ Midway'
  BY <1>1, StoreStep, BeginStep, WordStep, EndStep DEF Next, encrypt_stack, decrypt_stack, Halted
<1>3. IInv /\ [Next]_vars => IInv'
  BY <1>2, TypeStep DEF IInv
<1> QED
  BY <1>3, InitIInv, PTL DEF Spec

(* The cells stay bits, the copies of the parameters bits too, and a call never goes more   *)
(* than a word beyond rbp.                                                                  *)
THEOREM XorTypeCorrect == Spec => []XorTypeOK
<1>1. IInv => XorTypeOK
  BY DEF IInv
<1> QED
  BY <1>1, XorInvariant, PTL

(* For every stack, word size, key and set of requests: frames may be encrypted and         *)
(* decrypted in any order and overlap as they like, and each cell is under exactly the keys *)
(* of the requests that are encrypted and reach it.                                         *)
THEOREM MaskedHolds == Spec => []Masked
<1>1. IInv => Masked
  BY DEF IInv, Clear, Masked, Running, Under, Parity, Keyed
<1> QED
  BY <1>1, XorInvariant, PTL
=============================================================================
