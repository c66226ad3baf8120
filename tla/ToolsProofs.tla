---------------------------- MODULE ToolsProofs -----------------------------
(***************************************************************************)
(* The two tools for every call graph, list of names and module: that the  *)
(* parser adds what it must and nothing else, and that the pass puts its   *)
(* calls behind the calls of multi, keeps what the programmer wrote and    *)
(* does not crash where invoke is defined early enough.                    *)
(***************************************************************************)
EXTENDS Tools, NumberFacts, FiniteSetTheorems, SequenceTheorems

(* Inserting into a list of instructions *)

(* Insertion before place p moves what was there and behind it one place on. *)
LEMMA InsertOne ==
    ASSUME NEW T, NEW q \in Seq(T), NEW p \in 1 .. Len(q) + 1, NEW e \in T
    PROVE  LET r == InsertAt(q, p, e)
           IN  /\ r \in Seq(T) /\ Len(r) = Len(q) + 1
               /\ \A n \in 1 .. p - 1 : r[n] = q[n]
               /\ r[p] = e
               /\ \A n \in p .. Len(q) : r[n + 1] = q[n]
<1> DEFINE l == Len(q)
           a == SubSeq(q, 1, p - 1)
           b == SubSeq(q, p, l)
           ae == a \o <<e>>
           r == ae \o b
<1>1. l \in Nat /\ p \in Nat /\ p >= 1 /\ p <= l + 1 /\ DOMAIN q = 1 .. l
  OBVIOUS
<1>2. a \in Seq(T) /\ Len(a) = p - 1 /\ \A n \in 1 .. p - 1 : a[n] = q[n]
  <2>1. \A n \in 1 .. p - 1 : q[n] \in T
    BY <1>1
  <2>2. /\ a \in Seq(T) /\ Len(a) = IF 1 <= p - 1 THEN p - 1 - 1 + 1 ELSE 0
        /\ \A n \in 1 .. p - 1 - 1 + 1 : a[n] = q[1 + n - 1]
    BY <1>1, <2>1, SubSeqProperties
  <2> HIDE DEF a, l
  <2> QED
    BY <1>1, <2>2
<1>3. b \in Seq(T) /\ Len(b) = l - p + 1 /\ \A n \in 1 .. l - p + 1 : b[n] = q[p + n - 1]
  <2>1. \A n \in p .. l : q[n] \in T
    BY <1>1
  <2>2. /\ b \in Seq(T) /\ Len(b) = IF p <= l THEN l - p + 1 ELSE 0
        /\ \A n \in 1 .. l - p + 1 : b[n] = q[p + n - 1]
    BY <1>1, <2>1, SubSeqProperties
  <2> HIDE DEF b, l
  <2> QED
    BY <1>1, <2>2
<1>4. <<e>> \in Seq(T) /\ Len(<<e>>) = 1 /\ <<e>>[1] = e
  OBVIOUS
<1> HIDE DEF a, b, l
<1>5. /\ ae \in Seq(T) /\ Len(ae) = p /\ \A n \in 1 .. p - 1 : ae[n] = q[n]
      /\ ae[p] = e
  <2>1. ae \in Seq(T) /\ Len(ae) = Len(a) + 1
        /\ \A n \in 1 .. Len(a) + 1 : ae[n] = IF n <= Len(a) THEN a[n] ELSE <<e>>[n - Len(a)]
    BY <1>2, <1>4, ConcatProperties
  <2> HIDE DEF ae
  <2>2. Len(ae) = p
    BY <1>1, <1>2, <2>1
  <2>3. \A n \in 1 .. p - 1 : ae[n] = q[n]
    BY <1>1, <1>2, <2>1
  <2>4. p \in 1 .. Len(a) + 1 /\ ~(p <= Len(a)) /\ p - Len(a) = 1
    BY <1>1, <1>2
  <2>5. ae[p] = <<e>>[p - Len(a)]
    BY <2>1, <2>4
  <2>6. ae[p] = e
    BY <1>4, <2>4, <2>5
  <2> QED
    BY <2>1, <2>2, <2>3, <2>6
<1> HIDE DEF ae
<1>6. r \in Seq(T) /\ Len(r) = p + (l - p + 1)
      /\ \A n \in 1 .. p + (l - p + 1) : r[n] = IF n <= p THEN ae[n] ELSE b[n - p]
  <2>1. r \in Seq(T) /\ Len(r) = Len(ae) + Len(b)
        /\ \A n \in 1 .. Len(ae) + Len(b) : r[n] = IF n <= Len(ae) THEN ae[n] ELSE b[n - Len(ae)]
    BY <1>3, <1>5, ConcatProperties
  <2> HIDE DEF r
  <2>2. Len(ae) = p /\ Len(b) = l - p + 1
    BY <1>3, <1>5
  <2> QED
    BY <2>1, <2>2
<1> HIDE DEF r
<1>7. \A n \in p .. l : r[n + 1] = q[n]
  <2> SUFFICES ASSUME NEW n \in p .. l PROVE r[n + 1] = q[n]
    OBVIOUS
  <2>1. r[n + 1] = b[n + 1 - p] /\ n + 1 - p \in 1 .. l - p + 1
    BY <1>1, <1>6
  <2>2. b[n + 1 - p] = q[p + (n + 1 - p) - 1]
    BY <1>3, <2>1
  <2>3. p + (n + 1 - p) - 1 = n
    BY <1>1
  <2> QED
    BY <2>1, <2>2, <2>3
<1>8. Len(r) = l + 1 /\ (\A n \in 1 .. p - 1 : r[n] = q[n]) /\ r[p] = e
  BY <1>1, <1>5, <1>6
<1>9. InsertAt(q, p, e) = r
  BY DEF InsertAt, r, ae, a, b, l
<1> QED
  BY <1>6, <1>7, <1>8, <1>9 DEF l

(* The same, as one fact. *)
Inserted(r, T, q, p, e) ==
    /\ r \in Seq(T) /\ Len(r) = Len(q) + 1
    /\ \A n \in 1 .. p - 1 : r[n] = q[n]
    /\ r[p] = e
    /\ \A n \in p .. Len(q) : r[n + 1] = q[n]

(* InsertAt() inserts. *)
LEMMA InsertedAs ==
    ASSUME NEW T, NEW q \in Seq(T), NEW p \in 1 .. Len(q) + 1, NEW e \in T
    PROVE  Inserted(InsertAt(q, p, e), T, q, p, e)
BY InsertOne DEF Inserted

(* Two insertions behind place p: first x, then y, and the rest. *)
InsertedTwo(r, T, q, p, x, y) ==
    /\ r \in Seq(T) /\ Len(r) = Len(q) + 2
    /\ \A n \in 1 .. p : r[n] = q[n]
    /\ r[p + 1] = x /\ r[p + 2] = y
    /\ \A n \in p + 1 .. Len(q) : r[n + 2] = q[n]

(* InsertAt() of y and then of x does it. *)
LEMMA InsertTwo ==
    ASSUME NEW T, NEW q \in Seq(T), NEW p \in 1 .. Len(q), NEW x \in T, NEW y \in T
    PROVE  InsertedTwo(InsertAt(InsertAt(q, p + 1, y), p + 1, x), T, q, p, x, y)
<1> DEFINE l == Len(q)
           q1 == InsertAt(q, p + 1, y)
           r == InsertAt(q1, p + 1, x)
<1>1. l \in Nat /\ p \in Nat /\ p >= 1 /\ p <= l
  OBVIOUS
<1>2. /\ q1 \in Seq(T) /\ Len(q1) = l + 1
      /\ \A n \in 1 .. p + 1 - 1 : q1[n] = q[n]
      /\ q1[p + 1] = y
      /\ \A n \in p + 1 .. l : q1[n + 1] = q[n]
  <2>1. PICK pp \in 1 .. Len(q) + 1 : pp = p + 1
    BY <1>1
  <2> HIDE DEF q1
  <2>2. q1 = InsertAt(q, pp, y)
    BY <2>1 DEF q1
  <2>3. /\ q1 \in Seq(T) /\ Len(q1) = Len(q) + 1
        /\ \A n \in 1 .. pp - 1 : q1[n] = q[n]
        /\ q1[pp] = y
        /\ \A n \in pp .. Len(q) : q1[n + 1] = q[n]
    BY <2>2, InsertOne
  <2> QED
    BY <2>1, <2>3
<1> HIDE DEF q1, l
<1>3. /\ r \in Seq(T) /\ Len(r) = l + 1 + 1
      /\ \A n \in 1 .. p + 1 - 1 : r[n] = q1[n]
      /\ r[p + 1] = x
      /\ \A n \in p + 1 .. l + 1 : r[n + 1] = q1[n]
  <2>1. PICK pp \in 1 .. Len(q1) + 1 : pp = p + 1
    BY <1>1, <1>2
  <2>2. r = InsertAt(q1, pp, x)
    BY <2>1 DEF r
  <2> HIDE DEF r
  <2>3. Len(q1) = l + 1
    BY <1>2
  <2>0. q1 \in Seq(T)
    BY <1>2
  <2>4. /\ r \in Seq(T) /\ Len(r) = Len(q1) + 1
        /\ \A n \in 1 .. pp - 1 : r[n] = q1[n]
        /\ r[pp] = x
        /\ \A n \in pp .. Len(q1) : r[n + 1] = q1[n]
    <3>1. Inserted(InsertAt(q1, pp, x), T, q1, pp, x)
      BY <2>0, <2>1, InsertedAs
    <3> QED
      BY <2>2, <3>1 DEF Inserted
  <2> QED
    BY <2>1, <2>3, <2>4
<1> HIDE DEF r
<1>4. r[p + 2] = y
  <2>1. p + 1 \in p + 1 .. l + 1 /\ p + 1 + 1 = p + 2
    BY <1>1
  <2> QED
    BY <1>2, <1>3, <2>1
<1>5. \A n \in p + 1 .. l : r[n + 2] = q[n]
  <2> SUFFICES ASSUME NEW n \in p + 1 .. l PROVE r[n + 2] = q[n]
    OBVIOUS
  <2>1. n + 1 \in p + 1 .. l + 1 /\ n + 1 + 1 = n + 2
    BY <1>1
  <2> QED
    BY <1>2, <1>3, <2>1
<1>6. \A n \in 1 .. p : r[n] = q[n]
  BY <1>1, <1>2, <1>3
<1>7. Len(r) = Len(q) + 2
  BY <1>1, <1>3 DEF l
<1>8. \A n \in p + 1 .. Len(q) : r[n + 2] = q[n]
  BY <1>5 DEF l
<1>9. InsertedTwo(r, T, q, p, x, y)
  BY <1>3, <1>4, <1>6, <1>7, <1>8 DEF InsertedTwo
<1> QED
  BY <1>9 DEF r, q1

(* The pass *)

Func == [name : Names, insts : Seq(Pass!Inst)]

(* The state of the pass is typed, and what it has not come to is as it was written. *)
PassTyped ==
    /\ source \in Modules /\ source \in Seq(Func) /\ module \in Seq(Func)
    /\ Len(module) = Len(source) /\ Len(source) \in Nat
    /\ \A f \in 1 .. Len(source) : module[f].name = source[f].name
    /\ F \in 1 .. Len(source) + 1 /\ I \in Nat \ {0}
    /\ insert_func \in {"NULL", "invoke"} /\ pass \in {"function", "inst", "done", "crash"}
    /\ pass # "done" => F <= Len(source)

Untouched ==
    \A f \in 1 .. Len(source) : f > F \/ (f = F /\ pass = "function") => module[f].insts = source[f].insts

(* What Instrumented says of a function whose instructions old have become is and of      *)
(* which the places in g were gone over.                                                  *)
KeptIn(old, is) == \E place \in [DOMAIN old -> DOMAIN is] : Pass!Kept(place, old, is)

Behind(is, g) ==
    \A n \in DOMAIN is :
        (Pass!Own(is[n]) /\ Pass!CallsMulti(is[n]) /\ n \in g) =>
            n + 2 <= Len(is) /\ is[n + 1] = Pass!Syscall /\ is[n + 2] = Pass!Invoked

Only(is) ==
    \A n \in DOMAIN is :
        ~Pass!Own(is[n]) =>
            \/ n > 1 /\ Pass!CallsMulti(is[n - 1]) /\ is[n] = Pass!Syscall
            \/ n > 2 /\ Pass!CallsMulti(is[n - 2]) /\ is[n - 1] = Pass!Syscall /\ is[n] = Pass!Invoked

Shape(f) == /\ KeptIn(source[f].insts, module[f].insts)
            /\ Behind(module[f].insts, Pass!GoneOver(f))
            /\ Only(module[f].insts)
Shapes == \A f \in 1 .. Len(source) : Shape(f)

(* At most two inserted instructions are ahead of the pass, and it is at the first.       *)
AheadIn(is, i) == \A n \in DOMAIN is : n >= i /\ ~Pass!Own(is[n]) => n = i \/ (n = i + 1 /\ ~Pass!Own(is[i]))
Ahead == pass = "inst" => AheadIn(module[F].insts, I)

(* While no invoke was met, no function gone over is one; a crash means that one calls     *)
(* multi all the same.                                                                     *)
DefinesInvoke(f) == source[f].name = "invoke" /\ source[f].insts # <<>>
NotMet == insert_func = "NULL" =>
              \A f \in 1 .. Len(source) : f < F \/ (f = F /\ pass # "function") => ~DefinesInvoke(f)
CrashCause == pass = "crash" => ~Pass!InvokeFirst

PassInv == PassTyped /\ Untouched /\ Shapes /\ Ahead /\ NotMet /\ CrashCause

(* What the programmer wrote is typed and its own. *)
LEMMA Written ==
    ASSUME NEW m \in Modules
    PROVE  /\ m \in Seq(Func) /\ Len(m) \in Nat \ {0}
           /\ \A f \in 1 .. Len(m) : \A n \in DOMAIN m[f].insts : Pass!Own(m[f].insts[n])
<1> DEFINE W == [op : {"call", "asm", "other"}, callee : Names \cup {"NULL"}, inserted : {FALSE}]
           WF == [name : Names, insts : Seq(W)]
<1>1. m \in Seq(WF) /\ m # <<>>
  BY ModuleAssumption
<1>2. W \subseteq Pass!Inst
  BY DEF Pass!Inst
<1>3. \A q \in Seq(W) : q \in Seq(Pass!Inst)
  <2> SUFFICES ASSUME NEW q \in Seq(W) PROVE q \in Seq(Pass!Inst)
    OBVIOUS
  <2> HIDE DEF W
  <2> QED
    BY <1>2
<1>4. \A w \in WF : w \in Func
  BY <1>3 DEF Func
<1>5. \A w \in WF : w.insts \in Seq(W)
  OBVIOUS
<1> HIDE DEF WF
<1>6. Len(m) \in Nat /\ \A f \in 1 .. Len(m) : m[f] \in WF
  BY <1>1
<1>7. m \in Seq(Func)
  BY <1>1, <1>4, <1>6
<1>8. Len(m) # 0
  BY <1>1
<1>9. \A f \in 1 .. Len(m) : \A n \in DOMAIN m[f].insts : m[f].insts[n] \in W
  <2> SUFFICES ASSUME NEW f \in 1 .. Len(m), NEW n \in DOMAIN m[f].insts PROVE m[f].insts[n] \in W
    OBVIOUS
  <2> HIDE DEF W
  <2>1. m[f].insts \in Seq(W)
    BY <1>5, <1>6
  <2> QED
    BY <2>1
<1>10. \A x \in W : Pass!Own(x)
  BY DEF Pass!Own
<1> QED
  BY <1>6, <1>7, <1>8, <1>9, <1>10

(* A list in which nothing is inserted has the shape when nothing of it was gone over.    *)
LEMMA FreshShape ==
    ASSUME NEW old \in Seq(Pass!Inst), \A n \in DOMAIN old : Pass!Own(old[n])
    PROVE  KeptIn(old, old) /\ Behind(old, {}) /\ Only(old) /\ AheadIn(old, 1)
<1> DEFINE place == [n \in DOMAIN old |-> n]
<1>1. place \in [DOMAIN old -> DOMAIN old]
  OBVIOUS
<1>2. Pass!Kept(place, old, old)
  BY DEF Pass!Kept
<1>3. KeptIn(old, old)
  BY <1>1, <1>2 DEF KeptIn
<1> QED
  BY <1>3 DEF Behind, Only, AheadIn

(* The pass starts in a state of the invariant. *)
LEMMA PassInitInv == ToolsInit => PassInv
<1> SUFFICES ASSUME ToolsInit PROVE PassInv
  OBVIOUS
<1>1. /\ source \in Modules /\ module = source /\ F = 1 /\ I = 1
      /\ insert_func = "NULL" /\ pass = "function"
  BY DEF ToolsInit, Pass!Init
<1>2. /\ source \in Seq(Func) /\ Len(source) \in Nat \ {0}
      /\ \A f \in 1 .. Len(source) : \A n \in DOMAIN source[f].insts : Pass!Own(source[f].insts[n])
  BY <1>1, Written
<1>3. PassTyped
  BY <1>1, <1>2 DEF PassTyped
<1>4. Untouched /\ Ahead /\ NotMet /\ CrashCause
  BY <1>1, <1>2 DEF Untouched, Ahead, NotMet, CrashCause
<1>5. Shapes
  <2> SUFFICES ASSUME NEW f \in 1 .. Len(source) PROVE Shape(f)
    BY DEF Shapes
  <2>1. PICK old : old = source[f].insts
    OBVIOUS
  <2>2. source[f] \in Func
    BY <1>2
  <2>5. old \in Seq(Pass!Inst)
    BY <2>1, <2>2 DEF Func
  <2>6. \A n \in DOMAIN old : Pass!Own(old[n])
    BY <1>2, <2>1
  <2>3. KeptIn(old, old) /\ Behind(old, {}) /\ Only(old)
    BY <2>5, <2>6, FreshShape
  <2>4. Pass!GoneOver(f) = {}
    BY <1>1, <1>2 DEF Pass!GoneOver
  <2> QED
    BY <1>1, <2>1, <2>3, <2>4 DEF Shape
<1> QED
  BY <1>3, <1>4, <1>5 DEF PassInv

(* What the insertion does to the shape of a function *)

(* Neither inserted instruction is a call of multi or the programmer's. *)
LEMMA InsertedIs ==
    /\ Pass!Syscall \in Pass!Inst /\ Pass!Invoked \in Pass!Inst
    /\ ~Pass!CallsMulti(Pass!Syscall) /\ ~Pass!CallsMulti(Pass!Invoked)
    /\ ~Pass!Own(Pass!Syscall) /\ ~Pass!Own(Pass!Invoked)
<1>1. Pass!Syscall \in Pass!Inst
  <2>1. PICK o \in {"call", "asm", "other"}, c \in Names \cup {"NULL"} : o = "asm" /\ c = "NULL"
    OBVIOUS
  <2>2. PICK x \in BOOLEAN : x = TRUE
    OBVIOUS
  <2>3. [op |-> o, callee |-> c, inserted |-> x] \in Pass!Inst
    BY DEF Pass!Inst
  <2> QED
    BY <2>1, <2>2, <2>3 DEF Pass!Syscall
<1>2. Pass!Invoked \in Pass!Inst
  <2>1. PICK o \in {"call", "asm", "other"}, c \in Names \cup {"NULL"} : o = "call" /\ c = "invoke"
    BY ModuleAssumption
  <2>2. PICK x \in BOOLEAN : x = TRUE
    OBVIOUS
  <2>3. [op |-> o, callee |-> c, inserted |-> x] \in Pass!Inst
    BY DEF Pass!Inst
  <2> QED
    BY <2>1, <2>2, <2>3 DEF Pass!Invoked
<1>3. ~Pass!CallsMulti(Pass!Syscall) /\ ~Pass!Own(Pass!Syscall)
  BY DEF Pass!Syscall, Pass!CallsMulti, Pass!Own
<1>4. ~Pass!CallsMulti(Pass!Invoked)
  BY DEF Pass!Invoked, Pass!CallsMulti
<1>5. ~Pass!Own(Pass!Invoked)
  BY DEF Pass!Invoked, Pass!Own
<1> QED
  BY <1>1, <1>2, <1>3, <1>4, <1>5

(* A call of multi is the programmer's. *)
LEMMA MultiIsOwn ==
    ASSUME NEW is, Only(is), NEW n \in DOMAIN is, Pass!CallsMulti(is[n])
    PROVE  Pass!Own(is[n])
BY InsertedIs DEF Only

(* The two calls are put behind a call of multi at place i, which the pass is at. *)
TwoBehind(r, is, i) ==
    /\ r \in Seq(Pass!Inst) /\ Len(r) = Len(is) + 2
    /\ \A n \in 1 .. i : r[n] = is[n]
    /\ r[i + 1] = Pass!Syscall /\ r[i + 2] = Pass!Invoked
    /\ \A n \in i + 1 .. Len(is) : r[n + 2] = is[n]

(* That is what the two insertions do. *)
LEMMA TwiceBehind ==
    ASSUME NEW is \in Seq(Pass!Inst), NEW i \in 1 .. Len(is)
    PROVE  TwoBehind(InsertAt(InsertAt(is, i + 1, Pass!Invoked), i + 1, Pass!Syscall), is, i)
<1>1. PICK x \in Pass!Inst, y \in Pass!Inst : x = Pass!Syscall /\ y = Pass!Invoked
  BY InsertedIs
<1>2. PICK r : r = InsertAt(InsertAt(is, i + 1, y), i + 1, x)
  OBVIOUS
<1>3. /\ r \in Seq(Pass!Inst) /\ Len(r) = Len(is) + 2
      /\ \A n \in 1 .. i : r[n] = is[n]
      /\ r[i + 1] = x /\ r[i + 2] = y
      /\ \A n \in i + 1 .. Len(is) : r[n + 2] = is[n]
  <2>1. InsertedTwo(InsertAt(InsertAt(is, i + 1, y), i + 1, x), Pass!Inst, is, i, x, y)
    BY InsertTwo
  <2> QED
    BY <1>2, <2>1 DEF InsertedTwo
<1>4. TwoBehind(r, is, i)
  BY <1>1, <1>3 DEF TwoBehind
<1> QED
  BY <1>1, <1>2, <1>4

(* What the programmer wrote is kept in its order. *)
LEMMA InsertKeeps ==
    ASSUME NEW old \in Seq(Pass!Inst), NEW is \in Seq(Pass!Inst), NEW r, NEW i \in 1 .. Len(is),
           KeptIn(old, is), TwoBehind(r, is, i)
    PROVE  KeptIn(old, r)
<1>1. PICK place \in [DOMAIN old -> DOMAIN is] : Pass!Kept(place, old, is)
  BY DEF KeptIn
<1> DEFINE on == [n \in DOMAIN old |-> IF place[n] <= i THEN place[n] ELSE place[n] + 2]
<1>2. /\ r \in Seq(Pass!Inst) /\ Len(r) = Len(is) + 2 /\ Len(is) \in Nat /\ i \in Nat
      /\ i >= 1 /\ i <= Len(is) /\ DOMAIN r = 1 .. Len(is) + 2 /\ DOMAIN is = 1 .. Len(is)
  BY DEF TwoBehind
<1>3. \A n \in DOMAIN old : place[n] \in 1 .. Len(is)
  BY <1>2
<1>4. on \in [DOMAIN old -> DOMAIN r]
  BY <1>2, <1>3
<1>5. \A n \in DOMAIN old : on[n] = IF place[n] <= i THEN place[n] ELSE place[n] + 2
  OBVIOUS
<1> HIDE DEF on
<1>6. \A n \in DOMAIN old : r[on[n]] = old[n]
  <2> SUFFICES ASSUME NEW n \in DOMAIN old PROVE r[on[n]] = old[n]
    OBVIOUS
  <2>1. is[place[n]] = old[n]
    BY <1>1 DEF Pass!Kept
  <2>2. r[on[n]] = is[place[n]]
    BY <1>2, <1>3, <1>5 DEF TwoBehind
  <2> QED
    BY <2>1, <2>2
<1>7. \A m, n \in DOMAIN old : m < n => on[m] < on[n]
  <2> SUFFICES ASSUME NEW m \in DOMAIN old, NEW n \in DOMAIN old, m < n PROVE on[m] < on[n]
    OBVIOUS
  <2>1. place[m] < place[n]
    BY <1>1 DEF Pass!Kept
  <2> QED
    BY <1>2, <1>3, <1>5, <2>1
<1>8. \A k \in DOMAIN r : Pass!Own(r[k]) => \E n \in DOMAIN old : on[n] = k
  <2> SUFFICES ASSUME NEW k \in 1 .. Len(is) + 2, Pass!Own(r[k]) PROVE \E n \in DOMAIN old : on[n] = k
    BY <1>2
  <2>1. k # i + 1 /\ k # i + 2
    BY InsertedIs DEF TwoBehind
  <2>2. \A p \in 1 .. Len(is) : Pass!Own(is[p]) => \E n \in DOMAIN old : place[n] = p
    BY <1>1, <1>2 DEF Pass!Kept
  <2>3. CASE k <= i
    <3>1. k \in 1 .. Len(is) /\ r[k] = is[k]
      BY <1>2, <2>3 DEF TwoBehind
    <3>2. PICK n \in DOMAIN old : place[n] = k
      BY <2>2, <3>1
    <3> QED
      BY <1>5, <2>3, <3>2
  <2>4. CASE k > i + 2
    <3>1. PICK p \in i + 1 .. Len(is) : k = p + 2
      BY <1>2, <2>4
    <3>2. r[k] = is[p] /\ p \in 1 .. Len(is) /\ ~(p <= i)
      BY <1>2, <3>1 DEF TwoBehind
    <3>3. PICK n \in DOMAIN old : place[n] = p
      BY <2>2, <3>2
    <3> QED
      BY <1>5, <3>1, <3>2, <3>3
  <2> QED
    BY <1>2, <2>1, <2>3, <2>4
<1>9. Pass!Kept(on, old, r)
  BY <1>6, <1>7, <1>8 DEF Pass!Kept
<1> QED
  BY <1>4, <1>9 DEF KeptIn

(* They are behind the calls of multi, the new one included, and nowhere else. *)
LEMMA InsertShapes ==
    ASSUME NEW is \in Seq(Pass!Inst), NEW r, NEW i \in 1 .. Len(is), Pass!CallsMulti(is[i]),
           Behind(is, 1 .. i - 1), Only(is), AheadIn(is, i), TwoBehind(r, is, i)
    PROVE  Behind(r, 1 .. i) /\ Only(r) /\ AheadIn(r, i + 1)
<1>1. PICK l \in Nat : l = Len(is)
  OBVIOUS
<1>2. /\ Len(r) = l + 2 /\ i \in Nat /\ i >= 1 /\ i <= l /\ DOMAIN r = 1 .. l + 2 /\ DOMAIN is = 1 .. l
  BY <1>1 DEF TwoBehind
<1>3. /\ \A n \in 1 .. i : r[n] = is[n]
      /\ r[i + 1] = Pass!Syscall /\ r[i + 2] = Pass!Invoked
      /\ \A n \in i + 1 .. l : r[n + 2] = is[n]
  BY <1>1 DEF TwoBehind
<1>4. Pass!Own(is[i])
  BY <1>2, MultiIsOwn
<1>5. \A n \in i .. l : Pass!Own(is[n])
  BY <1>2, <1>4 DEF AheadIn
<1>6. \A n \in 1 .. l + 2 : n > i + 2 => Pass!Own(r[n])
  <2> SUFFICES ASSUME NEW n \in 1 .. l + 2, n > i + 2 PROVE Pass!Own(r[n])
    OBVIOUS
  <2>1. PICK p \in i + 1 .. l : n = p + 2
    BY <1>2
  <2>2. r[n] = is[p]
    BY <1>3, <2>1
  <2>3. p \in i .. l
    BY <1>2
  <2> QED
    BY <1>5, <2>2, <2>3
<1>7. Behind(r, 1 .. i)
  <2> SUFFICES ASSUME NEW n \in 1 .. l + 2, n \in 1 .. i, Pass!Own(r[n]), Pass!CallsMulti(r[n])
               PROVE  n + 2 <= l + 2 /\ r[n + 1] = Pass!Syscall /\ r[n + 2] = Pass!Invoked
    BY <1>2 DEF Behind
  <2>1. CASE n = i
    BY <1>2, <1>3, <2>1
  <2>2. CASE n < i
    <3>1. n \in 1 .. i - 1 /\ n \in DOMAIN is /\ r[n] = is[n]
      BY <1>2, <1>3, <2>2
    <3>2. n + 2 <= l /\ is[n + 1] = Pass!Syscall /\ is[n + 2] = Pass!Invoked
      BY <1>1, <3>1 DEF Behind
    <3>3. n + 1 # i
      BY <3>2, InsertedIs
    <3>4. n + 1 \in 1 .. i /\ n + 2 \in 1 .. i
      BY <1>2, <2>2, <3>3
    <3> QED
      BY <1>2, <1>3, <3>2, <3>4
  <2> QED
    BY <1>2, <2>1, <2>2
<1>8. Only(r)
  <2> SUFFICES ASSUME NEW n \in 1 .. l + 2, ~Pass!Own(r[n])
               PROVE  \/ n > 1 /\ Pass!CallsMulti(r[n - 1]) /\ r[n] = Pass!Syscall
                      \/ n > 2 /\ Pass!CallsMulti(r[n - 2]) /\ r[n - 1] = Pass!Syscall /\ r[n] = Pass!Invoked
    BY <1>2 DEF Only
  <2>1. CASE n = i + 1
    <3>1. n - 1 = i /\ n > 1 /\ r[i] = is[i]
      BY <1>2, <1>3, <2>1
    <3> QED
      BY <1>3, <2>1, <3>1
  <2>2. CASE n = i + 2
    <3>1. n - 2 = i /\ n - 1 = i + 1 /\ n > 2 /\ r[i] = is[i]
      BY <1>2, <1>3, <2>2
    <3> QED
      BY <1>3, <2>2, <3>1
  <2>3. CASE n <= i
    <3>1. n \in DOMAIN is /\ r[n] = is[n]
      BY <1>2, <1>3, <2>3
    <3>2. \/ n > 1 /\ Pass!CallsMulti(is[n - 1]) /\ is[n] = Pass!Syscall
          \/ n > 2 /\ Pass!CallsMulti(is[n - 2]) /\ is[n - 1] = Pass!Syscall /\ is[n] = Pass!Invoked
      BY <3>1 DEF Only
    <3>3. n > 1 => r[n - 1] = is[n - 1]
      BY <1>2, <1>3, <2>3
    <3>4. n > 2 => r[n - 2] = is[n - 2]
      BY <1>2, <1>3, <2>3
    <3>5. n > 2 => n > 1
      OBVIOUS
    <3> QED
      BY <3>1, <3>2, <3>3, <3>4, <3>5
  <2> QED
    BY <1>2, <1>6, <2>1, <2>2, <2>3
<1>9. AheadIn(r, i + 1)
  <2> SUFFICES ASSUME NEW n \in 1 .. l + 2, n >= i + 1, ~Pass!Own(r[n])
               PROVE  n = i + 1 \/ (n = i + 1 + 1 /\ ~Pass!Own(r[i + 1]))
    BY <1>2 DEF AheadIn
  <2>1. n = i + 1 \/ n = i + 2
    BY <1>2, <1>6
  <2>2. ~Pass!Own(r[i + 1])
    BY <1>3, InsertedIs
  <2>3. i + 1 + 1 = i + 2
    BY <1>2
  <2> QED
    BY <2>1, <2>2, <2>3
<1> QED
  BY <1>7, <1>8, <1>9

(* The steps of the pass *)

(* Two states whose functions and places gone over are the same have the same shapes.     *)
LEMMA SameShape ==
    ASSUME NEW f, Shape(f), source' = source, module'[f].insts = module[f].insts,
           Pass!GoneOver(f)' = Pass!GoneOver(f)
    PROVE  Shape(f)'
<1>1. PICK is, old, g : is = module[f].insts /\ old = source[f].insts /\ g = Pass!GoneOver(f)
  OBVIOUS
<1>2. KeptIn(old, is) /\ Behind(is, g) /\ Only(is)
  BY <1>1 DEF Shape
<1>3. is = module'[f].insts /\ old = source'[f].insts /\ g = Pass!GoneOver(f)'
  BY <1>1
<1>4. KeptIn(source'[f].insts, module'[f].insts)
  BY <1>2, <1>3
<1>5. Behind(module'[f].insts, Pass!GoneOver(f)')
  BY <1>2, <1>3
<1>6. Only(module'[f].insts)
  BY <1>2, <1>3
<1> QED
  BY <1>4, <1>5, <1>6 DEF Shape

(* The instructions of the functions are typed. *)
LEMMA InstsTyped ==
    ASSUME PassTyped, NEW f \in 1 .. Len(source)
    PROVE  /\ module[f] \in Func /\ module[f].insts \in Seq(Pass!Inst)
           /\ source[f].insts \in Seq(Pass!Inst) /\ source[f].name = module[f].name
<1>1. module[f] \in Func /\ source[f] \in Func
  BY DEF PassTyped
<1> QED
  BY <1>1 DEF PassTyped, Func

(* The pass goes to the next function from the end of one that it has gone over. *)
LEMMA NextFunctionStep ==
    ASSUME PassInv,
           pass \in {"function", "inst"},
           \A n \in DOMAIN module[F].insts : n \in Pass!GoneOver(F),
           pass = "function" => ~DefinesInvoke(F),
           F' = F + 1, pass' = IF F < Len(module) THEN "function" ELSE "done",
           UNCHANGED <<source, module, I, insert_func>>
    PROVE  PassInv'
<1> USE DEF PassInv
<1>1. /\ Len(source) \in Nat /\ F \in Nat /\ F >= 1 /\ F <= Len(source) /\ Len(module) = Len(source)
      /\ pass' # "inst" /\ pass' # "crash"
  BY DEF PassTyped
<1>2. PassTyped'
  BY <1>1 DEF PassTyped
<1>3. Untouched'
  BY <1>1 DEF Untouched
<1>4. NotMet'
  <2> SUFFICES ASSUME insert_func = "NULL", NEW f \in 1 .. Len(source), f < F + 1 \/ (f = F + 1 /\ pass' # "function")
               PROVE  ~DefinesInvoke(f)
    BY DEF NotMet, DefinesInvoke
  <2>1. f < F \/ f = F
    BY <1>1
  <2> QED
    BY <2>1 DEF NotMet
<1>5. Shapes'
  <2> SUFFICES ASSUME NEW f \in 1 .. Len(source) PROVE Shape(f)'
    BY DEF Shapes
  <2>1. Shape(f) /\ f \in Nat
    BY DEF Shapes
  <2>2. CASE f # F
    <3>1. (f < F + 1) = (f < F)
      BY <1>1, <2>1, <2>2
    <3>2. f = F + 1 => pass' = "function"
      BY <1>1
    <3>3. Pass!GoneOver(f)' = Pass!GoneOver(f)
      BY <2>2, <3>1, <3>2 DEF Pass!GoneOver
    <3> QED
      BY <2>1, <3>3, SameShape
  <2>3. CASE f = F
    <3>1. PICK is : is = module[f].insts
      OBVIOUS
    <3>2. Behind(is, Pass!GoneOver(f)) /\ Only(is) /\ KeptIn(source[f].insts, is)
      BY <2>1, <3>1 DEF Shape
    <3>3. \A n \in DOMAIN is : n \in Pass!GoneOver(f)
      BY <2>3, <3>1
    <3>4. PICK g : g = Pass!GoneOver(f)'
      OBVIOUS
    <3>5. Behind(is, g)
      BY <3>2, <3>3 DEF Behind
    <3> QED
      BY <3>1, <3>2, <3>4, <3>5 DEF Shape
  <2> QED
    BY <2>2, <2>3
<1> QED
  BY <1>1, <1>2, <1>3, <1>4, <1>5 DEF Ahead, CrashCause

(* A declaration is left as it is, and defines no invoke. *)
LEMMA SkipDeclarationStep == ASSUME PassInv, Pass!SkipDeclaration PROVE PassInv'
<1>1. /\ pass = "function" /\ module[F].insts = <<>>
      /\ F' = F + 1 /\ pass' = (IF F < Len(module) THEN "function" ELSE "done")
      /\ UNCHANGED <<source, module, I, insert_func>>
  BY DEF Pass!SkipDeclaration
<1>2. F \in 1 .. Len(source) /\ Len(source) \in Nat
  BY <1>1 DEF PassInv, PassTyped
<1>3. source[F].insts = <<>>
  BY <1>1, <1>2 DEF PassInv, Untouched
<1>4. \A n \in DOMAIN module[F].insts : n \in Pass!GoneOver(F)
  BY <1>1
<1> QED
  BY <1>1, <1>3, <1>4, NextFunctionStep DEF DefinesInvoke

(* At the end of a function all of it was gone over. *)
LEMMA EndOfFunctionStep == ASSUME PassInv, Pass!NextFunction PROVE PassInv'
<1>1. /\ pass = "inst" /\ I > Len(module[F].insts)
      /\ F' = F + 1 /\ pass' = (IF F < Len(module) THEN "function" ELSE "done")
      /\ UNCHANGED <<source, module, I, insert_func>>
  BY DEF Pass!NextFunction, Pass!Insts
<1>2. F \in 1 .. Len(source) /\ Len(source) \in Nat /\ I \in Nat /\ F \in Nat
  BY <1>1 DEF PassInv, PassTyped
<1>3. module[F].insts \in Seq(Pass!Inst)
  BY <1>2, InstsTyped DEF PassInv
<1>4. DOMAIN module[F].insts = 1 .. Len(module[F].insts) /\ Len(module[F].insts) \in Nat
  BY <1>3
<1>5. Pass!GoneOver(F) = 1 .. I - 1
  BY <1>1, <1>2 DEF Pass!GoneOver
<1>6. \A n \in DOMAIN module[F].insts : n \in Pass!GoneOver(F)
  BY <1>1, <1>2, <1>4, <1>5
<1> QED
  BY <1>1, <1>6, NextFunctionStep

(* A function is entered as the programmer wrote it. *)
LEMMA runOnFunctionStep == ASSUME PassInv, Pass!runOnFunction PROVE PassInv'
<1> USE DEF PassInv
<1>1. /\ pass = "function" /\ module[F].insts # <<>>
      /\ insert_func' = (IF insert_func = "NULL" /\ module[F].name = "invoke" THEN "invoke" ELSE insert_func)
      /\ I' = 1 /\ pass' = "inst"
      /\ UNCHANGED <<source, module, F>>
  BY DEF Pass!runOnFunction
<1>2. F \in 1 .. Len(source) /\ Len(source) \in Nat /\ F \in Nat
  BY <1>1 DEF PassTyped
<1>3. PassTyped'
  BY <1>1, <1>2 DEF PassTyped
<1>4. Untouched' /\ CrashCause'
  BY <1>1, <1>2 DEF Untouched, CrashCause
<1>5. NotMet'
  <2> SUFFICES ASSUME insert_func' = "NULL", NEW f \in 1 .. Len(source), f < F \/ f = F
               PROVE  ~DefinesInvoke(f)
    BY <1>1 DEF NotMet, DefinesInvoke
  <2>1. insert_func = "NULL" /\ module[F].name # "invoke"
    BY <1>1
  <2>2. source[F].name # "invoke"
    BY <1>2, <2>1 DEF PassTyped
  <2> QED
    BY <2>1, <2>2 DEF NotMet, DefinesInvoke
<1>6. Shapes'
  <2> SUFFICES ASSUME NEW f \in 1 .. Len(source) PROVE Shape(f)'
    BY <1>1 DEF Shapes
  <2>1. Shape(f)
    BY DEF Shapes
  <2>2. Pass!GoneOver(f)' = Pass!GoneOver(f)
    BY <1>1, <1>2 DEF Pass!GoneOver
  <2> QED
    BY <1>1, <2>1, <2>2, SameShape
<1>7. Ahead'
  <2>1. PICK is : is = module[F].insts
    OBVIOUS
  <2>2. is = source[F].insts
    BY <1>1, <1>2, <2>1 DEF Untouched
  <2>3. is \in Seq(Pass!Inst)
    BY <1>2, <2>1, InstsTyped
  <2>4. \A n \in DOMAIN is : Pass!Own(is[n])
    BY <1>2, <2>2, Written DEF PassTyped
  <2>5. AheadIn(is, 1)
    BY <2>3, <2>4, FreshShape
  <2> QED
    BY <1>1, <2>1, <2>5 DEF Ahead
<1> QED
  BY <1>3, <1>4, <1>5, <1>6, <1>7

(* The steps of the pass in a function *)

(* Where the pass is in a function, with the constants that name it. *)
LEMMA AtInstIs ==
    ASSUME PassInv, Pass!AtInst
    PROVE  /\ pass = "inst" /\ F \in 1 .. Len(source) /\ Len(source) \in Nat /\ I \in Nat \ {0}
           /\ module[F].insts \in Seq(Pass!Inst) /\ source[F].insts \in Seq(Pass!Inst)
           /\ I \in 1 .. Len(module[F].insts)
           /\ KeptIn(source[F].insts, module[F].insts) /\ Behind(module[F].insts, 1 .. I - 1)
           /\ Only(module[F].insts) /\ AheadIn(module[F].insts, I)
<1>1. pass = "inst" /\ I <= Len(module[F].insts)
  BY DEF Pass!AtInst, Pass!Insts
<1>2. F \in 1 .. Len(source) /\ Len(source) \in Nat /\ I \in Nat \ {0} /\ F \in Nat
  BY <1>1 DEF PassInv, PassTyped
<1>3. module[F].insts \in Seq(Pass!Inst) /\ source[F].insts \in Seq(Pass!Inst)
  BY <1>2, InstsTyped DEF PassInv
<1>4. I \in 1 .. Len(module[F].insts)
  <2>1. PICK l \in Nat : l = Len(module[F].insts)
    BY <1>3
  <2> QED
    BY <1>1, <1>2, <2>1
<1>5. Pass!GoneOver(F) = 1 .. I - 1
  BY <1>1, <1>2 DEF Pass!GoneOver
<1>6. Shape(F)
  BY <1>2 DEF PassInv, Shapes
<1>7. AheadIn(module[F].insts, I)
  BY <1>1 DEF PassInv, Ahead
<1> QED
  BY <1>1, <1>2, <1>3, <1>4, <1>5, <1>6, <1>7 DEF Shape

(* A step over an instruction that does not call multi. *)
LEMMA StepStep == ASSUME PassInv, Pass!Step PROVE PassInv'
<1>1. /\ Pass!AtInst /\ ~Pass!CallsMulti(module[F].insts[I])
      /\ I' = I + 1 /\ UNCHANGED <<source, module, F, insert_func, pass>>
  BY DEF Pass!Step, Pass!Insts
<1>2. PICK is : is = module[F].insts
  OBVIOUS
<1>3. /\ pass = "inst" /\ F \in 1 .. Len(source) /\ Len(source) \in Nat /\ I \in Nat \ {0}
      /\ is \in Seq(Pass!Inst) /\ I \in 1 .. Len(is)
      /\ KeptIn(source[F].insts, is) /\ Behind(is, 1 .. I - 1) /\ Only(is) /\ AheadIn(is, I)
  BY <1>1, <1>2, AtInstIs
<1>4. PICK i \in Nat : i = I
  BY <1>3
<1>5. PassTyped' /\ Untouched' /\ NotMet' /\ CrashCause'
  BY <1>1, <1>3 DEF PassInv, PassTyped, Untouched, NotMet, DefinesInvoke, CrashCause, Pass!InvokeFirst
<1>6. Shapes'
  <2> SUFFICES ASSUME NEW f \in 1 .. Len(source) PROVE Shape(f)'
    BY <1>1 DEF Shapes
  <2>1. Shape(f)
    BY DEF PassInv, Shapes
  <2>2. CASE f # F
    <3>1. Pass!GoneOver(f)' = Pass!GoneOver(f)
      BY <1>1, <2>2 DEF Pass!GoneOver
    <3> QED
      BY <1>1, <2>1, <3>1, SameShape
  <2>3. CASE f = F
    <3>1. Pass!GoneOver(f)' = 1 .. i + 1 - 1
      BY <1>1, <1>3, <1>4, <2>3 DEF Pass!GoneOver
    <3>2. i + 1 - 1 = i
      OBVIOUS
    <3>3. Behind(is, 1 .. i)
      <4> SUFFICES ASSUME NEW n \in DOMAIN is, n \in 1 .. i, Pass!CallsMulti(is[n]), Pass!Own(is[n])
                   PROVE  n + 2 <= Len(is) /\ is[n + 1] = Pass!Syscall /\ is[n + 2] = Pass!Invoked
        BY DEF Behind
      <4>1. n # i
        BY <1>1, <1>2, <1>4
      <4>2. n \in 1 .. i - 1
        BY <4>1
      <4> QED
        BY <1>3, <1>4, <4>2 DEF Behind
    <3> QED
      BY <1>1, <1>2, <1>3, <2>3, <3>1, <3>2, <3>3 DEF Shape
  <2> QED
    BY <2>2, <2>3
<1>7. Ahead'
  <2>1. AheadIn(is, i + 1)
    <3>1. DOMAIN is = 1 .. Len(is) /\ Len(is) \in Nat
      BY <1>3
    <3> QED
      BY <1>3, <1>4, <3>1 DEF AheadIn
  <2> QED
    BY <1>1, <1>2, <1>4, <2>1 DEF Ahead
<1> QED
  BY <1>5, <1>6, <1>7 DEF PassInv

(* The insertion behind a call of multi. *)
LEMMA InsertBehindStep == ASSUME PassInv, Pass!InsertBehind PROVE PassInv'
<1>1. /\ Pass!AtInst /\ Pass!CallsMulti(module[F].insts[I]) /\ insert_func # "NULL"
      /\ module' = [module EXCEPT ![F].insts =
                       Pass!InsertAt(Pass!InsertAt(@, I + 1, Pass!Invoke), I + 1, Pass!Syscall)]
      /\ I' = I + 1 /\ UNCHANGED <<source, F, insert_func, pass>>
  BY DEF Pass!InsertBehind, Pass!Insts
<1>2. PICK is, old : is = module[F].insts /\ old = source[F].insts
  OBVIOUS
<1>3. /\ pass = "inst" /\ F \in 1 .. Len(source) /\ Len(source) \in Nat /\ I \in Nat \ {0}
      /\ is \in Seq(Pass!Inst) /\ old \in Seq(Pass!Inst) /\ I \in 1 .. Len(is)
      /\ KeptIn(old, is) /\ Behind(is, 1 .. I - 1) /\ Only(is) /\ AheadIn(is, I)
  BY <1>1, <1>2, AtInstIs
<1>4. PICK i \in 1 .. Len(is) : i = I
  BY <1>3
<1>5. Pass!Invoke = Pass!Invoked
  BY <1>1 DEF Pass!Invoke, Pass!Invoked, PassInv, PassTyped
<1>6. PICK r : r = InsertAt(InsertAt(is, i + 1, Pass!Invoked), i + 1, Pass!Syscall)
  OBVIOUS
<1>7. TwoBehind(r, is, i)
  BY <1>3, <1>6, TwiceBehind
<1>8. KeptIn(old, r)
  BY <1>3, <1>7, InsertKeeps
<1>9. Behind(r, 1 .. i) /\ Only(r) /\ AheadIn(r, i + 1)
  BY <1>1, <1>2, <1>3, <1>4, <1>7, InsertShapes
<1>10. module \in Seq(Func) /\ DOMAIN module = 1 .. Len(source) /\ Len(module) = Len(source)
  BY DEF PassInv, PassTyped
<1>11. module' = [module EXCEPT ![F].insts = r]
  <2>1. \A q, p, e : Pass!InsertAt(q, p, e) = InsertAt(q, p, e)
    BY DEF Pass!InsertAt, InsertAt
  <2> QED
    BY <1>1, <1>2, <1>4, <1>5, <1>6, <2>1
<1>12. /\ DOMAIN module' = 1 .. Len(source)
       /\ \A f \in 1 .. Len(source) : f # F => module'[f] = module[f]
       /\ module'[F] = [module[F] EXCEPT !.insts = r]
  BY <1>3, <1>10, <1>11
<1>13. module'[F] \in Func /\ module'[F].insts = r /\ module'[F].name = module[F].name
  <2>1. module[F] \in Func /\ r \in Seq(Pass!Inst)
    BY <1>3, <1>7, <1>10 DEF TwoBehind
  <2> QED
    BY <1>12, <2>1 DEF Func
<1>14. module' \in Seq(Func) /\ Len(module') = Len(source)
  <2>1. \A f \in 1 .. Len(source) : module'[f] \in Func
    BY <1>10, <1>12, <1>13
  <2>2. module' \in [1 .. Len(source) -> Func]
    BY <1>3, <1>10, <1>11, <1>12, <2>1
  <2> QED
    BY <1>3, <2>2
<1>15. PassTyped'
  BY <1>1, <1>3, <1>12, <1>13, <1>14 DEF PassInv, PassTyped
<1>16. Untouched' /\ NotMet' /\ CrashCause'
  BY <1>1, <1>3, <1>12 DEF PassInv, PassTyped, Untouched, NotMet, DefinesInvoke, CrashCause
<1>17. Shapes'
  <2> SUFFICES ASSUME NEW f \in 1 .. Len(source) PROVE Shape(f)'
    BY <1>1 DEF Shapes
  <2>1. Shape(f)
    BY DEF PassInv, Shapes
  <2>2. CASE f # F
    <3>0. module'[f] = module[f]
      BY <1>12, <2>2
    <3>1. Pass!GoneOver(f)' = Pass!GoneOver(f)
      BY <1>1, <2>2, <3>0 DEF Pass!GoneOver
    <3> QED
      BY <1>1, <2>1, <3>0, <3>1, SameShape
  <2>3. CASE f = F
    <3>1. Pass!GoneOver(f)' = 1 .. i + 1 - 1
      BY <1>1, <1>3, <1>4, <2>3 DEF Pass!GoneOver
    <3>2. i + 1 - 1 = i
      BY <1>3
    <3> QED
      BY <1>1, <1>2, <1>8, <1>9, <1>13, <2>3, <3>1, <3>2 DEF Shape
  <2> QED
    BY <2>2, <2>3
<1>18. Ahead'
  BY <1>1, <1>4, <1>9, <1>13 DEF Ahead
<1> QED
  BY <1>15, <1>16, <1>17, <1>18 DEF PassInv

(* A crash at a call of multi: the function of the source has that call, and no function   *)
(* up to it defines invoke.                                                                *)
LEMMA InsertCrashStep == ASSUME PassInv, Pass!InsertCrash PROVE PassInv'
<1>1. /\ Pass!AtInst /\ Pass!CallsMulti(module[F].insts[I]) /\ insert_func = "NULL"
      /\ pass' = "crash" /\ UNCHANGED <<source, module, F, I, insert_func>>
  BY DEF Pass!InsertCrash, Pass!Insts
<1>2. PICK is, old : is = module[F].insts /\ old = source[F].insts
  OBVIOUS
<1>3. /\ pass = "inst" /\ F \in 1 .. Len(source) /\ Len(source) \in Nat /\ F \in Nat
      /\ is \in Seq(Pass!Inst) /\ I \in 1 .. Len(is)
      /\ KeptIn(old, is) /\ Only(is)
  BY <1>1, <1>2, AtInstIs
<1>4. PassTyped' /\ Untouched' /\ NotMet' /\ Ahead'
  BY <1>1, <1>3 DEF PassInv, PassTyped, Untouched, NotMet, DefinesInvoke, Ahead
<1>5. Shapes'
  <2> SUFFICES ASSUME NEW f \in 1 .. Len(source) PROVE Shape(f)'
    BY <1>1 DEF Shapes
  <2>1. Shape(f)
    BY DEF PassInv, Shapes
  <2>2. Pass!GoneOver(f)' = Pass!GoneOver(f)
    BY <1>1, <1>3 DEF Pass!GoneOver
  <2> QED
    BY <1>1, <2>1, <2>2, SameShape
<1>6. CrashCause'
  <2>1. I \in DOMAIN is /\ Pass!CallsMulti(is[I])
    BY <1>1, <1>2, <1>3
  <2>2. Pass!Own(is[I])
    BY <1>3, <2>1, MultiIsOwn
  <2>3. PICK place \in [DOMAIN old -> DOMAIN is] : Pass!Kept(place, old, is)
    BY <1>3 DEF KeptIn
  <2>4. PICK n \in DOMAIN old : old[n] = is[I]
    BY <2>1, <2>2, <2>3 DEF Pass!Kept
  <2>5. Pass!CallsMulti(source[F].insts[n]) /\ n \in DOMAIN source[F].insts
    BY <1>2, <2>1, <2>4
  <2>6. \A g \in 1 .. F : ~DefinesInvoke(g)
    BY <1>1, <1>3 DEF PassInv, NotMet
  <2>7. F \in DOMAIN source
    BY <1>3 DEF PassInv, PassTyped
  <2>8. ~Pass!InvokeFirst
    BY <2>5, <2>6, <2>7 DEF Pass!InvokeFirst, DefinesInvoke
  <2> QED
    BY <1>1, <2>8 DEF CrashCause, Pass!InvokeFirst
<1> QED
  BY <1>4, <1>5, <1>6 DEF PassInv

(* Every step of the pass keeps the invariant. *)
LEMMA PassStep == PassInv /\ (Pass!Next \/ UNCHANGED pvars) => PassInv'
<1> SUFFICES ASSUME PassInv, Pass!Next \/ UNCHANGED pvars PROVE PassInv'
  OBVIOUS
<1>1. CASE Pass!SkipDeclaration BY <1>1, SkipDeclarationStep
<1>2. CASE Pass!runOnFunction   BY <1>2, runOnFunctionStep
<1>3. CASE Pass!Step            BY <1>3, StepStep
<1>4. CASE Pass!InsertBehind    BY <1>4, InsertBehindStep
<1>5. CASE Pass!InsertCrash     BY <1>5, InsertCrashStep
<1>6. CASE Pass!NextFunction    BY <1>6, EndOfFunctionStep
<1>7. CASE UNCHANGED pvars
  <2>1. PassTyped' /\ Untouched' /\ NotMet' /\ Ahead'
    BY <1>7 DEF pvars, PassInv, PassTyped, Untouched, NotMet, DefinesInvoke, Ahead
  <2>2. CrashCause'
    BY <1>7 DEF pvars, PassInv, CrashCause, Pass!InvokeFirst
  <2>3. Shapes'
    BY <1>7 DEF pvars, PassInv, Shapes, Shape, Pass!GoneOver
  <2> QED
    BY <2>1, <2>2, <2>3 DEF PassInv
<1> QED
  BY <1>1, <1>2, <1>3, <1>4, <1>5, <1>6, <1>7 DEF Pass!Next

(* Ways in the call graph *)

(* A list of different functions each of which has an edge in E to the next. *)
IsWay(w, E) ==
    /\ w \in Seq(Nodes) /\ Len(w) >= 1
    /\ \A i, k \in 1 .. Len(w) : i # k => w[i] # w[k]
    /\ \A i \in 1 .. Len(w) - 1 : <<w[i], w[i + 1]>> \in E

(* Different functions are not more than there are, so Ways has all of them. *)
LEMMA WaysAre == \A w : w \in Ways <=> IsWay(w, input.edges)
<1> DEFINE Distinct(n) == {w \in [1 .. n -> Nodes] : \A i, k \in 1 .. n : i # k => w[i] # w[k]}
<1>1. IsFiniteSet(Nodes) /\ Cardinality(Nodes) \in Nat
  BY InputAssumption, FS_CardinalityType
<1>2. ASSUME NEW w PROVE w \in NoRepeat <=> \E n \in 1 .. Cardinality(Nodes) : w \in Distinct(n)
  BY DEF NoRepeat
<1>3. ASSUME NEW w, w \in NoRepeat
      PROVE  w \in Seq(Nodes) /\ Len(w) >= 1 /\ \A i, k \in 1 .. Len(w) : i # k => w[i] # w[k]
  <2>1. PICK n \in 1 .. Cardinality(Nodes) : w \in Distinct(n)
    BY <1>2, <1>3
  <2>2. n \in Nat /\ n >= 1 /\ w \in [1 .. n -> Nodes]
    BY <1>1, <2>1
  <2>3. w \in Seq(Nodes) /\ Len(w) = n
    BY <2>2
  <2> QED
    BY <2>1, <2>2, <2>3
<1>4. ASSUME NEW w \in Seq(Nodes), Len(w) >= 1, \A i, k \in 1 .. Len(w) : i # k => w[i] # w[k]
      PROVE  w \in NoRepeat
  <2>1. PICK n \in Nat : n = Len(w)
    OBVIOUS
  <2>2. w \in [1 .. n -> Nodes]
    BY <2>1
  <2>3. IsFiniteSet(1 .. n) /\ Cardinality(1 .. n) = n
    <3>1. IsFiniteSet(1 .. n) /\ Cardinality(1 .. n) = IF 1 > n THEN 0 ELSE n - 1 + 1
      BY FS_Interval
    <3> QED
      BY <1>4, <2>1, <3>1
  <2>4. n <= Cardinality(Nodes)
    <3> SUFFICES ASSUME Cardinality(Nodes) < n PROVE FALSE
      BY <1>1
    <3>1. \E x, y \in 1 .. n : x # y /\ w[x] = w[y]
      BY <1>1, <2>2, <2>3, FS_PigeonHole
    <3> QED
      BY <1>4, <2>1, <3>1
  <2>5. n \in 1 .. Cardinality(Nodes)
    BY <1>1, <1>4, <2>1, <2>4
  <2>6. w \in Distinct(n)
    BY <1>4, <2>1, <2>2
  <2> QED
    BY <1>2, <2>5, <2>6
<1> QED
  BY <1>3, <1>4 DEF Ways, IsWay

(* What is left of a way is one. *)
LEMMA RestOfWay ==
    ASSUME NEW E, NEW w, IsWay(w, E), NEW i \in 1 .. Len(w)
    PROVE  \E p : IsWay(p, E) /\ p[1] = w[i] /\ p[Len(p)] = w[Len(w)]
<1>1. PICK l \in Nat : l = Len(w) /\ l >= 1 /\ w \in Seq(Nodes)
  BY DEF IsWay
<1>2. PICK n \in Nat : n = l - i + 1 /\ n >= 1 /\ n <= l
  BY <1>1, SMTT(30)
<1> DEFINE p == [m \in 1 .. n |-> w[m + i - 1]]
<1>3. \A m \in 1 .. n : m + i - 1 \in 1 .. l
  BY <1>1, <1>2
<1>4. p \in [1 .. n -> Nodes]
  BY <1>1, <1>3
<1>6. \A m \in 1 .. n : p[m] = w[m + i - 1]
  OBVIOUS
<1> HIDE DEF p
<1>5. p \in Seq(Nodes) /\ Len(p) = n
  BY <1>2, <1>4
<1>7. \A x, y \in 1 .. n : x # y => p[x] # p[y]
  <2> SUFFICES ASSUME NEW x \in 1 .. n, NEW y \in 1 .. n, x # y PROVE p[x] # p[y]
    OBVIOUS
  <2>1. x + i - 1 # y + i - 1
    BY <1>1, <1>2
  <2> QED
    BY <1>1, <1>3, <1>6, <2>1 DEF IsWay
<1>8. \A x \in 1 .. n - 1 : <<p[x], p[x + 1]>> \in E
  <2> SUFFICES ASSUME NEW x \in 1 .. n - 1 PROVE <<p[x], p[x + 1]>> \in E
    OBVIOUS
  <2>1. PICK z \in 1 .. l - 1 : z = x + i - 1
    BY <1>1, <1>2
  <2>2. z + 1 = x + 1 + i - 1 /\ x \in 1 .. n /\ x + 1 \in 1 .. n
    BY <1>2, <2>1
  <2>3. p[x] = w[z] /\ p[x + 1] = w[z + 1]
    BY <1>6, <2>1, <2>2
  <2> QED
    BY <1>1, <2>3 DEF IsWay
<1>9. IsWay(p, E)
  BY <1>2, <1>5, <1>7, <1>8 DEF IsWay
<1>10. 1 + i - 1 = i /\ n + i - 1 = l /\ 1 \in 1 .. n /\ n \in 1 .. n
  BY <1>1, <1>2
<1> QED
  BY <1>1, <1>5, <1>6, <1>9, <1>10

(* Two ways, one to where the other starts: the first up to where it meets the second, and  *)
(* the second from there on, make one.                                                      *)
LEMMA JoinedWays ==
    ASSUME NEW E, NEW p, NEW v, IsWay(p, E), IsWay(v, E), p[Len(p)] = v[1]
    PROVE  \E w : IsWay(w, E) /\ w[1] = p[1] /\ w[Len(w)] = v[Len(v)]
<1>1. PICK a \in Nat, b \in Nat : a = Len(p) /\ b = Len(v) /\ a >= 1 /\ b >= 1 /\ p \in Seq(Nodes) /\ v \in Seq(Nodes)
  BY DEF IsWay
<1> DEFINE Meets == {x \in 1 .. a : \E y \in 1 .. b : p[x] = v[y]}
<1>2. a \in Meets /\ Meets \subseteq Nat
  <2>1. a \in 1 .. a /\ 1 \in 1 .. b
    BY <1>1
  <2> QED
    BY <1>1, <2>1
<1>3. PICK i \in Meets : \A x \in Meets : i <= x
  BY <1>2, LeastNatural
<1>4. PICK k \in 1 .. b : p[i] = v[k]
  BY <1>3
<1>5. i \in 1 .. a /\ \A x \in 1 .. a : x < i => \A y \in 1 .. b : p[x] # v[y]
  BY <1>3
<1> HIDE DEF Meets
<1>6. PICK n \in Nat : n = i + (b - k) /\ n >= i
  <2>1. i + (b - k) \in Nat /\ i + (b - k) >= i
    BY <1>1, <1>4, <1>5
  <2> QED
    BY <2>1
<1> DEFINE w == [m \in 1 .. n |-> IF m <= i THEN p[m] ELSE v[k + (m - i)]]
<1>7. \A m \in 1 .. n : (m <= i => m \in 1 .. a) /\ (~(m <= i) => k + (m - i) \in 1 .. b)
  BY <1>1, <1>4, <1>5, <1>6
<1>8. w \in [1 .. n -> Nodes]
  BY <1>1, <1>7
<1>9. w \in Seq(Nodes) /\ Len(w) = n
  BY <1>6, <1>8
<1>10. \A m \in 1 .. n : w[m] = IF m <= i THEN p[m] ELSE v[k + (m - i)]
  OBVIOUS
<1> HIDE DEF w
<1>11. i \in 1 .. n /\ w[i] = v[k]
  BY <1>4, <1>5, <1>6, <1>10
<1>12. ASSUME NEW x \in 1 .. n, NEW y \in 1 .. n, x < y PROVE w[x] # w[y]
  <2>1. CASE y <= i
    <3>1. x <= i /\ x \in 1 .. a /\ y \in 1 .. a /\ x # y
      BY <1>5, <1>7, <1>12, <2>1
    <3>2. p[x] # p[y]
      BY <1>1, <3>1 DEF IsWay
    <3> QED
      BY <1>10, <2>1, <3>1, <3>2
  <2>2. CASE ~(y <= i)
    <3>1. PICK yy \in 1 .. b : yy = k + (y - i) /\ w[y] = v[yy] /\ yy > k
      <4>1. k + (y - i) \in 1 .. b /\ w[y] = v[k + (y - i)]
        BY <1>7, <1>10, <2>2
      <4>2. k + (y - i) > k
        BY <1>4, <1>5, <2>2
      <4> QED
        BY <4>1, <4>2
    <3>2. CASE x < i
      <4>1. x <= i /\ x \in 1 .. a
        BY <1>5, <3>2
      <4>2. w[x] = p[x]
        BY <1>10, <4>1
      <4> QED
        BY <1>5, <3>1, <3>2, <4>1, <4>2
    <3>3. CASE x >= i
      <4>1. PICK xx \in 1 .. b : xx = k + (x - i) /\ w[x] = v[xx]
        <5>1. CASE x = i
          <6>1. k + (x - i) = k
            BY <1>4, <1>5, <5>1
          <6> QED
            BY <1>11, <5>1, <6>1
        <5>2. CASE x # i
          <6>1. ~(x <= i)
            BY <1>5, <3>3, <5>2
          <6> QED
            BY <1>7, <1>10, <6>1
        <5> QED
          BY <5>1, <5>2
      <4>2. xx # yy
        BY <1>4, <1>5, <1>12, <3>1, <4>1
      <4> QED
        BY <1>1, <3>1, <4>1, <4>2 DEF IsWay
    <3> QED
      BY <1>5, <3>2, <3>3
  <2> QED
    BY <2>1, <2>2
<1>13. \A x, y \in 1 .. n : x # y => w[x] # w[y]
  <2> SUFFICES ASSUME NEW x \in 1 .. n, NEW y \in 1 .. n, x # y PROVE w[x] # w[y]
    OBVIOUS
  <2>1. x < y \/ y < x
    OBVIOUS
  <2> QED
    BY <1>12, <2>1
<1>14. \A x \in 1 .. n - 1 : <<w[x], w[x + 1]>> \in E
  <2> SUFFICES ASSUME NEW x \in 1 .. n - 1 PROVE <<w[x], w[x + 1]>> \in E
    OBVIOUS
  <2>0. x \in 1 .. n /\ x + 1 \in 1 .. n
    BY <1>6
  <2>1. CASE x < i
    <3>1. x \in 1 .. a - 1 /\ x <= i /\ x + 1 <= i
      BY <1>1, <1>5, <2>1
    <3>2. w[x] = p[x] /\ w[x + 1] = p[x + 1]
      BY <1>10, <2>0, <3>1
    <3> QED
      BY <1>1, <3>1, <3>2 DEF IsWay
  <2>2. CASE x >= i
    <3>1. PICK z \in 1 .. b - 1 : z = k + (x - i)
      BY <1>1, <1>4, <1>5, <1>6, <2>2
    <3>2. w[x + 1] = v[z + 1]
      <4>1. PICK m \in 1 .. n : m = x + 1
        BY <2>0
      <4>2. ~(m <= i) /\ k + (m - i) = z + 1
        BY <1>4, <1>5, <2>2, <3>1, <4>1
      <4>3. w[m] = v[k + (m - i)]
        BY <1>10, <4>2
      <4> QED
        BY <4>1, <4>2, <4>3
    <3>3. w[x] = v[z]
      <4>1. CASE x = i
        <5>1. z = k
          BY <1>4, <1>5, <3>1, <4>1
        <5> QED
          BY <1>11, <4>1, <5>1
      <4>2. CASE x # i
        <5>1. ~(x <= i)
          BY <1>5, <2>2, <4>2
        <5> QED
          BY <1>10, <2>0, <3>1, <5>1
      <4> QED
        BY <4>1, <4>2
    <3> QED
      BY <1>1, <3>1, <3>2, <3>3 DEF IsWay
  <2> QED
    BY <1>5, <2>1, <2>2
<1>15. n >= 1
  BY <1>5, <1>6
<1>16. IsWay(w, E)
  BY <1>9, <1>13, <1>14, <1>15 DEF IsWay
<1>17. w[1] = p[1]
  BY <1>5, <1>10, <1>15
<1>18. w[n] = v[b]
  <2>1. CASE n = i
    <3>1. k = b
      BY <1>1, <1>4, <1>5, <1>6, <2>1
    <3> QED
      BY <1>11, <2>1, <3>1
  <2>2. CASE n # i
    <3>1. ~(n <= i) /\ k + (n - i) = b /\ n \in 1 .. n
      BY <1>1, <1>4, <1>5, <1>6, <1>15, <2>2
    <3> QED
      BY <1>10, <3>1
  <2> QED
    BY <2>1, <2>2
<1> QED
  BY <1>1, <1>9, <1>16, <1>17, <1>18

(* A list of the members of a finite set has each of them once. *)
LEMMA ListOfSet ==
    ASSUME NEW S, IsFiniteSet(S), NEW q \in SetToSeqs(S)
    PROVE  /\ q \in Seq(S) /\ ToSet(q) = S
           /\ \A i, k \in DOMAIN q : i # k => q[i] # q[k]
<1>1. PICK c \in Nat : c = Cardinality(S)
  BY FS_CardinalityType
<1>2. q \in [1 .. c -> S] /\ \A i, k \in 1 .. c : i # k => q[i] # q[k]
  BY <1>1 DEF SetToSeqs
<1>3. q \in Seq(S) /\ DOMAIN q = 1 .. c
  BY <1>2
<1>4. q \in Injection(1 .. c, S)
  BY <1>2 DEF Injection, IsInjective
<1>5. IsFiniteSet(1 .. c) /\ Cardinality(1 .. c) = c
  BY FS_Interval
<1>6. q \in Surjection(1 .. c, S)
  BY <1>1, <1>4, <1>5, FS_Injection
<1>7. \A x \in S : \E i \in 1 .. c : q[i] = x
  BY <1>6 DEF Surjection
<1>8. ToSet(q) = S
  BY <1>2, <1>3, <1>7 DEF ToSet
<1> QED
  BY <1>2, <1>3, <1>8

(* The parser *)

ParserTyped == input \in Inputs /\ ParserTypeOK

(* The lists while the names are looked up, and from then on. *)
NamesInv ==
    /\ parser = "names" =>
          /\ Untrusted \subseteq Given
          /\ \A k \in DOMAIN input.untrusted :
                k < u /\ input.untrusted[k] \in Nodes => input.untrusted[k] \in Untrusted
    /\ parser # "names" => Given \subseteq Untrusted

(* The pair of a sensitive function and another one leaves nothing to add. *)
Settled(a, b) == \A w \in SimplePaths(a, b) : CalledBySensitive(w) \subseteq Untrusted

(* What the loops have gone through is settled.  The list of the sensitive function they    *)
(* are at was gone through up to u; those before it were paired with what was given, but    *)
(* not with what was added later.                                                           *)
LoopInv ==
    parser = "graph" =>
        /\ \A n \in DOMAIN sensitive_func_id_list :
              n < s => \A x \in Given : Settled(sensitive_func_id_list[n], x)
        /\ \A m \in DOMAIN untrusted_func_id_list :
              m < u /\ s <= Len(sensitive_func_id_list) =>
                  Settled(sensitive_func_id_list[s], untrusted_func_id_list[m])

LoopsOver ==
    parser \notin {"names", "graph"} =>
        \A n \in DOMAIN sensitive_func_id_list : \A x \in Given : Settled(sensitive_func_id_list[n], x)

ParserInv == ParserTyped /\ NamesInv /\ LoopInv /\ LoopsOver /\ AddedForCause

(* The files are typed. *)
LEMMA InputTyped ==
    ASSUME ParserTyped
    PROVE  /\ input.edges \subseteq Nodes \X Nodes
           /\ input.sensitive \in Seq(STRING) /\ Len(input.sensitive) \in Nat
           /\ input.untrusted \in Seq(STRING) /\ Len(input.untrusted) \in Nat
           /\ input.listing \in Seq(Line) /\ Len(input.listing) \in Nat
BY InputAssumption DEF ParserTyped

(* What is settled stays so while the untrusted functions only become more. *)
LEMMA SettledStays ==
    ASSUME input' = input, sensitive_func_id_list' = sensitive_func_id_list, Untrusted \subseteq Untrusted',
           NEW a, NEW b, Settled(a, b)
    PROVE  Settled(a, b)'
<1>1. SimplePaths(a, b)' = SimplePaths(a, b)
  BY DEF SimplePaths, Ways
<1>2. \A w : CalledBySensitive(w)' = CalledBySensitive(w)
  BY DEF CalledBySensitive, Sensitive
<1> QED
  BY <1>1, <1>2 DEF Settled

(* The parser starts in a state of the invariant. *)
LEMMA ParserInitInv == ToolsInit => ParserInv
<1> SUFFICES ASSUME ToolsInit PROVE ParserInv
  OBVIOUS
<1>1. /\ input \in Inputs /\ sensitive_func_id_list = <<>> /\ untrusted_func_id_list = <<>>
      /\ s = 1 /\ u = 1 /\ idx = 1 /\ j = 1 /\ frames = <<>> /\ parser = "names"
  BY DEF ToolsInit, Init
<1>2. Len(input.sensitive) \in Nat /\ input.untrusted \in Seq(STRING)
  BY <1>1, InputAssumption
<1>3. ParserTyped
  BY <1>1, <1>2 DEF ParserTyped, ParserTypeOK
<1>4. Untrusted = {}
  BY <1>1 DEF Untrusted, ToSet
<1>5. \A k \in DOMAIN input.untrusted : ~(k < u)
  BY <1>1, <1>2
<1> QED
  BY <1>1, <1>3, <1>4, <1>5 DEF ParserInv, NamesInv, LoopInv, LoopsOver, AddedForCause

(* A list with a name looked up. *)
LEMMA WithIdIs ==
    ASSUME NEW q \in Seq(Nodes), NEW x
    PROVE  /\ WithId(q, x) \in Seq(Nodes)
           /\ ToSet(WithId(q, x)) = ToSet(q) \cup ({x} \cap Nodes)
<1>1. CASE x \in Nodes
  <2>1. PICK r : r = Append(q, x)
    OBVIOUS
  <2>2. /\ r \in Seq(Nodes) /\ Len(r) = Len(q) + 1 /\ Len(q) \in Nat
        /\ \A i \in 1 .. Len(q) : r[i] = q[i]
        /\ r[Len(q) + 1] = x
    BY <1>1, <2>1, AppendProperties
  <2>3. DOMAIN r = 1 .. Len(q) + 1 /\ DOMAIN q = 1 .. Len(q)
    BY <2>2
  <2>4. ToSet(r) = ToSet(q) \cup {x}
    <3>1. \A i \in 1 .. Len(q) + 1 : r[i] \in ToSet(q) \cup {x}
      <4> SUFFICES ASSUME NEW i \in 1 .. Len(q) + 1 PROVE r[i] \in ToSet(q) \cup {x}
        OBVIOUS
      <4>1. i \in 1 .. Len(q) \/ i = Len(q) + 1
        BY <2>2
      <4> QED
        BY <2>2, <2>3, <4>1 DEF ToSet
    <3>2. \A i \in 1 .. Len(q) : q[i] \in ToSet(r)
      BY <2>2, <2>3 DEF ToSet
    <3>3. x \in ToSet(r)
      <4>1. Len(q) + 1 \in DOMAIN r
        BY <2>2, <2>3
      <4> QED
        BY <2>2, <4>1 DEF ToSet
    <3> QED
      BY <2>3, <3>1, <3>2, <3>3 DEF ToSet
  <2>5. WithId(q, x) = r /\ {x} \cap Nodes = {x}
    BY <1>1, <2>1 DEF WithId
  <2> QED
    BY <2>2, <2>4, <2>5
<1>2. CASE x \notin Nodes
  BY <1>2 DEF WithId
<1> QED
  BY <1>1, <1>2

(* A sensitive name is looked up. *)
LEMMA LookUpSensitiveStep == ASSUME ParserInv, LookUpSensitive PROVE ParserInv'
<1>1. /\ parser = "names" /\ s <= Len(input.sensitive)
      /\ sensitive_func_id_list' = WithId(sensitive_func_id_list, input.sensitive[s])
      /\ s' = s + 1
      /\ UNCHANGED <<input, untrusted_func_id_list, u, idx, j, frames, parser>>
  BY DEF LookUpSensitive
<1>2. sensitive_func_id_list' \in Seq(Nodes)
  BY <1>1, WithIdIs DEF ParserInv, ParserTyped, ParserTypeOK
<1>3. ParserTyped'
  BY <1>1, <1>2 DEF ParserInv, ParserTyped, ParserTypeOK, Given
<1>4. Untrusted' = Untrusted /\ Given' = Given
  BY <1>1 DEF Untrusted, Given
<1>5. NamesInv'
  BY <1>1, <1>4 DEF ParserInv, NamesInv
<1>6. AddedForCause'
  <2>1. Untrusted' \ Given' = {}
    BY <1>1, <1>4 DEF ParserInv, NamesInv
  <2> QED
    BY <2>1 DEF AddedForCause
<1> QED
  BY <1>1, <1>3, <1>5, <1>6 DEF ParserInv, LoopInv, LoopsOver

(* An untrusted name is looked up: what gets on the list was given. *)
LEMMA LookUpUntrustedStep == ASSUME ParserInv, LookUpUntrusted PROVE ParserInv'
<1>1. /\ parser = "names" /\ u <= Len(input.untrusted)
      /\ untrusted_func_id_list' = WithId(untrusted_func_id_list, input.untrusted[u])
      /\ u' = u + 1
      /\ UNCHANGED <<input, sensitive_func_id_list, s, idx, j, frames, parser>>
  BY DEF LookUpUntrusted
<1>2. PICK x : x = input.untrusted[u]
  OBVIOUS
<1>3. u \in Nat /\ u >= 1 /\ untrusted_func_id_list \in Seq(Nodes)
  BY DEF ParserInv, ParserTyped, ParserTypeOK
<1>4. untrusted_func_id_list' \in Seq(Nodes) /\ Untrusted' = Untrusted \cup ({x} \cap Nodes)
  BY <1>1, <1>2, <1>3, WithIdIs DEF Untrusted
<1>5. u \in DOMAIN input.untrusted /\ DOMAIN input.untrusted = 1 .. Len(input.untrusted) /\ Len(input.untrusted) \in Nat
  BY <1>1, <1>3, InputTyped DEF ParserInv
<1>6. Given' = Given /\ x \in ToSet(input.untrusted)
  BY <1>1, <1>2, <1>5 DEF Given, ToSet
<1>7. Untrusted' \subseteq Given'
  <2>1. {x} \cap Nodes \subseteq Given
    BY <1>6 DEF Given
  <2>2. Untrusted \subseteq Given
    BY <1>1 DEF ParserInv, NamesInv
  <2> QED
    BY <1>4, <1>6, <2>1, <2>2
<1>8. \A m \in DOMAIN untrusted_func_id_list' : untrusted_func_id_list'[m] \in Given'
  BY <1>7 DEF Untrusted, ToSet
<1>9. ParserTyped'
  BY <1>1, <1>3, <1>4, <1>8 DEF ParserInv, ParserTyped, ParserTypeOK
<1>10. NamesInv'
  <2>1. ASSUME NEW k \in DOMAIN input.untrusted, k < u + 1, input.untrusted[k] \in Nodes
        PROVE  input.untrusted[k] \in Untrusted'
    <3>1. k < u \/ k = u
      BY <1>3, <1>5, <2>1
    <3>2. CASE k < u
      BY <1>1, <1>4, <2>1, <3>2 DEF ParserInv, NamesInv
    <3>3. CASE k = u
      BY <1>2, <1>4, <2>1, <3>3
    <3> QED
      BY <3>1, <3>2, <3>3
  <2> QED
    BY <1>1, <1>7, <2>1 DEF NamesInv
<1>11. AddedForCause'
  <2>1. Untrusted' \ Given' = {}
    BY <1>7
  <2> QED
    BY <2>1 DEF AddedForCause
<1> QED
  BY <1>1, <1>9, <1>10, <1>11 DEF ParserInv, LoopInv, LoopsOver

(* All names were looked up, so all that was given is on the list. *)
LEMMA LookedUpStep == ASSUME ParserInv, LookedUp PROVE ParserInv'
<1>1. /\ parser = "names" /\ u > Len(input.untrusted) /\ parser' = "graph" /\ s' = 1 /\ u' = 1
      /\ UNCHANGED <<input, sensitive_func_id_list, untrusted_func_id_list, idx, j, frames>>
  BY DEF LookedUp
<1>2. ParserTyped'
  BY <1>1 DEF ParserInv, ParserTyped, ParserTypeOK, Given
<1>3. Untrusted' = Untrusted /\ Given' = Given
  BY <1>1 DEF Untrusted, Given
<1>4. DOMAIN input.untrusted = 1 .. Len(input.untrusted) /\ Len(input.untrusted) \in Nat /\ u \in Nat
  BY InputTyped DEF ParserInv, ParserTyped, ParserTypeOK
<1>5. Given \subseteq Untrusted
  <2> SUFFICES ASSUME NEW x \in Given PROVE x \in Untrusted
    OBVIOUS
  <2>1. PICK k \in DOMAIN input.untrusted : input.untrusted[k] = x
    BY DEF Given, ToSet
  <2>2. k < u /\ x \in Nodes
    BY <1>1, <1>4 DEF Given
  <2> QED
    BY <1>1, <2>1, <2>2 DEF ParserInv, NamesInv
<1>6. NamesInv'
  BY <1>1, <1>3, <1>5 DEF NamesInv
<1>7. LoopInv'
  <2>1. \A n \in DOMAIN sensitive_func_id_list : ~(n < 1)
    BY DEF ParserInv, ParserTyped, ParserTypeOK
  <2>2. \A n \in DOMAIN untrusted_func_id_list : ~(n < 1)
    BY DEF ParserInv, ParserTyped, ParserTypeOK
  <2> QED
    BY <1>1, <2>1, <2>2 DEF LoopInv
<1>8. AddedForCause'
  <2>1. Untrusted' \ Given' = {}
    BY <1>1, <1>3 DEF ParserInv, NamesInv
  <2> QED
    BY <2>1 DEF AddedForCause
<1> QED
  BY <1>1, <1>2, <1>6, <1>7, <1>8 DEF ParserInv, LoopsOver

(* The loops and the scan *)

(* A step that leaves the input and both lists alone keeps what is said of them. *)
LEMMA SameLists ==
    ASSUME ParserInv, UNCHANGED <<input, sensitive_func_id_list, untrusted_func_id_list>>
    PROVE  /\ Untrusted' = Untrusted /\ Given' = Given /\ AddedForCause'
           /\ \A a, b : Settled(a, b) => Settled(a, b)'
<1>1. Untrusted' = Untrusted /\ Given' = Given /\ Sensitive' = Sensitive /\ Ways' = Ways
  BY DEF Untrusted, Given, Sensitive, Ways
<1>2. AddedForCause'
  BY <1>1 DEF ParserInv, AddedForCause
<1>3. ASSUME NEW a, NEW b, Settled(a, b) PROVE Settled(a, b)'
  BY <1>1, <1>3, SettledStays
<1> QED
  BY <1>1, <1>2, <1>3

(* What a pair adds: functions of the graph that a sensitive one calls and from which a way *)
(* goes on to the untrusted one of the pair.                                                *)
LEMMA NewIs ==
    ASSUME ParserInv, InPairs
    PROVE  /\ NewUntrusted \subseteq Nodes /\ IsFiniteSet(NewUntrusted)
           /\ \A x \in NewUntrusted :
                 /\ x \notin Untrusted
                 /\ \E y \in Sensitive : <<y, x>> \in input.edges
                 /\ \E p : IsWay(p, input.edges) /\ p[1] = x /\ p[Len(p)] = untrusted_func_id_list[u]
<1>1. PICK a, b : a = sensitive_func_id_list[s] /\ b = untrusted_func_id_list[u]
  OBVIOUS
<1>2. ASSUME NEW x \in NewUntrusted
      PROVE  /\ x \in Nodes /\ x \notin Untrusted
             /\ \E y \in Sensitive : <<y, x>> \in input.edges
             /\ \E p : IsWay(p, input.edges) /\ p[1] = x /\ p[Len(p)] = b
  <2>1. PICK w \in SimplePaths(a, b) : x \in CalledBySensitive(w)
    BY <1>1 DEF NewUntrusted
  <2>2. w \in Ways /\ w[Len(w)] = b
    BY <2>1 DEF SimplePaths
  <2>3. IsWay(w, input.edges)
    BY <2>2, WaysAre
  <2>4. PICK i \in 1 .. Len(w) - 1 : w[i] \in Sensitive /\ x = w[i + 1]
    BY <2>1 DEF CalledBySensitive
  <2>5. PICK k \in 1 .. Len(w) : k = i + 1
    <3>1. Len(w) \in Nat
      BY <2>3 DEF IsWay
    <3> QED
      BY <3>1
  <2>6. <<w[i], x>> \in input.edges
    BY <2>3, <2>4 DEF IsWay
  <2>7. x \in Nodes
    BY <2>3, <2>4, <2>5 DEF IsWay
  <2>8. \E p : IsWay(p, input.edges) /\ p[1] = w[k] /\ p[Len(p)] = w[Len(w)]
    BY <2>3, RestOfWay
  <2>9. x \notin Untrusted
    <3>1. PICK X : NewUntrusted = X \ Untrusted
      BY DEF NewUntrusted
    <3> QED
      BY <3>1
  <2> QED
    BY <2>2, <2>4, <2>5, <2>6, <2>7, <2>8, <2>9
<1>3. NewUntrusted \subseteq Nodes
  BY <1>2
<1>4. IsFiniteSet(NewUntrusted)
  BY <1>3, InputAssumption, FS_Subset
<1> QED
  BY <1>1, <1>2, <1>3, <1>4

(* A pair of the loops is settled, and what it adds has its cause. *)
LEMMA PairStep == ASSUME ParserInv, Pair PROVE ParserInv'
<1>1. /\ InPairs /\ parser = "graph" /\ s <= Len(sensitive_func_id_list) /\ u <= Len(untrusted_func_id_list)
      /\ u' = u + 1 /\ UNCHANGED <<input, sensitive_func_id_list, s, idx, j, frames, parser>>
  BY DEF Pair, InPairs
<1>2. PICK q \in SetToSeqs(NewUntrusted) : untrusted_func_id_list' = untrusted_func_id_list \o q
  BY DEF Pair
<1>3. NewUntrusted \subseteq Nodes /\ IsFiniteSet(NewUntrusted)
  BY <1>1, NewIs
<1>4. q \in Seq(NewUntrusted) /\ ToSet(q) = NewUntrusted /\ \A i, k \in DOMAIN q : i # k => q[i] # q[k]
  <2>1. PICK T : T = NewUntrusted
    OBVIOUS
  <2> QED
    BY <1>2, <1>3, <2>1, ListOfSet
<1>5. q \in Seq(Nodes)
  <2>1. PICK T : T = NewUntrusted
    OBVIOUS
  <2> QED
    BY <1>3, <1>4, <2>1
<1>6. PICK U : U = untrusted_func_id_list
  OBVIOUS
<1>7. PICK V : V = untrusted_func_id_list'
  OBVIOUS
<1>8. U \in Seq(Nodes) /\ u \in Nat /\ u >= 1 /\ s \in Nat /\ s >= 1
  BY <1>6 DEF ParserInv, ParserTyped, ParserTypeOK
<1>9. PICK l \in Nat, d \in Nat : l = Len(U) /\ d = Len(q)
  BY <1>5, <1>8
<1>10. /\ V \in Seq(Nodes) /\ Len(V) = l + d
       /\ \A i \in 1 .. l + d : V[i] = IF i <= l THEN U[i] ELSE q[i - l]
  <2>1. V = U \o q
    BY <1>2, <1>6, <1>7
  <2>2. /\ U \o q \in Seq(Nodes) /\ Len(U \o q) = Len(U) + Len(q)
        /\ \A i \in 1 .. Len(U) + Len(q) : (U \o q)[i] = IF i <= Len(U) THEN U[i] ELSE q[i - Len(U)]
    BY <1>5, <1>8, ConcatProperties
  <2> QED
    BY <1>9, <2>1, <2>2
<1>11. DOMAIN U = 1 .. l /\ DOMAIN q = 1 .. d /\ DOMAIN V = 1 .. l + d
  BY <1>5, <1>8, <1>9, <1>10
<1>12. \A i \in 1 .. l : i \in 1 .. l + d /\ V[i] = U[i]
  BY <1>9, <1>10
<1>13. \A i \in 1 .. d : l + i \in 1 .. l + d /\ V[l + i] = q[i]
  <2> SUFFICES ASSUME NEW i \in 1 .. d PROVE l + i \in 1 .. l + d /\ V[l + i] = q[i]
    OBVIOUS
  <2>1. l + i \in 1 .. l + d /\ ~(l + i <= l) /\ l + i - l = i
    BY <1>9
  <2> QED
    BY <1>10, <2>1
<1>14. \A i \in 1 .. l + d : i \in 1 .. l \/ \E k \in 1 .. d : i = l + k
  <2> SUFFICES ASSUME NEW i \in 1 .. l + d, i \notin 1 .. l PROVE \E k \in 1 .. d : i = l + k
    OBVIOUS
  <2>1. i - l \in 1 .. d /\ i = l + (i - l)
    BY <1>9
  <2> QED
    BY <2>1
<1>15. Untrusted = ToSet(U) /\ Untrusted' = ToSet(V)
  BY <1>6, <1>7 DEF Untrusted
<1>16. Untrusted' = Untrusted \cup NewUntrusted
  <2>1. \A x \in ToSet(V) : x \in ToSet(U) \/ x \in ToSet(q)
    BY <1>11, <1>12, <1>13, <1>14 DEF ToSet
  <2>2. \A x \in ToSet(U) : x \in ToSet(V)
    BY <1>11, <1>12 DEF ToSet
  <2>3. \A x \in ToSet(q) : x \in ToSet(V)
    BY <1>11, <1>13 DEF ToSet
  <2> QED
    BY <1>4, <1>15, <2>1, <2>2, <2>3
<1>17. Given' = Given
  BY <1>1 DEF Given
<1>18. \A m, n \in DOMAIN V : m # n /\ V[m] = V[n] => V[m] \in Given
  <2> SUFFICES ASSUME NEW m \in 1 .. l + d, NEW n \in 1 .. l + d, m # n, V[m] = V[n] PROVE V[m] \in Given
    BY <1>11
  <2>1. \A a, b \in 1 .. l : a # b /\ U[a] = U[b] => U[a] \in Given
    BY <1>6, <1>11 DEF ParserInv, ParserTyped, ParserTypeOK
  <2>2. \A a \in 1 .. l : U[a] \in Untrusted
    BY <1>11, <1>15 DEF ToSet
  <2>3. \A a \in 1 .. d : q[a] \notin Untrusted
    BY <1>1, <1>4, <1>11, NewIs DEF ToSet
  <2>4. CASE m \in 1 .. l /\ n \in 1 .. l
    BY <1>12, <2>1, <2>4
  <2>5. CASE \E k \in 1 .. d : m = l + k
    <3>1. PICK k \in 1 .. d : m = l + k
      BY <2>5
    <3>2. V[m] = q[k]
      BY <1>13, <3>1
    <3>3. n \notin 1 .. l
      BY <1>12, <2>2, <2>3, <3>2
    <3>4. PICK i \in 1 .. d : n = l + i
      BY <1>14, <3>3
    <3>5. V[n] = q[i] /\ i # k
      BY <1>13, <3>1, <3>4
    <3> QED
      BY <1>4, <1>11, <3>2, <3>5
  <2>6. CASE m \in 1 .. l /\ \E k \in 1 .. d : n = l + k
    <3>1. PICK k \in 1 .. d : n = l + k
      BY <2>6
    <3>2. V[n] = q[k] /\ V[m] = U[m]
      BY <1>12, <1>13, <2>6, <3>1
    <3> QED
      BY <2>2, <2>3, <2>6, <3>2
  <2> QED
    BY <1>14, <2>4, <2>5, <2>6
<1>19. ParserTyped'
  BY <1>1, <1>7, <1>8, <1>10, <1>17, <1>18 DEF ParserInv, ParserTyped, ParserTypeOK
<1>20. NamesInv'
  BY <1>1, <1>16, <1>17 DEF ParserInv, NamesInv
<1>21. \A a, b : Settled(a, b) => Settled(a, b)'
  BY <1>1, <1>16, SettledStays
<1>22. PICK sf \in Nodes, uf \in Nodes : sf = sensitive_func_id_list[s] /\ uf = U[u] /\ u \in 1 .. l
  <2>1. s \in 1 .. Len(sensitive_func_id_list) /\ sensitive_func_id_list \in Seq(Nodes)
    BY <1>1, <1>8 DEF ParserInv, ParserTyped, ParserTypeOK
  <2>2. u \in 1 .. l
    BY <1>1, <1>6, <1>8, <1>9
  <2> QED
    BY <1>8, <1>9, <2>1, <2>2
<1>23. Settled(sf, uf)'
  <2>1. \A w : CalledBySensitive(w)' = CalledBySensitive(w)
    BY <1>1 DEF CalledBySensitive, Sensitive
  <2>2. \A a, b : SimplePaths(a, b)' = SimplePaths(a, b)
    BY <1>1 DEF SimplePaths, Ways
  <2>3. \A w \in SimplePaths(sf, uf) : CalledBySensitive(w) \subseteq NewUntrusted \cup Untrusted
    <3> SUFFICES ASSUME NEW w \in SimplePaths(sf, uf), NEW x \in CalledBySensitive(w), x \notin Untrusted
                 PROVE  x \in NewUntrusted
      OBVIOUS
    <3> DEFINE Found == {CalledBySensitive(v) : v \in SimplePaths(sf, uf)}
    <3>1. CalledBySensitive(w) \in Found
      OBVIOUS
    <3>2. NewUntrusted = (UNION Found) \ Untrusted
      BY <1>6, <1>22 DEF NewUntrusted
    <3> HIDE DEF Found
    <3> QED
      BY <3>1, <3>2
  <2> QED
    BY <1>16, <2>1, <2>2, <2>3 DEF Settled
<1>24. LoopInv'
  <2>1. ASSUME NEW n \in DOMAIN sensitive_func_id_list, n < s, NEW x \in Given
        PROVE  Settled(sensitive_func_id_list[n], x)'
    <3>1. PICK a : a = sensitive_func_id_list[n]
      OBVIOUS
    <3>2. Settled(a, x)
      BY <1>1, <2>1, <3>1 DEF ParserInv, LoopInv
    <3> QED
      BY <1>1, <1>21, <3>1, <3>2
  <2>2. ASSUME NEW m \in DOMAIN V, m < u + 1
        PROVE  Settled(sf, V[m])'
    <3>1. m \in 1 .. l /\ (m = u \/ m < u)
      BY <1>8, <1>11, <1>22, <2>2
    <3>2. CASE m = u
      BY <1>12, <1>22, <1>23, <3>1, <3>2
    <3>3. CASE m < u
      <4>1. Settled(sf, U[m])
        BY <1>1, <1>6, <1>11, <1>22, <3>1, <3>3 DEF ParserInv, LoopInv
      <4>2. PICK b : b = U[m]
        OBVIOUS
      <4>3. Settled(sf, b)'
        BY <1>21, <4>1, <4>2
      <4> QED
        BY <1>12, <3>1, <4>2, <4>3
    <3> QED
      BY <3>1, <3>2, <3>3
  <2> QED
    BY <1>1, <1>7, <1>17, <1>22, <2>1, <2>2 DEF LoopInv
<1>25. AddedForCause'
  <2> SUFFICES ASSUME NEW x \in Untrusted', x \notin Given
               PROVE  /\ \E y \in Sensitive : <<y, x>> \in input.edges
                      /\ \E w \in Ways : w[1] = x /\ w[Len(w)] \in Given
    BY <1>1, <1>17 DEF AddedForCause, Sensitive, Ways
  <2>1. CASE x \in Untrusted
    BY <2>1 DEF ParserInv, AddedForCause
  <2>2. CASE x \in NewUntrusted
    <3>1. \E y \in Sensitive : <<y, x>> \in input.edges
      BY <1>1, <2>2, NewIs
    <3>2. PICK p : IsWay(p, input.edges) /\ p[1] = x /\ p[Len(p)] = uf
      BY <1>1, <1>6, <1>22, <2>2, NewIs
    <3>3. CASE uf \in Given
      BY <3>1, <3>2, <3>3, WaysAre
    <3>4. CASE uf \notin Given
      <4>1. uf \in Untrusted
        BY <1>11, <1>15, <1>22 DEF ToSet
      <4>2. PICK v \in Ways : v[1] = uf /\ v[Len(v)] \in Given
        BY <3>4, <4>1 DEF ParserInv, AddedForCause
      <4>3. IsWay(v, input.edges)
        BY <4>2, WaysAre
      <4>4. PICK w : IsWay(w, input.edges) /\ w[1] = p[1] /\ w[Len(w)] = v[Len(v)]
        <5>1. PICK E : E = input.edges
          OBVIOUS
        <5> QED
          BY <3>2, <4>2, <4>3, <5>1, JoinedWays
      <4> QED
        BY <3>1, <3>2, <4>2, <4>4, WaysAre
    <3> QED
      BY <3>3, <3>4
  <2> QED
    BY <1>16, <2>1, <2>2
<1> QED
  BY <1>1, <1>19, <1>20, <1>24, <1>25 DEF ParserInv, LoopsOver

(* The ends of the loops, the scan, and the theorems *)

(* The whole list was gone through for a sensitive function: it is settled with what was given. *)
LEMMA NextSensitiveStep == ASSUME ParserInv, NextSensitive PROVE ParserInv'
<1>1. /\ parser = "graph" /\ s <= Len(sensitive_func_id_list) /\ u > Len(untrusted_func_id_list)
      /\ s' = s + 1 /\ u' = 1
      /\ UNCHANGED <<input, sensitive_func_id_list, untrusted_func_id_list, idx, j, frames, parser>>
  BY DEF NextSensitive
<1>2. PICK S, U : S = sensitive_func_id_list /\ U = untrusted_func_id_list
  OBVIOUS
<1>3. /\ S \in Seq(Nodes) /\ U \in Seq(Nodes) /\ s \in Nat /\ s >= 1 /\ u \in Nat
      /\ DOMAIN S = 1 .. Len(S) /\ DOMAIN U = 1 .. Len(U) /\ Len(S) \in Nat /\ Len(U) \in Nat
  BY <1>2 DEF ParserInv, ParserTyped, ParserTypeOK
<1>4. ParserTyped'
  BY <1>1, <1>3 DEF ParserInv, ParserTyped, ParserTypeOK, Given
<1>5. /\ Untrusted' = Untrusted /\ Given' = Given /\ AddedForCause'
      /\ \A a, b : Settled(a, b) => Settled(a, b)'
  BY <1>1, SameLists
<1>6. NamesInv'
  BY <1>1, <1>5 DEF ParserInv, NamesInv
<1>7. \A n \in DOMAIN S : n < s => \A x \in Given : Settled(S[n], x)
  BY <1>1, <1>2 DEF ParserInv, LoopInv
<1>8. \A x \in Given : Settled(S[s], x)
  <2> SUFFICES ASSUME NEW x \in Given PROVE Settled(S[s], x)
    OBVIOUS
  <2>1. x \in Untrusted
    BY <1>1 DEF ParserInv, NamesInv
  <2>2. PICK m \in DOMAIN U : U[m] = x
    BY <1>2, <2>1 DEF Untrusted, ToSet
  <2>3. m < u
    BY <1>1, <1>2, <1>3
  <2> QED
    BY <1>1, <1>2, <2>2, <2>3 DEF ParserInv, LoopInv
<1>9. \A n \in DOMAIN S : n < s + 1 => \A x \in Given : Settled(S[n], x)'
  <2> SUFFICES ASSUME NEW n \in DOMAIN S, n < s + 1, NEW x \in Given PROVE Settled(S[n], x)'
    OBVIOUS
  <2>1. n < s \/ n = s
    BY <1>3
  <2>2. Settled(S[n], x)
    BY <1>7, <1>8, <2>1
  <2>3. PICK a : a = S[n]
    OBVIOUS
  <2>4. Settled(a, x)'
    BY <1>5, <2>2, <2>3
  <2> QED
    BY <2>3, <2>4
<1>10. \A m \in DOMAIN U : ~(m < 1)
  BY <1>3
<1>11. LoopInv'
  BY <1>1, <1>2, <1>5, <1>9, <1>10 DEF LoopInv
<1> QED
  BY <1>1, <1>4, <1>5, <1>6, <1>11 DEF ParserInv, LoopsOver

(* All sensitive functions are settled with what was given. *)
LEMMA GraphDoneStep == ASSUME ParserInv, GraphDone PROVE ParserInv'
<1>1. /\ parser = "graph" /\ s > Len(sensitive_func_id_list) /\ parser' = "scan"
      /\ UNCHANGED <<input, sensitive_func_id_list, untrusted_func_id_list, s, u, idx, j, frames>>
  BY DEF GraphDone
<1>2. ParserTyped'
  BY <1>1 DEF ParserInv, ParserTyped, ParserTypeOK, Given
<1>3. /\ Untrusted' = Untrusted /\ Given' = Given /\ AddedForCause'
      /\ \A a, b : Settled(a, b) => Settled(a, b)'
  BY <1>1, SameLists
<1>4. NamesInv'
  BY <1>1, <1>3 DEF ParserInv, NamesInv
<1>5. \A n \in DOMAIN sensitive_func_id_list : n < s
  <2>1. sensitive_func_id_list \in Seq(Nodes) /\ s \in Nat
    BY DEF ParserInv, ParserTyped, ParserTypeOK
  <2> QED
    BY <1>1, <2>1
<1>6. LoopsOver'
  <2> SUFFICES ASSUME NEW n \in DOMAIN sensitive_func_id_list, NEW x \in Given
               PROVE  Settled(sensitive_func_id_list[n], x)'
    BY <1>1, <1>3 DEF LoopsOver
  <2>1. PICK a : a = sensitive_func_id_list[n]
    OBVIOUS
  <2>2. Settled(a, x)
    BY <1>1, <1>5, <2>1 DEF ParserInv, LoopInv
  <2>3. Settled(a, x)'
    BY <1>3, <2>2
  <2> QED
    BY <1>1, <2>1, <2>3
<1> QED
  BY <1>1, <1>2, <1>3, <1>4, <1>6 DEF ParserInv, LoopInv

(* The scan leaves the lists alone. *)
LEMMA ScanStep ==
    ASSUME ParserInv, ParserTyped', parser \in {"scan", "done", "crash"}, parser' \in {"scan", "done", "crash"},
           UNCHANGED <<input, sensitive_func_id_list, untrusted_func_id_list>>
    PROVE  ParserInv'
<1>1. /\ Untrusted' = Untrusted /\ Given' = Given /\ AddedForCause'
      /\ \A a, b : Settled(a, b) => Settled(a, b)'
  BY SameLists
<1>2. parser \notin {"names", "graph"} /\ parser' \notin {"names", "graph"}
  OBVIOUS
<1>3. NamesInv'
  BY <1>1, <1>2 DEF ParserInv, NamesInv
<1>4. LoopsOver'
  <2> SUFFICES ASSUME NEW n \in DOMAIN sensitive_func_id_list, NEW x \in Given
               PROVE  Settled(sensitive_func_id_list[n], x)'
    BY <1>1 DEF LoopsOver
  <2>1. PICK a : a = sensitive_func_id_list[n]
    OBVIOUS
  <2>2. Settled(a, x)
    BY <1>2, <2>1 DEF ParserInv, LoopsOver
  <2>3. Settled(a, x)'
    BY <1>1, <2>2
  <2> QED
    BY <2>1, <2>3
<1> QED
  BY <1>1, <1>2, <1>3, <1>4 DEF ParserInv, LoopInv

(* Every step of the scan keeps the types. *)
LEMMA ScanTyped ==
    ASSUME ParserTyped, Compare \/ ShowThird \/ ShowPastEnd \/ NextLine \/ ScanDone
    PROVE  /\ ParserTyped' /\ parser = "scan" /\ parser' \in {"scan", "done", "crash"}
           /\ UNCHANGED <<input, sensitive_func_id_list, untrusted_func_id_list>>
<1>1. /\ input.sensitive \in Seq(STRING) /\ Len(input.sensitive) \in Nat
      /\ input.listing \in Seq(Line) /\ Len(input.listing) \in Nat
  BY InputTyped
<1>2. idx \in Nat /\ idx >= 1 /\ j \in 1 .. Len(input.sensitive) + 1 /\ j \in Nat
  BY <1>1 DEF ParserTyped, ParserTypeOK
<1>3. CASE Compare
  BY <1>1, <1>2, <1>3 DEF Compare, InScan, ParserTyped, ParserTypeOK, Given
<1>4. CASE ShowThird
  <2>1. /\ parser = "scan" /\ j <= Len(input.sensitive) /\ idx + 3 <= Len(input.listing)
        /\ idx' = idx + 3 /\ j' = j + 1
        /\ frames' = Append(frames, <<input.sensitive[j], input.listing[idx + 3]>>)
        /\ UNCHANGED <<input, sensitive_func_id_list, untrusted_func_id_list, s, u, parser>>
    BY <1>4 DEF ShowThird, InScan, Listing
  <2>2. input.sensitive[j] \in STRING
    BY <1>1, <1>2, <2>1
  <2>3. input.listing[idx + 3] \in Line
    <3>1. PICK i \in 1 .. Len(input.listing) : i = idx + 3
      BY <1>1, <1>2, <2>1
    <3> QED
      BY <1>1, <3>1
  <2>4. frames' \in Seq(STRING \X Line)
    <3>1. PICK P, e : P = STRING \X Line /\ e = <<input.sensitive[j], input.listing[idx + 3]>>
      OBVIOUS
    <3>2. e \in P
      BY <2>2, <2>3, <3>1
    <3>3. frames \in Seq(P)
      BY <3>1 DEF ParserTyped, ParserTypeOK
    <3> QED
      BY <2>1, <3>1, <3>2, <3>3, AppendProperties
  <2> QED
    BY <1>1, <1>2, <2>1, <2>4 DEF ParserTyped, ParserTypeOK, Given
<1>5. CASE ShowPastEnd
  BY <1>1, <1>2, <1>5 DEF ShowPastEnd, InScan, ParserTyped, ParserTypeOK, Given
<1>6. CASE NextLine
  BY <1>1, <1>2, <1>6 DEF NextLine, InScan, ParserTyped, ParserTypeOK, Given
<1>7. CASE ScanDone
  BY <1>1, <1>2, <1>7 DEF ScanDone, ParserTyped, ParserTypeOK, Given
<1> QED
  BY <1>3, <1>4, <1>5, <1>6, <1>7

(* Every step of the parser keeps the invariant. *)
LEMMA ParserStep == ParserInv /\ (Next \/ UNCHANGED vars) => ParserInv'
<1> SUFFICES ASSUME ParserInv, Next \/ UNCHANGED vars PROVE ParserInv'
  OBVIOUS
<1>1. CASE LookUpSensitive BY <1>1, LookUpSensitiveStep
<1>2. CASE LookUpUntrusted BY <1>2, LookUpUntrustedStep
<1>3. CASE LookedUp        BY <1>3, LookedUpStep
<1>4. CASE Pair            BY <1>4, PairStep
<1>5. CASE NextSensitive   BY <1>5, NextSensitiveStep
<1>6. CASE GraphDone       BY <1>6, GraphDoneStep
<1>7. CASE Compare \/ ShowThird \/ ShowPastEnd \/ NextLine \/ ScanDone
  <2>1. ParserTyped
    BY DEF ParserInv
  <2>2. /\ ParserTyped' /\ parser = "scan" /\ parser' \in {"scan", "done", "crash"}
        /\ UNCHANGED <<input, sensitive_func_id_list, untrusted_func_id_list>>
    BY <1>7, <2>1, ScanTyped
  <2> QED
    BY <2>2, ScanStep
<1>8. CASE UNCHANGED vars
  <2>1. UNCHANGED <<input, sensitive_func_id_list, untrusted_func_id_list, s, u, idx, j, frames, parser>>
    BY <1>8 DEF vars
  <2>2. /\ Untrusted' = Untrusted /\ Given' = Given /\ AddedForCause'
        /\ \A a, b : Settled(a, b)' = Settled(a, b)
    BY <2>1, SameLists DEF Settled, SimplePaths, Ways, CalledBySensitive, Sensitive, Untrusted
  <2>3. ParserTyped'
    BY <2>1 DEF ParserInv, ParserTyped, ParserTypeOK, Given
  <2>4. NamesInv'
    BY <2>1, <2>2 DEF ParserInv, NamesInv
  <2>5. LoopInv' /\ LoopsOver'
    BY <2>1, <2>2 DEF ParserInv, LoopInv, LoopsOver
  <2> QED
    BY <2>2, <2>3, <2>4, <2>5 DEF ParserInv
<1> QED
  BY <1>1, <1>2, <1>3, <1>4, <1>5, <1>6, <1>7, <1>8 DEF Next

ToolsInv == ParserInv /\ PassInv

(* The inductive invariant of both tools. *)
THEOREM ToolsInvariant == ToolsSpec => []ToolsInv
<1>1. ToolsInit => ToolsInv
  BY ParserInitInv, PassInitInv DEF ToolsInv
<1>2. ToolsInv /\ [ToolsNext]_<<vars, pvars>> => ToolsInv'
  <2> SUFFICES ASSUME ToolsInv, [ToolsNext]_<<vars, pvars>> PROVE ToolsInv'
    OBVIOUS
  <2>1. Next \/ UNCHANGED vars
    BY DEF ToolsNext, Parse, Compile, Over
  <2>2. Pass!Next \/ UNCHANGED pvars
    BY DEF ToolsNext, Parse, Compile, Over
  <2> QED
    BY <2>1, <2>2, ParserStep, PassStep DEF ToolsInv
<1> QED
  BY <1>1, <1>2, PTL DEF ToolsSpec

(* Both tools stay typed; no function that was not given gets on the untrusted list twice   *)
(* (parser.py:74).                                                                          *)
THEOREM ToolsTypeCorrect == ToolsSpec => []ToolsTypeOK
<1>1. ToolsInv => ToolsTypeOK
  <2> SUFFICES ASSUME ToolsInv PROVE ToolsTypeOK
    OBVIOUS
  <2>1. ParserTypeOK
    BY DEF ToolsInv, ParserInv, ParserTyped
  <2>2. PassTyped
    BY DEF ToolsInv, PassInv
  <2>3. DOMAIN module = 1 .. Len(source) /\ Len(module) = Len(source)
    BY <2>2 DEF PassTyped
  <2>4. \A f \in DOMAIN module : module[f].insts \in Seq(Pass!Inst) /\ module[f].name = source[f].name
    BY <2>2, <2>3, InstsTyped
  <2>5. Pass!PassTypeOK
    BY <2>2, <2>3, <2>4 DEF PassTyped, Pass!PassTypeOK
  <2> QED
    BY <2>1, <2>5 DEF ToolsTypeOK
<1> QED
  BY <1>1, ToolsInvariant, PTL

(* For every call graph and lists of names, what the parser adds is called by a sensitive    *)
(* function and leads to a function that was given as untrusted (parser.py:66-76).           *)
THEOREM AddedForCauseHolds == ToolsSpec => []AddedForCause
<1>1. ToolsInv => AddedForCause
  BY DEF ToolsInv, ParserInv
<1> QED
  BY <1>1, ToolsInvariant, PTL

(* For every call graph and lists of names, the loops over the growing list miss nothing      *)
(* (parser.py:66-76).                                                                         *)
THEOREM NoneMissedHolds == ToolsSpec => []NoneMissed
<1>1. ToolsInv => NoneMissed
  <2> SUFFICES ASSUME ToolsInv, parser \notin {"names", "graph"}, NEW w \in Ways,
                      Len(w) > 1, w[1] \in Sensitive, w[Len(w)] \in Given
               PROVE  w[2] \in Untrusted
    BY DEF NoneMissed
  <2>1. PICK n \in DOMAIN sensitive_func_id_list : sensitive_func_id_list[n] = w[1]
    BY DEF Sensitive, ToSet
  <2>2. Settled(w[1], w[Len(w)])
    BY <2>1 DEF ToolsInv, ParserInv, LoopsOver
  <2>3. w \in SimplePaths(w[1], w[Len(w)])
    BY DEF SimplePaths
  <2>4. 1 \in 1 .. Len(w) - 1
    BY WaysAre DEF IsWay
  <2>5. w[1 + 1] \in CalledBySensitive(w)
    BY <2>4 DEF CalledBySensitive
  <2> QED
    BY <2>2, <2>3, <2>5 DEF Settled
<1> QED
  BY <1>1, ToolsInvariant, PTL

(* For every module, what the programmer wrote is kept in its order, and behind every call    *)
(* of multi the pass has gone over there are the two inserted calls, once, and nowhere else   *)
(* (Hello.cpp:63-125).                                                                        *)
THEOREM InstrumentedHolds == ToolsSpec => []Instrumented
<1>1. ToolsInv => Instrumented
  <2> SUFFICES ASSUME ToolsInv PROVE Pass!Instrumented
    BY DEF Instrumented
  <2>1. DOMAIN module = 1 .. Len(source)
    BY DEF ToolsInv, PassInv, PassTyped
  <2>2. \A f \in DOMAIN module : Shape(f)
    BY <2>1 DEF ToolsInv, PassInv, Shapes
  <2> QED
    BY <2>2 DEF Pass!Instrumented, Shape, KeptIn, Behind, Only
<1> QED
  BY <1>1, ToolsInvariant, PTL

(* For every module that defines invoke before the first function that calls multi, or as     *)
(* that function, the pass does not crash (Hello.cpp:59 and 107).                             *)
THEOREM NoCrashHolds == ToolsSpec => []NoCrash
<1>1. ToolsInv => NoCrash
  BY DEF ToolsInv, PassInv, CrashCause, NoCrash, Pass!NoCrash
<1> QED
  BY <1>1, ToolsInvariant, PTL

(***************************************************************************)
(* The scan of the disassembly.  While it lasts, the third instructions up *)
(* to its line have been shown; it is in none of the two lines between a   *)
(* sensitive function's head and its third instruction, for it goes from   *)
(* the head over both; and a head that is still compared has none of the   *)
(* names it was compared with.                                             *)
(***************************************************************************)
Third(h) == Listing[h].n = 3 /\ Listing[h].func \in ToSet(input.sensitive)

ScanInv ==
    LongEnough =>
        /\ parser # "crash"
        /\ parser \in {"names", "graph"} => idx = 1 /\ j = 1 /\ frames = <<>>
        /\ parser = "done" => idx > Len(Listing)
        /\ ShownUpTo(idx)
        /\ \A h \in DOMAIN Listing : Third(h) => idx # h - 1 /\ idx # h - 2
        /\ idx \in DOMAIN Listing /\ Listing[idx].n = 0 =>
              \A m \in 1 .. j - 1 : input.sensitive[m] # Listing[idx].func

(* The lines and where the scan is in them. *)
LEMMA LinesAre ==
    ASSUME ParserTyped
    PROVE  /\ DOMAIN Listing = 1 .. Len(Listing) /\ Len(Listing) \in Nat
           /\ \A h \in DOMAIN Listing : Listing[h] \in Line /\ Listing[h].n \in Nat
           /\ DOMAIN input.sensitive = 1 .. Len(input.sensitive) /\ Len(input.sensitive) \in Nat
           /\ idx \in Nat \ {0} /\ j \in Nat \ {0} /\ j <= Len(input.sensitive) + 1
<1>1. /\ input.sensitive \in Seq(STRING) /\ Len(input.sensitive) \in Nat
      /\ Listing \in Seq(Line) /\ Len(Listing) \in Nat
  BY InputTyped DEF Listing
<1>2. \A h \in DOMAIN Listing : Listing[h] \in Line /\ Listing[h].n \in Nat
  <2>1. \A h \in DOMAIN Listing : Listing[h] \in Line
    BY <1>1
  <2> QED
    BY <2>1 DEF Line
<1>3. idx \in Nat \ {0} /\ j \in Nat \ {0} /\ j <= Len(input.sensitive) + 1
  BY <1>1 DEF ParserTyped, ParserTypeOK
<1> QED
  BY <1>1, <1>2, <1>3

(* The third instructions up to a line are finitely many. *)
LEMMA ThirdsAre ==
    ASSUME NEW n \in Nat
    PROVE  IsFiniteSet(ThirdsUpTo(n)) /\ Cardinality(ThirdsUpTo(n)) \in Nat
<1>1. IsFiniteSet(1 .. n)
  BY FS_Interval
<1>2. ThirdsUpTo(n) \subseteq 1 .. n
  BY DEF ThirdsUpTo
<1> QED
  BY <1>1, <1>2, FS_Subset, FS_CardinalityType

(* Where there are no further ones, what was shown is still all. *)
LEMMA ShownStays ==
    ASSUME NEW n, NEW m, ShownUpTo(n), ThirdsUpTo(m)' = ThirdsUpTo(n), UNCHANGED <<input, frames>>
    PROVE  ShownUpTo(m)'
<1>1. \A x : ThirdsUpTo(x)' = ThirdsUpTo(x)
  BY DEF ThirdsUpTo, Listing
<1> QED
  BY <1>1 DEF ShownUpTo, Listing

(* Showing the next one. *)
LEMMA ShownNext ==
    ASSUME NEW n \in Nat, NEW m \in Nat, ShownUpTo(n), m \notin ThirdsUpTo(n),
           ThirdsUpTo(m) = ThirdsUpTo(n) \cup {m}, NEW P, frames \in Seq(P),
           <<Listing[m].func, Listing[m]>> \in P,
           input' = input, frames' = Append(frames, <<Listing[m].func, Listing[m]>>)
    PROVE  ShownUpTo(m)'
<1> DEFINE l == Len(frames)
           C(x) == Cardinality(ThirdsUpTo(x))
<1>1. \A x : ThirdsUpTo(x)' = ThirdsUpTo(x)
  BY DEF ThirdsUpTo, Listing
<1>2. l \in Nat /\ l = C(n) /\ IsFiniteSet(ThirdsUpTo(n))
  BY ThirdsAre DEF ShownUpTo
<1>3. C(m) = l + 1
  BY <1>2, FS_AddElement
<1>4. /\ Len(frames') = l + 1 /\ frames'[l + 1] = <<Listing[m].func, Listing[m]>>
      /\ \A x \in 1 .. l : frames'[x] = frames[x]
  BY <1>2, AppendProperties
<1>5. ASSUME NEW x \in ThirdsUpTo(n) PROVE frames'[C(x)] = <<Listing[x].func, Listing[x]>>
  <2>1. x \in Nat /\ x \in 1 .. n
    BY DEF ThirdsUpTo
  <2>2. ThirdsUpTo(x) \subseteq ThirdsUpTo(n) /\ x \in ThirdsUpTo(x)
    BY <2>1 DEF ThirdsUpTo
  <2>3. C(x) \in Nat /\ C(x) <= C(n) /\ C(x) # 0
    BY <1>2, <2>1, <2>2, ThirdsAre, FS_Subset, FS_EmptySet
  <2>4. C(x) \in 1 .. l
    BY <1>2, <2>3
  <2>5. frames[C(x)] = <<Listing[x].func, Listing[x]>>
    BY DEF ShownUpTo
  <2> QED
    BY <1>4, <2>4, <2>5
<1>6. \A x \in ThirdsUpTo(m) : frames'[C(x)] = <<Listing[x].func, Listing[x]>>
  BY <1>3, <1>4, <1>5
<1>7. Listing' = Listing
  BY DEF Listing
<1> HIDE DEF l
<1> QED
  BY <1>1, <1>3, <1>4, <1>6, <1>7, Zenon DEF ShownUpTo

(* What LongEnough says of the head the scan is at. *)
LEMMA HeadIs ==
    ASSUME ParserTyped, LongEnough, idx \in DOMAIN Listing, Listing[idx].n = 0
    PROVE  /\ idx + 3 <= Len(Listing) /\ idx + 1 \in DOMAIN Listing /\ idx + 2 \in DOMAIN Listing
           /\ idx + 3 \in DOMAIN Listing
           /\ Listing[idx + 1].n = 1 /\ Listing[idx + 2].n = 2 /\ Listing[idx + 3].n = 3
           /\ Listing[idx + 3].func = Listing[idx].func
<1>1. idx + 3 \in DOMAIN Listing /\ \A k \in 1 .. 3 : Listing[idx + k] = [Listing[idx] EXCEPT !.n = k]
  BY DEF LongEnough
<1>2. Listing[idx] \in Line
  BY LinesAre
<1>3. \A k \in 1 .. 3 : Listing[idx + k].n = k /\ Listing[idx + k].func = Listing[idx].func
  BY <1>1, <1>2 DEF Line
<1>4. idx + 3 <= Len(Listing) /\ idx + 1 \in DOMAIN Listing /\ idx + 2 \in DOMAIN Listing
  BY <1>1, LinesAre
<1> QED
  BY <1>1, <1>3, <1>4

(* The head of a third instruction is three lines before it. *)
LEMMA ThirdIs ==
    ASSUME ParserTyped, LongEnough, NEW h \in DOMAIN Listing, Listing[h].n = 3
    PROVE  /\ h - 3 \in DOMAIN Listing /\ h \in Nat /\ h > 3
           /\ Listing[h - 3].n = 0 /\ Listing[h - 3].func = Listing[h].func
<1>1. h > 3 /\ Listing[h - 3] = HeadOf(Listing[h].func)
  BY DEF LongEnough
<1>2. h - 3 \in DOMAIN Listing /\ h \in Nat
  BY <1>1, LinesAre
<1> QED
  BY <1>1, <1>2 DEF HeadOf

(* Steps that leave the scan alone. *)
LEMMA ScanIdle ==
    ASSUME ScanInv, UNCHANGED <<input, idx, j, frames>>, parser' # "crash",
           parser' = parser \/ parser' \in {"graph", "scan"},
           parser' \in {"names", "graph"} => parser \in {"names", "graph"}
    PROVE  ScanInv'
<1>1. Listing' = Listing /\ LongEnough' = LongEnough /\ \A h : Third(h)' = Third(h)
  BY DEF Listing, LongEnough, Third
<1>2. ShownUpTo(idx) => ShownUpTo(idx)'
  BY DEF ShownUpTo, ThirdsUpTo, Listing
<1> QED
  BY <1>1, <1>2 DEF ScanInv

(* Every step of the parser keeps it. *)
LEMMA ScanKeeps ==
    ASSUME ParserTyped, ScanInv, Next \/ UNCHANGED vars
    PROVE  ScanInv'
<1>0. input' = input /\ Listing' = Listing /\ LongEnough' = LongEnough /\ \A h : Third(h)' = Third(h)
  <2>1. input' = input
    BY DEF Next, vars, LookUpSensitive, LookUpUntrusted, LookedUp, Pair, NextSensitive, GraphDone,
           Compare, ShowThird, ShowPastEnd, NextLine, ScanDone
  <2> QED
    BY <2>1 DEF Listing, LongEnough, Third
<1>1. CASE LookUpSensitive \/ LookUpUntrusted \/ LookedUp \/ Pair \/ NextSensitive \/ GraphDone \/ UNCHANGED vars
  <2>1. /\ UNCHANGED <<input, idx, j, frames>>
        /\ parser' = parser \/ (parser = "names" /\ parser' = "graph") \/ (parser = "graph" /\ parser' = "scan")
    BY <1>1 DEF LookUpSensitive, LookUpUntrusted, LookedUp, Pair, NextSensitive, GraphDone, vars
  <2>2. CASE LongEnough
    <3>1. parser' # "crash"
      BY <2>1, <2>2 DEF ScanInv
    <3> QED
      BY <2>1, <3>1, ScanIdle
  <2>3. CASE ~LongEnough
    BY <1>0, <2>3 DEF ScanInv
  <2> QED
    BY <2>2, <2>3
<1>2. SUFFICES ASSUME LongEnough, Compare \/ ShowThird \/ ShowPastEnd \/ NextLine \/ ScanDone
               PROVE  ScanInv'
  BY <1>0, <1>1 DEF Next, ScanInv
<1>3. /\ DOMAIN Listing = 1 .. Len(Listing) /\ Len(Listing) \in Nat
      /\ \A h \in DOMAIN Listing : Listing[h] \in Line /\ Listing[h].n \in Nat
      /\ DOMAIN input.sensitive = 1 .. Len(input.sensitive) /\ Len(input.sensitive) \in Nat
      /\ idx \in Nat \ {0} /\ j \in Nat \ {0} /\ j <= Len(input.sensitive) + 1
  BY LinesAre
<1>4. /\ ShownUpTo(idx)
      /\ \A h \in DOMAIN Listing : Third(h) => idx # h - 1 /\ idx # h - 2
      /\ idx \in DOMAIN Listing /\ Listing[idx].n = 0 =>
            \A m \in 1 .. j - 1 : input.sensitive[m] # Listing[idx].func
  BY <1>2 DEF ScanInv
<1>5. CASE Compare
  <2>1. /\ idx \in DOMAIN Listing /\ Listing[idx] # HeadOf(input.sensitive[j]) /\ j' = j + 1
        /\ parser = "scan" /\ UNCHANGED <<input, idx, frames, parser>>
    BY <1>3, <1>5 DEF Compare, InScan
  <2>2. Listing[idx].n = 0 => input.sensitive[j] # Listing[idx].func
    BY <1>3, <2>1 DEF HeadOf, Line
  <2>3. Listing[idx].n = 0 => \A m \in 1 .. j' - 1 : input.sensitive[m] # Listing[idx].func
    BY <1>3, <1>4, <2>1, <2>2
  <2>4. ShownUpTo(idx)'
    BY <1>4, <2>1 DEF ShownUpTo, ThirdsUpTo, Listing
  <2> QED
    BY <1>0, <1>4, <2>1, <2>3, <2>4 DEF ScanInv
<1>6. CASE ShowThird
  <2>1. /\ idx \in DOMAIN Listing /\ Listing[idx] = HeadOf(input.sensitive[j]) /\ j \in DOMAIN input.sensitive
        /\ idx' = idx + 3 /\ parser = "scan" /\ parser' = parser
        /\ frames' = Append(frames, <<input.sensitive[j], Listing[idx + 3]>>)
    BY <1>3, <1>6 DEF ShowThird, InScan
  <2>2. Listing[idx].n = 0 /\ Listing[idx].func = input.sensitive[j]
    BY <2>1 DEF HeadOf
  <2>3. /\ idx + 1 \in DOMAIN Listing /\ idx + 2 \in DOMAIN Listing /\ idx + 3 \in DOMAIN Listing
        /\ Listing[idx + 1].n = 1 /\ Listing[idx + 2].n = 2 /\ Listing[idx + 3].n = 3
        /\ Listing[idx + 3].func = input.sensitive[j]
    BY <1>2, <2>1, <2>2, HeadIs
  <2>4. Third(idx + 3)
    BY <2>1, <2>3 DEF Third, ToSet
  <2>5. ThirdsUpTo(idx + 3) = ThirdsUpTo(idx) \cup {idx + 3} /\ idx + 3 \notin ThirdsUpTo(idx)
    <3>1. \A m \in 1 .. idx + 3 : m \in 1 .. idx \/ m = idx + 1 \/ m = idx + 2 \/ m = idx + 3
      BY <1>3
    <3>2. idx + 3 \in 1 .. idx + 3 /\ idx + 3 \notin 1 .. idx /\ 1 .. idx \subseteq 1 .. idx + 3
      BY <1>3
    <3> QED
      BY <2>3, <2>4, <3>1, <3>2 DEF ThirdsUpTo, Third
  <2>6. ShownUpTo(idx)'
    <3>1. PICK P : P = STRING \X Line
      OBVIOUS
    <3>2. frames \in Seq(P)
      BY <3>1 DEF ParserTyped, ParserTypeOK
    <3>3. Listing[idx + 3] \in Line /\ Listing[idx + 3].func \in STRING
      BY <1>3, <2>3 DEF Line
    <3>4. <<Listing[idx + 3].func, Listing[idx + 3]>> \in P
      BY <3>1, <3>3
    <3>5. frames' = Append(frames, <<Listing[idx + 3].func, Listing[idx + 3]>>)
      BY <2>1, <2>3
    <3>6. PICK n \in Nat, m \in Nat : n = idx /\ m = idx + 3
      BY <1>3
    <3>7. ShownUpTo(m)'
      BY <1>0, <1>4, <2>5, <3>2, <3>4, <3>5, <3>6, ShownNext
    <3>8. idx' = m
      BY <2>1, <3>6
    <3> QED
      BY <3>7, <3>8 DEF ShownUpTo, ThirdsUpTo
  <2>7. ASSUME NEW h \in DOMAIN Listing, Third(h) PROVE idx' # h - 1 /\ idx' # h - 2
    <3>1. h \in Nat /\ Listing[h - 3].n = 0
      BY <1>2, <2>7, ThirdIs DEF Third
    <3>2. h - 3 # idx + 1 /\ h - 3 # idx + 2
      BY <2>3, <3>1
    <3>3. idx \in Nat /\ idx' = idx + 3
      BY <1>3, <2>1
    <3> QED
      BY <3>1, <3>2, <3>3
  <2> QED
    BY <1>0, <2>1, <2>3, <2>6, <2>7 DEF ScanInv
<1>7. CASE ShowPastEnd
  <2>1. idx \in DOMAIN Listing /\ Listing[idx].n = 0 /\ idx + 3 > Len(Listing)
    BY <1>3, <1>7 DEF ShowPastEnd, InScan, HeadOf
  <2> QED
    BY <1>2, <1>3, <2>1, HeadIs
<1>8. CASE NextLine
  <2>1. /\ idx \in DOMAIN Listing /\ j = Len(input.sensitive) + 1 /\ idx' = idx + 1 /\ j' = 1
        /\ parser = "scan" /\ UNCHANGED <<input, frames, parser>>
    BY <1>3, <1>8 DEF NextLine, InScan
  <2>2. ASSUME NEW h \in DOMAIN Listing, Third(h) PROVE idx' # h /\ idx' # h - 1 /\ idx' # h - 2
    <3>1. /\ h - 3 \in DOMAIN Listing /\ h \in Nat
          /\ Listing[h - 3].n = 0 /\ Listing[h - 3].func = Listing[h].func
      BY <1>2, <2>2, ThirdIs DEF Third
    <3>2. idx # h - 1 /\ idx # h - 2
      BY <1>4, <2>2
    <3>3. idx # h - 3
      <4>1. PICK m \in DOMAIN input.sensitive : input.sensitive[m] = Listing[h].func
        BY <2>2 DEF Third, ToSet
      <4>2. m \in 1 .. j - 1
        BY <1>3, <2>1, <4>1
      <4>3. idx = h - 3 => input.sensitive[m] # Listing[idx].func
        BY <1>4, <3>1, <4>2
      <4> QED
        BY <3>1, <4>1, <4>3
    <3>4. idx \in Nat /\ idx' = idx + 1
      BY <1>3, <2>1
    <3> QED
      BY <3>1, <3>2, <3>3, <3>4
  <2>3. ThirdsUpTo(idx') = ThirdsUpTo(idx)
    <3>1. \A m \in 1 .. idx + 1 : m \in 1 .. idx \/ m = idx + 1
      BY <1>3
    <3>2. 1 .. idx \subseteq 1 .. idx + 1
      BY <1>3
    <3> QED
      BY <2>1, <2>2, <3>1, <3>2 DEF ThirdsUpTo, Third
  <2>4. ShownUpTo(idx)'
    BY <1>4, <2>1, <2>3 DEF ShownUpTo, ThirdsUpTo, Listing
  <2>5. \A m \in 1 .. j' - 1 : FALSE
    BY <2>1
  <2> QED
    BY <1>0, <2>1, <2>2, <2>4, <2>5 DEF ScanInv
<1>9. CASE ScanDone
  <2>1. /\ parser = "scan" /\ parser' = "done" /\ idx > Len(Listing)
        /\ UNCHANGED <<input, idx, j, frames>>
    BY <1>9 DEF ScanDone
  <2>2. ShownUpTo(idx)'
    BY <1>4, <2>1 DEF ShownUpTo, ThirdsUpTo, Listing
  <2> QED
    BY <1>0, <1>4, <2>1, <2>2 DEF ScanInv
<1> QED
  BY <1>2, <1>5, <1>6, <1>7, <1>8, <1>9

(* The scan starts at the first line, which is no third one. *)
LEMMA ScanStarts ==
    ASSUME ToolsInit
    PROVE  ScanInv
<1>1. ParserTyped /\ idx = 1 /\ j = 1 /\ frames = <<>> /\ parser = "names"
  BY ParserInitInv DEF ToolsInit, Init, ParserInv
<1> SUFFICES ASSUME LongEnough
             PROVE  /\ ShownUpTo(1)
                    /\ \A h \in DOMAIN Listing : Third(h) => 1 # h - 1 /\ 1 # h - 2
  BY <1>1 DEF ScanInv
<1>2. \A h \in DOMAIN Listing : Third(h) => h \in Nat /\ h > 3
  BY <1>1, ThirdIs DEF Third
<1>3. ThirdsUpTo(1) = {}
  BY <1>2 DEF ThirdsUpTo, Third
<1>4. ShownUpTo(1)
  BY <1>1, <1>3, FS_EmptySet DEF ShownUpTo
<1> QED
  BY <1>2, <1>4

(* For every disassembly whose functions have three instructions, the scan stays in the     *)
(* file and shows the third one of each sensitive function, once and in order               *)
(* (parser.py:84-97).                                                                       *)
THEOREM ThirdLinesHolds == ToolsSpec => []ThirdLines
<1>1. ToolsInit => ScanInv
  BY ScanStarts
<1>2. ToolsInv /\ ScanInv /\ [ToolsNext]_<<vars, pvars>> => ScanInv'
  <2> SUFFICES ASSUME ToolsInv, ScanInv, [ToolsNext]_<<vars, pvars>> PROVE ScanInv'
    OBVIOUS
  <2>1. Next \/ UNCHANGED vars
    BY DEF ToolsNext, Parse, Compile, Over
  <2> QED
    BY <2>1, ScanKeeps DEF ToolsInv, ParserInv
<1>3. ToolsInv /\ ScanInv => ThirdLines
  <2> SUFFICES ASSUME ToolsInv, ScanInv, LongEnough, parser = "done" PROVE ShownUpTo(Len(Listing))
    BY DEF ThirdLines, ScanInv
  <2>1. DOMAIN Listing = 1 .. Len(Listing) /\ Len(Listing) \in Nat /\ idx \in Nat
    BY LinesAre DEF ToolsInv, ParserInv
  <2>2. ShownUpTo(idx) /\ idx > Len(Listing)
    BY DEF ScanInv
  <2>3. ThirdsUpTo(idx) = ThirdsUpTo(Len(Listing))
    BY <2>1, <2>2 DEF ThirdsUpTo
  <2> QED
    BY <2>2, <2>3 DEF ShownUpTo
<1> QED
  BY <1>1, <1>2, <1>3, ToolsInvariant, PTL DEF ToolsSpec
=============================================================================
