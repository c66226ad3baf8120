----------------------------- MODULE HelloPass ------------------------------
(***************************************************************************)
(* The LLVM pass of llvm/Hello.cpp.  It goes over the functions of a       *)
(* module and over the instructions of each, and puts the encrypt system   *)
(* call and a call of the function "invoke" behind every call of "multi",  *)
(* into the instruction list it is going over.                             *)
(***************************************************************************)
EXTENDS Integers, Sequences, SequencesExt

CONSTANTS
    Names,     \* the names of functions
    Modules    \* the modules that may be compiled: sequences of [name, insts],
               \* where a declaration has no instructions

Inst == [op : {"call", "asm", "other"}, callee : Names \cup {"NULL"}, inserted : BOOLEAN]

VARIABLES
    source,        \* history: the module before the pass
    module,        \* the module as it is now
    F, I,          \* the function and the instruction the pass is at
    insert_func,   \* the "invoke" that was met, or "NULL"
    pass           \* "function", "inst", "done" or "crash"

vars == <<source, module, F, I, insert_func, pass>>

Init == /\ source \in Modules /\ module = source
        /\ F = 1 /\ I = 1 /\ insert_func = "NULL" /\ pass = "function"

(* The pass manager hands no declaration to the pass. *)
SkipDeclaration ==
    /\ pass = "function" /\ module[F].insts = <<>>
    /\ F' = F + 1 /\ pass' = IF F < Len(module) THEN "function" ELSE "done"
    /\ UNCHANGED <<source, module, I, insert_func>>

(* Mutant: the pass forgets the invoke it has met. *)
runOnFunctionAnew ==
    /\ pass = "function" /\ module[F].insts # <<>>
    /\ insert_func' = IF module[F].name = "invoke" THEN "invoke" ELSE "NULL"
    /\ I' = 1 /\ pass' = "inst"
    /\ UNCHANGED <<source, module, F>>

runOnFunction ==
    /\ pass = "function" /\ module[F].insts # <<>>
    /\ insert_func' = IF insert_func = "NULL" /\ module[F].name = "invoke" THEN "invoke" ELSE insert_func
    /\ I' = 1 /\ pass' = "inst"
    /\ UNCHANGED <<source, module, F>>

Insts == module[F].insts
AtInst == pass = "inst" /\ I <= Len(Insts)

(* Only a direct call has a called function: an indirect call and inline assembly have none. *)
CallsMulti(x) == x.op = "call" /\ x.callee = "multi"

Step ==
    /\ AtInst /\ ~CallsMulti(Insts[I])
    /\ I' = I + 1
    /\ UNCHANGED <<source, module, F, insert_func, pass>>

(* Both are inserted right behind the call, the system call last and so first. *)
Syscall == [op |-> "asm", callee |-> "NULL", inserted |-> TRUE]
Invoke  == [op |-> "call", callee |-> insert_func, inserted |-> TRUE]

(* Mutants: the system call goes behind the call of invoke; the pass goes back to the call. *)
InsertSwapped ==
    /\ AtInst /\ CallsMulti(Insts[I]) /\ insert_func # "NULL"
    /\ module' = [module EXCEPT ![F].insts = InsertAt(InsertAt(@, I + 1, Syscall), I + 1, Invoke)]
    /\ I' = I + 1
    /\ UNCHANGED <<source, F, insert_func, pass>>

InsertStay ==
    /\ AtInst /\ CallsMulti(Insts[I]) /\ insert_func # "NULL"
    /\ IF Len(Insts) > I /\ Insts[I + 1] = Syscall THEN UNCHANGED module
       ELSE module' = [module EXCEPT ![F].insts = InsertAt(InsertAt(@, I + 1, Invoke), I + 1, Syscall)]
    /\ UNCHANGED <<source, F, I, insert_func, pass>>

InsertBehind ==
    /\ AtInst /\ CallsMulti(Insts[I]) /\ insert_func # "NULL"
    /\ module' = [module EXCEPT ![F].insts = InsertAt(InsertAt(@, I + 1, Invoke), I + 1, Syscall)]
    /\ I' = I + 1
    /\ UNCHANGED <<source, F, insert_func, pass>>

(* CallInst::Create() with the NULL of a pass that has not met "invoke" yet. *)
InsertCrash ==
    /\ AtInst /\ CallsMulti(Insts[I]) /\ insert_func = "NULL"
    /\ pass' = "crash"
    /\ UNCHANGED <<source, module, F, I, insert_func>>

NextFunction ==
    /\ pass = "inst" /\ I > Len(Insts)
    /\ F' = F + 1 /\ pass' = IF F < Len(module) THEN "function" ELSE "done"
    /\ UNCHANGED <<source, module, I, insert_func>>

Next == SkipDeclaration \/ runOnFunction \/ Step \/ InsertBehind \/ InsertCrash \/ NextFunction
-----------------------------------------------------------------------------
(* Type invariant. *)
PassTypeOK ==
    /\ Len(module) = Len(source)
    /\ \A f \in DOMAIN module : module[f].insts \in Seq(Inst) /\ module[f].name = source[f].name
    /\ F \in 1 .. Len(module) + 1 /\ I \in Nat \ {0}
    /\ insert_func \in {"NULL", "invoke"} /\ pass \in {"function", "inst", "done", "crash"}

(* In what the pass has gone over, behind every call of multi there are the system call  *)
(* and then the call of invoke, once, and they are nowhere else; what the programmer      *)
(* wrote is all there in its order, and what the pass has not reached is untouched.       *)
Own(x)  == ~x.inserted
Invoked == [op |-> "call", callee |-> "invoke", inserted |-> TRUE]
GoneOver(f) == IF f < F THEN 1 .. Len(module[f].insts) ELSE IF f = F /\ pass # "function" THEN 1 .. I - 1 ELSE {}

(* place[n] is where instruction n of the source is now. *)
Kept(place, old, is) ==
    /\ \A n \in DOMAIN old : is[place[n]] = old[n]
    /\ \A m, n \in DOMAIN old : m < n => place[m] < place[n]
    /\ \A k \in DOMAIN is : Own(is[k]) => \E n \in DOMAIN old : place[n] = k

Instrumented ==
    \A f \in DOMAIN module :
        LET is == module[f].insts
        IN  /\ \E place \in [DOMAIN source[f].insts -> DOMAIN is] : Kept(place, source[f].insts, is)
            /\ \A n \in DOMAIN is :
                  /\ (Own(is[n]) /\ CallsMulti(is[n]) /\ n \in GoneOver(f)) =>
                        n + 2 <= Len(is) /\ is[n + 1] = Syscall /\ is[n + 2] = Invoked
                  /\ ~Own(is[n]) =>
                        \/ n > 1 /\ CallsMulti(is[n - 1]) /\ is[n] = Syscall
                        \/ n > 2 /\ CallsMulti(is[n - 2]) /\ is[n - 1] = Syscall /\ is[n] = Invoked

(* The pass does not crash on a module that defines invoke before the first function that *)
(* calls multi, or as that function; a declaration of invoke does not count.              *)
InvokeFirst == \A f \in DOMAIN source :
                  (\E n \in DOMAIN source[f].insts : CallsMulti(source[f].insts[n])) =>
                      \E g \in 1 .. f : source[g].name = "invoke" /\ source[g].insts # <<>>
NoCrash == InvokeFirst => pass # "crash"

(* The pass comes to the end of every module, though it meets its own insertions. *)
PassEnds == <>(pass \in {"done", "crash"})
=============================================================================
