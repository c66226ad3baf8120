------------------------------- MODULE Tools --------------------------------
(***************************************************************************)
(* The two tools that prepare a program: parser.py, and then the LLVM pass *)
(* on the program it has told what to instrument in.                       *)
(***************************************************************************)
EXTENDS CallGraph

CONSTANTS Names, Modules
VARIABLES source, module, F, I, insert_func, pass

Pass == INSTANCE HelloPass

pvars == <<source, module, F, I, insert_func, pass>>

(* A module has a function, and what the programmer wrote was not inserted by the pass. *)
ASSUME ModuleAssumption ==
    /\ "invoke" \in Names
    /\ \A m \in Modules :
          /\ m \in Seq([name : Names, insts : Seq([op : {"call", "asm", "other"}, callee : Names \cup {"NULL"},
                                                  inserted : {FALSE}])])
          /\ m # <<>>

ToolsInit == Init /\ Pass!Init

(* The program is compiled when the parser has told what to instrument. *)
ParserOver == parser \in {"done", "crash"}
Parse   == Next /\ UNCHANGED pvars
Compile == ParserOver /\ Pass!Next /\ UNCHANGED vars
Over    == ParserOver /\ pass \in {"done", "crash"} /\ UNCHANGED <<vars, pvars>>

ToolsNext == Parse \/ Compile \/ Over

(* Nothing stops a tool before its end. *)
ToolsFairness == WF_<<vars, pvars>>(Parse) /\ WF_<<vars, pvars>>(Compile)

ToolsSpec == ToolsInit /\ [][ToolsNext]_<<vars, pvars>> /\ ToolsFairness
-----------------------------------------------------------------------------
(* Type invariant of both tools. *)
ToolsTypeOK == ParserTypeOK /\ Pass!PassTypeOK

(* The module is instrumented behind the calls of multi and nowhere else, as far as the   *)
(* pass has come, though it inserts into the list it goes over (Hello.cpp:63-125).        *)
Instrumented == Pass!Instrumented

(* A module that defines invoke early enough is gone through without a crash, whatever    *)
(* order its functions have (insert_func, Hello.cpp:59 and 107).                          *)
NoCrash == Pass!NoCrash

(* The pass comes to an end, though its insertions lengthen what it goes over.            *)
PassEnds == Pass!PassEnds
=============================================================================
