----------------------------- MODULE MCCompiler -----------------------------
(***************************************************************************)
(* Tools for TLC.  The parser is run on every call graph of four           *)
(* functions, and on disassemblies of functions of one to four             *)
(* instructions; the pass on modules of three functions of up to two       *)
(* instructions and a return.                                              *)
(***************************************************************************)
EXTENDS Tools

MCNames == {"main", "invoke", "multi"}
MCInst(op, callee) == [op |-> op, callee |-> callee, inserted |-> FALSE]
MCInsts   == {MCInst("call", "multi"), MCInst("call", "invoke"), MCInst("call", "NULL")}
MCReturn  == MCInst("other", "NULL")
MCBodies  == {Append(b, MCReturn) : b \in UNION {[1 .. n -> MCInsts] : n \in 0 .. 2}} \cup {<<>>}
MCDefault == <<[name |-> "main", insts |-> <<MCReturn>>]>>
MCModules == {[n \in 1 .. 3 |-> [name |-> t[n], insts |-> IF t[n] = "multi" THEN <<>> ELSE b[n]]] :
                 t \in SetToSeqs(MCNames),
                 b \in [1 .. 3 -> MCBodies]}
                \cup {MCDefault}

MCNodes == {"a", "b", "c", "d"}
Body(f, n) == [k \in 1 .. n + 1 |-> [func |-> f, n |-> k - 1]]
Blank == <<[func |-> "", n |-> 1]>>

MCNoWork == [edges |-> {}, sensitive |-> <<>>, untrusted |-> <<>>, listing |-> <<>>]
MCGraphs == {[edges |-> e, sensitive |-> <<"a", "x", "b">>, untrusted |-> t, listing |-> <<>>] :
                e \in SUBSET {x \in MCNodes \X MCNodes : x[1] # x[2]},
                t \in {<<"d">>, <<"c", "x", "d">>}}
MCListings == {[edges |-> {}, sensitive |-> <<"a", "b">>, untrusted |-> <<"d">>,
                listing |-> Body(f[1], n[1]) \o Blank \o Body(f[2], n[2]) \o Blank \o Body(f[3], n[3])] :
                  f \in SetToSeqs({"a", "b", "c"}), n \in [1 .. 3 -> 1 .. 4]}
MCInputs == {MCNoWork} \cup MCGraphs \cup MCListings

(* ToolsInit where one of the two tools has nothing to do. *)
MCInit == \/ source = MCDefault /\ Pass!Init /\ Init
          \/ input = MCNoWork /\ Init /\ Pass!Init

MCSpec == MCInit /\ [][ToolsNext]_<<vars, pvars>> /\ ToolsFairness
=============================================================================
