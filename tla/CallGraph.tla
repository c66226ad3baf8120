----------------------------- MODULE CallGraph ------------------------------
(***************************************************************************)
(* parser.py, which finds out what has to be instrumented.  It looks up    *)
(* the names it is given in the call graph; it adds to the untrusted       *)
(* functions those that a sensitive one calls on a way to an untrusted     *)
(* one, over a list that grows while it is gone through; then it looks up  *)
(* in a disassembly the line that reserves the frame of each sensitive     *)
(* function.                                                               *)
(***************************************************************************)
EXTENDS Integers, Sequences, FiniteSets, SequencesExt

CONSTANTS
    Nodes,    \* functions of the call graph
    Inputs    \* the files: [edges, sensitive, untrusted, listing]

(* A line of the disassembly is a function's head or an instruction, with its number in  *)
(* the function; the empty line between two functions is no instruction of either.        *)
Line == [func : STRING, n : Nat]

ASSUME InputAssumption ==
    /\ IsFiniteSet(Nodes)
    /\ \A x \in Inputs : /\ x.edges \subseteq Nodes \X Nodes
                         /\ x.sensitive \in Seq(STRING) /\ x.untrusted \in Seq(STRING)
                         /\ x.listing \in Seq(Line)

VARIABLES
    input,
    sensitive_func_id_list, untrusted_func_id_list,
    s, u,         \* where the loops over the names, and then over the two lists, are
    idx,          \* the line of the disassembly the scan is at
    j,            \* the sensitive function it is compared with
    frames,       \* what was printed: a sensitive name and a line
    parser        \* "names", "graph", "scan", "done" or "crash"

vars == <<input, sensitive_func_id_list, untrusted_func_id_list, s, u, idx, j, frames, parser>>

Init ==
    /\ input \in Inputs
    /\ sensitive_func_id_list = <<>> /\ untrusted_func_id_list = <<>>
    /\ s = 1 /\ u = 1 /\ idx = 1 /\ j = 1 /\ frames = <<>> /\ parser = "names"

(* A name that is no label of the graph is dropped. *)
WithId(list, name) == IF name \in Nodes THEN Append(list, name) ELSE list

LookUpSensitive ==
    /\ parser = "names" /\ s <= Len(input.sensitive)
    /\ sensitive_func_id_list' = WithId(sensitive_func_id_list, input.sensitive[s])
    /\ s' = s + 1
    /\ UNCHANGED <<input, untrusted_func_id_list, u, idx, j, frames, parser>>

LookUpUntrusted ==
    /\ parser = "names" /\ s > Len(input.sensitive) /\ u <= Len(input.untrusted)
    /\ untrusted_func_id_list' = WithId(untrusted_func_id_list, input.untrusted[u])
    /\ u' = u + 1
    /\ UNCHANGED <<input, sensitive_func_id_list, s, idx, j, frames, parser>>

LookedUp ==
    /\ parser = "names" /\ s > Len(input.sensitive) /\ u > Len(input.untrusted)
    /\ parser' = "graph" /\ s' = 1 /\ u' = 1
    /\ UNCHANGED <<input, sensitive_func_id_list, untrusted_func_id_list, idx, j, frames>>

(* The ways from a to b that meet no function twice. *)
NoRepeat        == UNION {{w \in [1 .. n -> Nodes] : \A i, k \in 1 .. n : i # k => w[i] # w[k]} :
                             n \in 1 .. Cardinality(Nodes)}
Ways            == {w \in NoRepeat : \A i \in 1 .. Len(w) - 1 : <<w[i], w[i + 1]>> \in input.edges}
SimplePaths(a, b) == {w \in Ways : w[1] = a /\ w[Len(w)] = b}

Sensitive == ToSet(sensitive_func_id_list)
Untrusted == ToSet(untrusted_func_id_list)

(* Mutant: every call on a way counts. *)
CalledByAny(w) == {w[i] : i \in 2 .. Len(w)}

CalledBySensitive(w) == {w[i + 1] : i \in {n \in 1 .. Len(w) - 1 : w[n] \in Sensitive}}

(* Mutant: one that is on the list is appended again. *)
NewOrListed ==
    UNION {CalledBySensitive(w) : w \in SimplePaths(sensitive_func_id_list[s], untrusted_func_id_list[u])}

NewUntrusted ==
    (UNION {CalledBySensitive(w) : w \in SimplePaths(sensitive_func_id_list[s], untrusted_func_id_list[u])})
        \ Untrusted

InPairs == /\ parser = "graph" /\ s <= Len(sensitive_func_id_list)
           /\ u <= Len(untrusted_func_id_list)

(* One pair.  In which order the new ones are found depends on the order of the ways. *)
Pair ==
    /\ InPairs
    /\ \E new \in SetToSeqs(NewUntrusted) : untrusted_func_id_list' = untrusted_func_id_list \o new
    /\ u' = u + 1
    /\ UNCHANGED <<input, sensitive_func_id_list, s, idx, j, frames, parser>>

(* Mutant: the inner loop is not started anew. *)
NextSensitiveStale ==
    /\ parser = "graph" /\ s <= Len(sensitive_func_id_list) /\ u > Len(untrusted_func_id_list)
    /\ s' = s + 1
    /\ UNCHANGED <<input, sensitive_func_id_list, untrusted_func_id_list, u, idx, j, frames, parser>>

(* The next sensitive function; the list has its new members from the start. *)
NextSensitive ==
    /\ parser = "graph" /\ s <= Len(sensitive_func_id_list) /\ u > Len(untrusted_func_id_list)
    /\ s' = s + 1 /\ u' = 1
    /\ UNCHANGED <<input, sensitive_func_id_list, untrusted_func_id_list, idx, j, frames, parser>>

GraphDone ==
    /\ parser = "graph" /\ s > Len(sensitive_func_id_list)
    /\ parser' = "scan"
    /\ UNCHANGED <<input, sensitive_func_id_list, untrusted_func_id_list, s, u, idx, j, frames>>
-----------------------------------------------------------------------------
(* The scan compares a line with one sensitive name after the other. *)
Listing == input.listing
HeadOf(f) == [func |-> f, n |-> 0]
InScan  == parser = "scan" /\ idx <= Len(Listing)

Compare ==
    /\ InScan /\ j <= Len(input.sensitive) /\ Listing[idx] # HeadOf(input.sensitive[j])
    /\ j' = j + 1
    /\ UNCHANGED <<input, sensitive_func_id_list, untrusted_func_id_list, s, u, idx, frames, parser>>

(* Mutant: the step over the head is one line short. *)
ShowSecond ==
    /\ InScan /\ j <= Len(input.sensitive) /\ Listing[idx] = HeadOf(input.sensitive[j])
    /\ idx + 3 <= Len(Listing)
    /\ idx' = idx + 2 /\ j' = j + 1
    /\ frames' = Append(frames, <<input.sensitive[j], Listing[idx']>>)
    /\ UNCHANGED <<input, sensitive_func_id_list, untrusted_func_id_list, s, u, parser>>

(* The third line after the head is printed; the names left are compared with that one. *)
ShowThird ==
    /\ InScan /\ j <= Len(input.sensitive) /\ Listing[idx] = HeadOf(input.sensitive[j])
    /\ idx + 3 <= Len(Listing)
    /\ idx' = idx + 3 /\ j' = j + 1
    /\ frames' = Append(frames, <<input.sensitive[j], Listing[idx']>>)
    /\ UNCHANGED <<input, sensitive_func_id_list, untrusted_func_id_list, s, u, parser>>

ShowPastEnd ==
    /\ InScan /\ j <= Len(input.sensitive) /\ Listing[idx] = HeadOf(input.sensitive[j])
    /\ idx + 3 > Len(Listing)
    /\ parser' = "crash"
    /\ UNCHANGED <<input, sensitive_func_id_list, untrusted_func_id_list, s, u, idx, j, frames>>

(* Mutant: the scan stays on its line. *)
NextLineStuck ==
    /\ InScan /\ j > Len(input.sensitive)
    /\ j' = 1
    /\ UNCHANGED <<input, sensitive_func_id_list, untrusted_func_id_list, s, u, idx, frames, parser>>

NextLine ==
    /\ InScan /\ j > Len(input.sensitive)
    /\ idx' = idx + 1 /\ j' = 1
    /\ UNCHANGED <<input, sensitive_func_id_list, untrusted_func_id_list, s, u, frames, parser>>

ScanDone ==
    /\ parser = "scan" /\ idx > Len(Listing)
    /\ parser' = "done"
    /\ UNCHANGED <<input, sensitive_func_id_list, untrusted_func_id_list, s, u, idx, j, frames>>

Next == \/ LookUpSensitive \/ LookUpUntrusted \/ LookedUp
        \/ Pair \/ NextSensitive \/ GraphDone
        \/ Compare \/ ShowThird \/ ShowPastEnd \/ NextLine \/ ScanDone
-----------------------------------------------------------------------------
(* The functions of the graph that were given as untrusted. *)
Given == ToSet(input.untrusted) \cap Nodes

(* Type invariant.  A function that was not given gets on the list once. *)
ParserTypeOK ==
    /\ sensitive_func_id_list \in Seq(Nodes) /\ untrusted_func_id_list \in Seq(Nodes)
    /\ \A m, n \in DOMAIN untrusted_func_id_list :
          m # n /\ untrusted_func_id_list[m] = untrusted_func_id_list[n] =>
              untrusted_func_id_list[m] \in Given
    /\ s \in Nat \ {0} /\ u \in Nat \ {0} /\ idx \in Nat \ {0}
    /\ j \in 1 .. Len(input.sensitive) + 1 /\ frames \in Seq(STRING \X Line)
    /\ parser \in {"names", "graph", "scan", "done", "crash"}

(* Nothing is added without a reason: what the growing list gets is called by a sensitive *)
(* function, and one of the functions that were given as untrusted can be reached from it, *)
(* though it is looked for on ways to functions that were themselves added.               *)
AddedForCause ==
    \A x \in Untrusted \ Given :
        /\ \E y \in Sensitive : <<y, x>> \in input.edges
        /\ \E w \in Ways : w[1] = x /\ w[Len(w)] \in Given

(* Nothing is missed: when the loops are over, the list has every function that a         *)
(* sensitive one calls and that leads to a given untrusted one without coming back,       *)
(* whatever order the lists have and the ways are found in.                               *)
NoneMissed ==
    parser \notin {"names", "graph"} =>
        \A w \in Ways : (Len(w) > 1 /\ w[1] \in Sensitive /\ w[Len(w)] \in Given) => w[2] \in Untrusted

(* If every function of the disassembly has three instructions behind its head, the third *)
(* one of each sensitive function is printed under its name, once and in order, and the    *)
(* scan never leaves the file.                                                             *)
LongEnough ==
    \A n \in DOMAIN Listing :
        /\ Listing[n].n = 0 => /\ n + 3 \in DOMAIN Listing
                               /\ \A k \in 1 .. 3 : Listing[n + k] = [Listing[n] EXCEPT !.n = k]
        /\ Listing[n].n = 3 => n > 3 /\ Listing[n - 3] = HeadOf(Listing[n].func)
ThirdsUpTo(n) == {m \in 1 .. n : /\ m \in DOMAIN Listing /\ Listing[m].n = 3
                                 /\ Listing[m].func \in ToSet(input.sensitive)}
ShownUpTo(n) ==
    /\ Len(frames) = Cardinality(ThirdsUpTo(n))
    /\ \A m \in ThirdsUpTo(n) : frames[Cardinality(ThirdsUpTo(m))] = <<Listing[m].func, Listing[m]>>
ThirdLines ==
    LongEnough => parser # "crash" /\ (parser = "done" => ShownUpTo(Len(Listing)))

(* The list grows while it is gone through, but not for ever; and the scan ends. *)
ParserEnds == <>(parser \in {"done", "crash"})
=============================================================================
