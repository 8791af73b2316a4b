---------------------------- MODULE MCContainers ----------------------------
(* Constants of the TLC run of Containers: item x and item y meet in the      *)
(* first column and part in the second; all bits of y in a filter of three    *)
(* are bits of x.                                                            *)
EXTENDS Containers, TLC

CONSTANTS Ka, Kb

MCKeyLen == Ka :> 1 @@ Kb :> 1

\* Two strings, which a machine word of one value and its wrap-around prints.
MCStrings == {"0", "-1"}
MCStrLen == "0" :> 1 @@ "-1" :> 2
MCParseInt == "0" :> 0 @@ "-1" :> -1
MCFormatInt == 0 :> "0" @@ -1 :> "-1"
MCMemberLen == [m \in Members |-> m]

MCHash == "x" :> <<0, 1, 0, 0>> @@ "y" :> <<0, 0, 3, 0>>
MCHashOf == [i \in {"x", "y"} |-> [row \in 0 .. 3 |-> MCHash[i][row + 1]]]

Dim(w, d) == [width |-> w, depth |-> d]
Inc(i, v) == [item |-> i, value |-> v]
Src(k, w) == [key |-> k, weight |-> w]

MCDims == {Dim(2, 2), Dim(1, 2), Dim(2, 4), Dim(3, 3)}
MCIncrements == {<<Inc("x", 2)>>, <<Inc("y", 1), Inc("x", 1)>>}
MCSources == {<<Src(Ka, 2)>>, <<Src(Ka, 1), Src(Kb, 1)>>}
MCScoreLists == {2 :> 1, 1 :> 1 @@ 2 :> 2}
MCDefaultSize == [bits |-> 3, hashes |-> 2]
MCSizes == {[bits |-> 65, hashes |-> 1]}
MCItemLists == {<<"x">>, <<"y", "x">>}
=============================================================================
