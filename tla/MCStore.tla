------------------------------ MODULE MCStore ------------------------------
(* Constants of the TLC runs of Store: lengths of names and values, and the   *)
(* printed form of small integers.                                            *)
EXTENDS StoreProperties, TLC

CONSTANTS Ka, Kb

\* Two keys of different length.
MCKeyLen == Ka :> 1 @@ Kb :> 2
MCKeyLenOne == Ka :> 1

\* A machine word of one value and its wrap-around: MaxInt = 0.
MCStrings == {"0", "-1"}
MCStrLen == "0" :> 1 @@ "-1" :> 2
MCParseInt == "0" :> 0 @@ "-1" :> -1
MCFormatInt == 0 :> "0" @@ -1 :> "-1"

\* Members of different lengths.
MCMembers == {"m", "mm"}
MCMemberLen == "m" :> 1 @@ "mm" :> 2
MCMemberLenOne == "m" :> 2
MCNoLens == [m \in {} |-> 0]

\* Argument lists of DEL and EXISTS: both keys, and one key twice.
MCKeyLists == {<<Ka, Kb>>, <<Ka, Ka>>}
MCKeyListsOne == {<<Ka>>, <<Ka, Ka>>}

MCTTLsNeg == {-1, 1}
MCTTLsShort == {0, 1}
MCTTLsOne == {1}

\* The clients are interchangeable: no definition tells one from another.
MCSymmetry == Permutations(Clients)
=============================================================================
