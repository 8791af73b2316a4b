----------------------------- MODULE MCEventLoop ----------------------------
(* Three clients for two connections. With RESP, c1 sends a line break inside *)
(* a bulk string, c2 tokens of other types and then a request that is none.   *)
(* Sends end in the middle of a frame, at its end and between two.            *)
EXTENDS EventLoop, TLC

CONSTANTS c1, c2, c3

MCFrames ==
    LET a == <<Letter(1)>>
        b == <<Letter(1), EOL>>
        Bulks(command) == Request(EncodeArrayBulkStrings(command), command)
        Line(command) == Request(Append(command, EOL), command)
    IN [resp |->
          c1 :> <<Bulks(<<b>>), Bulks(<<a>>)>> @@
          c2 :> <<Request(<<Star(2), EOL, Plus, Letter(1), EOL, Colon(5), EOL>>,
                          <<a, <<Digits(5)>>>>),
                  Malformed(<<Star(1), EOL, Dollar(-1), EOL>>)>> @@
          c3 :> <<Bulks(<<a>>)>>,
        line |->
          c1 :> <<Line(a), Line(<<>>)>> @@ c2 :> <<Line(a)>> @@ c3 :> <<Line(a)>>]

MCCuts ==
    [resp |-> c1 :> {5, 13} @@ c2 :> {11} @@ c3 :> {6},
     line |-> c1 :> {1, 3} @@ c2 :> {2} @@ c3 :> {2}]
=============================================================================
