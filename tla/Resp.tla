-------------------------------- MODULE Resp --------------------------------
(***************************************************************************)
(* internal/protocol/resp.go: how a command is found at the front of what   *)
(* a client has sent so far.                                                *)
(*                                                                          *)
(* Data is a sequence of units. A unit is a prefix byte together with the   *)
(* number that follows it, CR LF, or one byte of text; a buffer that ends   *)
(* inside a unit is read as one that ends before it. A "$" length counts    *)
(* units. Numbers stay far from the limits of int.                          *)
(***************************************************************************)
EXTENDS Integers, Sequences

Unit(type, n) == [type |-> type, n |-> n]
Units == [type : STRING, n : Int]
Star(n) == Unit("*", n)
Dollar(n) == Unit("$", n)
Colon(n) == Unit(":", n)
Plus == Unit("+", 0)
Minus == Unit("-", 0)
Digits(n) == Unit("digits", n)
Letter(n) == Unit("letter", n)
EOL == Unit("CRLF", 0)

\* What a function that reads a value returns: the value (or a list of them)
\* and the position after it, or one of two kinds of error.
Ok(value, next) == [status |-> "ok", value |-> value, next |-> next]
ErrIncompleteRESP == [status |-> "incomplete", value |-> <<>>, next |-> 0]
ProtocolError == [status |-> "error", value |-> <<>>, next |-> 0]

\* The Go value: string, int64, nil, RESPError or []interface{}.
Value(type, content) == [type |-> type, content |-> content]
Null == Value("nil", <<>>)

-----------------------------------------------------------------------------
(* Encoding                                                                  *)

EncodeBulkString(value) == <<Dollar(Len(value)), EOL>> \o value \o <<EOL>>

EncodeArrayBulkStrings(values) ==
    LET element[i \in 0 .. Len(values)] ==
            IF i = 0 THEN <<>> ELSE element[i - 1] \o EncodeBulkString(values[i])
    IN <<Star(Len(values)), EOL>> \o element[Len(values)]

-----------------------------------------------------------------------------
(* Decoding                                                                  *)

\* Where the first CR LF at start or later is, 0 if none has come yet.
LineEnd(data, start) ==
    LET ends == {i \in start .. Len(data) : data[i] = EOL}
    IN IF ends = {} THEN 0 ELSE CHOOSE i \in ends : \A j \in ends : i <= j

readSimpleString(data, p, type) ==
    LET end == LineEnd(data, p + 1) IN
    IF end = 0 THEN ErrIncompleteRESP
               ELSE Ok(Value(type, SubSeq(data, p + 1, end - 1)), end + 1)

\* readInteger and readLengthLine: a number, if the whole line is one.
readNumber(data, p) ==
    LET end == LineEnd(data, p + 1) IN
    IF end = 0 THEN ErrIncompleteRESP
    ELSE IF end > p + 1 THEN ProtocolError
    ELSE Ok(Value("int64", data[p].n), end + 1)

\* Faulty: a payload that has not all come is taken as far as it has.
readBulkArrived(data, p) ==
    LET end == p + 2 + data[p].n IN
    IF readNumber(data, p).status # "ok" THEN readNumber(data, p)
    ELSE IF data[p].n = -1 THEN Ok(Null, p + 2)
    ELSE IF data[p].n < -1 THEN ProtocolError
    ELSE IF end > Len(data)
    THEN Ok(Value("string", SubSeq(data, p + 2, Len(data))), Len(data) + 1)
    ELSE Ok(Value("string", SubSeq(data, p + 2, end - 1)), end + 1)
readBulkString(data, p) ==
    LET length == data[p].n
        end == p + 2 + length    \* where the payload's CR LF belongs
    IN IF readNumber(data, p).status # "ok" THEN readNumber(data, p)
       ELSE IF length = -1 THEN Ok(Null, p + 2)
       ELSE IF length < -1 THEN ProtocolError
       ELSE IF end > Len(data) THEN ErrIncompleteRESP
       ELSE IF data[end] # EOL THEN ProtocolError
       ELSE Ok(Value("string", SubSeq(data, p + 2, end - 1)), end + 1)

\* Faulty: an array whose elements have not all come is refused.
readArrayWhole(data, p, elements) ==
    IF readNumber(data, p).status # "ok" THEN readNumber(data, p)
    ELSE IF data[p].n = -1 THEN Ok(Null, p + 2)
    ELSE IF data[p].n < -1 \/ elements.status # "ok" THEN ProtocolError
    ELSE Ok(Value("array", elements.value), elements.next)
\* elements is the result of reading as many values as the length says.
readArray(data, p, elements) ==
    IF readNumber(data, p).status # "ok" THEN readNumber(data, p)
    ELSE IF data[p].n = -1 THEN Ok(Null, p + 2)
    ELSE IF data[p].n < -1 THEN ProtocolError
    ELSE IF elements.status # "ok" THEN elements
    ELSE Ok(Value("array", elements.value), elements.next)

\* One value, its elements among those that can be read further on.
readValue(data, p, values) ==
    LET type == data[p].type IN
    IF p > Len(data) THEN ErrIncompleteRESP
    ELSE CASE type = "+" -> readSimpleString(data, p, "string")
           [] type = "-" -> readSimpleString(data, p, "RESPError")
           [] type = ":" -> readNumber(data, p)
           [] type = "$" -> readBulkString(data, p)
           [] type = "*" -> readArray(data, p, values[p + 2][data[p].n])
           [] OTHER -> ProtocolError

\* One value and then k - 1 more, from where it ends: the first that cannot be
\* read decides.
Followed(one, values, k) ==
    LET rest == values[one.next][k - 1] IN
    IF one.status # "ok" THEN one
    ELSE IF rest.status # "ok" THEN rest
    ELSE Ok(<<one.value>> \o rest.value, rest.next)

\* From each position, for each k, the k values that start there.
Decode(data) ==
    LET values[p \in Nat \ {0}] ==
            [k \in Nat |-> IF k = 0 THEN Ok(<<>>, p)
                            ELSE Followed(readValue(data, p, values), values, k)]
    IN values

First(result) == IF result.status = "ok" THEN Ok(result.value[1], result.next) ELSE result

DecodeOne(data) == First(Decode(data)[1][1])

IsToken(value, allowInt) == value.type = "string" \/ (allowInt /\ value.type = "int64")

tokenToString(value) ==
    IF value.type = "int64" THEN <<Digits(value.content)>> ELSE value.content

\* The command's name and arguments as one sequence of strings, if the value
\* is an array of such.
Command(one) ==
    LET tokens == one.value.content IN
    IF one.status # "ok" THEN one
    ELSE IF \/ one.value.type # "array"
            \/ tokens = <<>>
            \/ \E i \in DOMAIN tokens : ~ IsToken(tokens[i], i > 1)
    THEN ProtocolError
    ELSE Ok([i \in DOMAIN tokens |-> tokenToString(tokens[i])], one.next)

ParseCommand(data) == Command(DecodeOne(data))

\* Without RESP a request is a line. The model has no LF without a CR.
ReadRequest(data) ==
    LET end == LineEnd(data, 1) IN
    IF end = 0 THEN ErrIncompleteRESP ELSE Ok(SubSeq(data, 1, end - 1), end + 1)
=============================================================================
