--------------------------- MODULE ResponseParser ---------------------------
(***************************************************************************)
(* The HTTP response parser of the driver client. It is given the bytes of *)
(* a response in pieces, as they arrive, and keeps what it needs between   *)
(* them. One action is one turn of the loop in consume().                  *)
(*                                                                         *)
(* A byte is [is, digit, text]: its class, its value if it is a digit (hex *)
(* are the letters that are a digit of base 16), and for letters what they *)
(* spell. Bytes that the parser takes in a row without looking at them one *)
(* by one count as one: the protocol version with the space behind it, and *)
(* parts of words.                                                         *)
(***************************************************************************)
EXTENDS Integers, SequencesExt

VARIABLES
  parser,       \* the members of the parser, and what it has put into resp
  buf,          \* the bytes from begin to end of the call of parse()
  outcome       \* what the last call has returned, or "parsing" within one

parserVars == <<parser, buf, outcome>>

Results == {"ParsingCompleted", "ParsingIncompleted", "ParsingError"}

Control == {"cr", "lf", "tab", "control"}
Alpha == {"alpha", "hex"}
Alnum == Alpha \union {"digit"}
InName == Alnum \union {"name"}
Printable == InName \union {"version", "colon", "semicolon", "equals", "sp"}

\* Of the characters, as opposed to bytes above 127.
Chars == Printable \union Control
Classes == Chars \union {"high"}

Bytes == {b \in [is : Classes, digit : 0 .. 15, text : STRING] :
            b.is = "digit" => b.digit <= 9}

\* Classes that a state accepts, with the state each leads to, for the states
\* where no more than the class decides. Any other class is an error.
StatusMoves == [
  StatusStart            |-> {<<{"version"}, "StatusCodeStart">>},
  StatusCodeStart        |-> {<<{"digit"}, "StatusCode">>},
  StatusCode             |-> {<<{"digit"}, "StatusCode">>,
                              <<{"sp"}, "StatusTextStart">>},
  StatusTextStart        |-> {<<Chars, "StatusText">>},
  StatusText             |-> {<<{"cr"}, "NewLine">>,
                              <<Chars \ {"cr"}, "StatusText">>},
  NewLine                |-> {<<{"lf"}, "HeaderLineStart">>}]

HeaderMoves == [
  HeaderLineStart        |-> {<<{"cr"}, "ExpectingNewline_3">>,
                              <<{"sp", "tab"}, "HeaderLws">>,
                              <<InName, "HeaderName">>},
  HeaderLws              |-> {<<{"cr"}, "ExpectingNewline_2">>,
                              <<{"sp", "tab"}, "HeaderLws">>,
                              <<(Classes \ Control) \ {"sp"}, "HeaderValue">>},
  HeaderName             |-> {<<{"colon"}, "SpaceBeforeHeaderValue">>,
                              <<InName, "HeaderName">>},
  SpaceBeforeHeaderValue |-> {<<{"sp"}, "HeaderValue">>},
  HeaderValue            |-> {<<{"cr"}, "ExpectingNewline_2">>,
                              <<Classes \ Control, "HeaderValue">>},
  ExpectingNewline_2     |-> {<<{"lf"}, "HeaderLineStart">>}]

ChunkMoves == [
  ChunkSize              |-> {<<Alnum, "ChunkSize">>,
                              <<{"semicolon"}, "ChunkExtensionName">>,
                              <<{"cr"}, "ChunkSizeNewLine">>},
  ChunkExtensionName     |-> {<<Alnum \union {"sp"}, "ChunkExtensionName">>,
                              <<{"equals"}, "ChunkExtensionValue">>,
                              <<{"cr"}, "ChunkSizeNewLine">>},
  ChunkExtensionValue    |-> {<<Alnum \union {"sp"}, "ChunkExtensionValue">>,
                              <<{"cr"}, "ChunkSizeNewLine">>},
  ChunkSizeNewLine_2     |-> {<<{"cr"}, "ChunkSizeNewLine_3">>,
                              <<Alpha, "ChunkTrailerName">>},
  ChunkTrailerName       |-> {<<Alnum, "ChunkTrailerName">>,
                              <<{"colon"}, "ChunkTrailerValue">>},
  ChunkTrailerValue      |-> {<<Alnum \union {"sp"}, "ChunkTrailerValue">>,
                              <<{"cr"}, "ChunkSizeNewLine">>},
  ChunkDataNewLine_1     |-> {<<{"cr"}, "ChunkDataNewLine_2">>},
  ChunkDataNewLine_2     |-> {<<{"lf"}, "ChunkSize">>}]

Moves ==
  [state \in DOMAIN StatusMoves \union DOMAIN HeaderMoves \union DOMAIN ChunkMoves |->
     CASE state \in DOMAIN StatusMoves -> StatusMoves[state]
       [] state \in DOMAIN HeaderMoves -> HeaderMoves[state]
       [] OTHER                        -> ChunkMoves[state]]

\* States where a size decides, or that end the response.
Counting == {"ExpectingNewline_3", "Post", "ChunkSizeNewLine",
             "ChunkSizeNewLine_3", "ChunkData"}

NewParser == [state |-> "StatusStart", status |-> 0, name |-> <<>>,
              value |-> <<>>, chunked |-> FALSE, contentSize |-> 0,
              chunkSizeStr |-> <<>>, chunkSize |-> 0, content |-> <<>>]

DigitsOf(base) == IF base = 16 THEN {"digit", "hex"} ELSE {"digit"}

\* strtol, of a string without spaces and sign: the digits at the beginning.
Number(base, str) ==
  LET to == SelectInSeq(str, LAMBDA b : b.is \notin DigitsOf(base))
      digits == IF to = 0 THEN str ELSE SubSeq(str, 1, to - 1)
      value[n \in 0 .. Len(digits)] ==
        IF n = 0 THEN 0 ELSE base * value[n - 1] + digits[n].digit
  IN  value[Len(digits)]

\* atoi: a number behind spaces and a sign.
Atoi(str) ==
  LET from == SelectInSeq(str, LAMBDA b : b.is # "sp")
      rest == IF from = 0 THEN <<>> ELSE SubSeq(str, from, Len(str))
      sign == IF rest = <<>> THEN "" ELSE Head(rest).text
  IN  CASE sign = "-" -> -Number(10, Tail(rest))
        [] sign = "+" -> Number(10, Tail(rest))
        [] OTHER      -> Number(10, rest)

Spell(str) == [n \in DOMAIN str |-> str[n].text]

ContentLength == <<"Content-", "Length">>
TransferEncoding == <<"Transfer-", "Encoding">>

\* The end of a header: the two that the parser looks at.
TakeHeader(p) ==
  CASE Spell(p.name) = ContentLength ->
         [p EXCEPT !.contentSize = Atoi(p.value)]
    [] Spell(p.name) = TransferEncoding /\ Spell(p.value) = <<"chunked">> ->
         [p EXCEPT !.chunked = TRUE]
    [] OTHER -> p

\* What the parser notes down when byte b takes it to state next. HeaderLws
\* continues the value of the header before.
Note(p, b, next) ==
  CASE p.state \in {"StatusCodeStart", "StatusCode"} /\ next = "StatusCode" ->
         [p EXCEPT !.status = 10 * @ + b.digit]
    [] p.state = "HeaderLineStart" /\ next = "HeaderName" ->
         [p EXCEPT !.name = <<b>>, !.value = <<>>]
    [] p.state = "HeaderName" /\ next = "HeaderName" ->
         [p EXCEPT !.name = Append(@, b)]
    [] p.state \in {"HeaderLws", "HeaderValue"} /\ next = "HeaderValue" ->
         [p EXCEPT !.value = Append(@, b)]
    [] p.state = "HeaderValue" /\ next = "ExpectingNewline_2" -> TakeHeader(p)
    [] p.state = "ChunkSize" /\ next = "ChunkSize" ->
         [p EXCEPT !.chunkSizeStr = Append(@, b)]
    [] OTHER -> p

\* Before the first header there is none to continue, and a status code has
\* three digits.
Allowed(next) ==
  /\ next = "HeaderLws" => parser.name # <<>>
  /\ next = "StatusTextStart" => parser.status \in 100 .. 999

ParserInit ==
  /\ parser = NewParser
  /\ buf = <<>>
  /\ outcome = "ParsingError"

InState(states) ==
  outcome = "parsing" /\ buf # <<>> /\ parser.state \in states

\* The states that this byte leads to: one, or none if it is an error.
NextStates ==
  {next \in {m[2] : m \in {x \in Moves[parser.state] : Head(buf).is \in x[1]}} :
     Allowed(next)}

\* The loop goes on with parser p.
GoOn(p) == parser' = p /\ buf' = Tail(buf) /\ UNCHANGED outcome

\* parse() returns with parser p; the rest of the piece is not looked at.
Return(p, r) == parser' = p /\ buf' = <<>> /\ outcome' = r

\* Here the parser reserves memory for the content, which may fail.
Reserves ==
  \/ /\ InState({"HeaderValue"}) /\ Head(buf).is = "cr"
     /\ Spell(parser.name) = ContentLength
  \/ InState({"ChunkSizeNewLine"}) /\ Head(buf).is = "lf"

\* A negative length, as a size_t, is more than can be reserved.
NegativeLength == Reserves /\ parser.state = "HeaderValue" /\ Atoi(parser.value) < 0

Scan ==
  /\ InState(DOMAIN Moves)
  /\ ~NegativeLength
  /\ \E next \in NextStates :
       GoOn([Note(parser, Head(buf), next) EXCEPT !.state = next])

Fail ==
  /\ \/ InState(DOMAIN Moves) /\ NextStates = {}
     \/ /\ InState({"ExpectingNewline_3"})
        /\ ~parser.chunked /\ parser.contentSize = 0 /\ Head(buf).is # "lf"
     \/ InState({"ChunkSizeNewLine", "ChunkSizeNewLine_3"}) /\ Head(buf).is # "lf"
  /\ Return(parser, "ParsingError")

\* The end of the headers. Whether the byte is a newline is asked only if
\* nothing follows.
EndOfHeaders ==
  /\ InState({"ExpectingNewline_3"})
  /\ \/ parser.chunked /\ GoOn([parser EXCEPT !.state = "ChunkSize"])
     \/ /\ ~parser.chunked /\ parser.contentSize # 0
        /\ GoOn([parser EXCEPT !.state = "Post"])
     \/ /\ ~parser.chunked /\ parser.contentSize = 0 /\ Head(buf).is = "lf"
        /\ Return(parser, "ParsingCompleted")

\* A byte behind the end of the content, in a piece of its own, makes
\* contentSize wrap around. It is below zero here, and as far from zero.
Post ==
  /\ InState({"Post"})
  /\ LET p == [parser EXCEPT !.contentSize = @ - 1,
                             !.content = Append(@, Head(buf))]
     IN  IF p.contentSize = 0 THEN Return(p, "ParsingCompleted") ELSE GoOn(p)

\* Mutant of ChunkSizeNewLine: chunkSizeStr.clear() is missing.
ChunkSizeNewLineKeeps ==
  /\ InState({"ChunkSizeNewLine"})
  /\ Head(buf).is = "lf"
  /\ LET size == Number(16, parser.chunkSizeStr)
     IN  GoOn([parser EXCEPT
                 !.chunkSize = size,
                 !.state = IF size = 0 THEN "ChunkSizeNewLine_2" ELSE "ChunkData"])

\* After a trailer chunkSizeStr is empty, which is the size zero.
ChunkSizeNewLine ==
  /\ InState({"ChunkSizeNewLine"})
  /\ Head(buf).is = "lf"
  /\ LET size == Number(16, parser.chunkSizeStr)
     IN  GoOn([parser EXCEPT
                 !.chunkSize = size, !.chunkSizeStr = <<>>,
                 !.state = IF size = 0 THEN "ChunkSizeNewLine_2" ELSE "ChunkData"])

\* Mutant of ChunkData: chunkSize-- == 0.
ChunkDataDecrementsLate ==
  /\ InState({"ChunkData"})
  /\ LET left == parser.chunkSize - 1
     IN  GoOn([parser EXCEPT
                 !.chunkSize = left, !.content = Append(@, Head(buf)),
                 !.state = IF left = -1 THEN "ChunkDataNewLine_1" ELSE @])

ChunkData ==
  /\ InState({"ChunkData"})
  /\ LET left == parser.chunkSize - 1
     IN  GoOn([parser EXCEPT
                 !.chunkSize = left, !.content = Append(@, Head(buf)),
                 !.state = IF left = 0 THEN "ChunkDataNewLine_1" ELSE @])

EndOfChunks ==
  /\ InState({"ChunkSizeNewLine_3"})
  /\ Head(buf).is = "lf"
  /\ Return(parser, "ParsingCompleted")

EndOfPiece ==
  /\ outcome = "parsing"
  /\ buf = <<>>
  /\ Return(parser, "ParsingIncompleted")

ParserNext ==
  \/ Scan \/ Fail \/ EndOfHeaders \/ Post \/ ChunkSizeNewLine \/ ChunkData
  \/ EndOfChunks \/ EndOfPiece
=============================================================================
