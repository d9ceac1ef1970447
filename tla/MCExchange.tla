----------------------------- MODULE MCExchange -----------------------------
(***************************************************************************)
(* Cases for Exchange: responses with a Content-Length or in chunks, with  *)
(* other headers before, and improper ones; servers; and images.           *)
(***************************************************************************)
EXTENDS Exchange

Byte(class) == [is |-> class, digit |-> 0, text |-> ""]
Digit(n) == [is |-> "digit", digit |-> n, text |-> ""]
Hex(n) == [is |-> "hex", digit |-> n, text |-> ""]
Word(class, text) == [is |-> class, digit |-> 0, text |-> text]

Line == <<Byte("cr"), Byte("lf")>>

StatusLineOf(status) ==
  <<Byte("version"), Digit(status \div 100), Digit(0), Digit(0), Byte("sp"),
    Byte("alpha")>> \o Line

\* A line: its bytes, how far into it the colon is, and the name it spells.
\* That has two parts.
Header(first, second, value) ==
  [bytes |-> <<Word("name", first), Word("alpha", second), Byte("colon"), Byte("sp")>>
               \o value \o Line,
   colon |-> 3, name |-> <<first, second>>]

\* The line before goes on.
More(first, second, value) ==
  [bytes |-> value \o Line, colon |-> 0, name |-> <<first, second>>]

\* No other header, one with bytes above 127, one that goes on in a second
\* line, and in a third.
Others == {
  <<>>,
  <<Header("Set-", "Cookie", <<Byte("high"), Byte("sp"), Byte("semicolon")>>)>>,
  <<Header("Keep-", "Alive", <<Byte("alpha")>>),
    More("Keep-", "Alive", <<Byte("tab"), Byte("sp"), Digit(7)>>),
    More("Keep-", "Alive", <<Byte("sp")>>)>>}

\* Content may have anything in it, the ends of lines too.
Contents == {<<>>, <<Byte("alpha")>>, <<Byte("cr"), Byte("lf")>>,
             <<Byte("lf"), Byte("high"), Digit(0)>>}

\* Where each of these lines is if the first is at n, and where the next is.
LineAt(lines, n, k) == n + FoldLeft(LAMBDA m, l : m + Len(l.bytes), 0, SubSeq(lines, 1, k - 1))
AfterAll(lines, n) == LineAt(lines, n, Len(lines) + 1)

Text(lines) == FoldLeft(LAMBDA s, l : s \o l.bytes, <<>>, lines)

Response(status, headers, content, body) ==
  LET at == Len(StatusLineOf(status)) + 1
      bytes == StatusLineOf(status) \o Text(headers) \o Line \o body
  IN  [proper |-> TRUE, status |-> status, content |-> content,
       bytes |-> bytes, size |-> Len(bytes),
       headers |-> [k \in DOMAIN headers |->
                      [at |-> LineAt(headers, at, k), name |-> headers[k].name,
                       colon |-> IF headers[k].colon = 0 THEN 0
                                 ELSE LineAt(headers, at, k) + headers[k].colon - 1]],
       blank |-> AfterAll(headers, at), chunks |-> <<>>, trailers |-> <<>>]

\* A length may have spaces and zeros before it, and a sign, as atoi takes it.
Length(n) == Header("Content-", "Length", <<Byte("sp"), Digit(0), Digit(n)>>)
SignedLength(sign, n) ==
  Header("Content-", "Length", <<Byte("sp"), Word("name", sign), Digit(n)>>)

Sized(status, others, content) ==
  Response(status, Append(others, Length(Len(content))), content, content)

\* An extension of a chunk with a value, one without, and none.
Extensions == {<<>>, <<Byte("semicolon"), Byte("sp"), Byte("alpha")>>,
               <<Byte("semicolon"), Byte("hex"), Byte("equals"), Digit(1)>>}

Trailers == {
  <<>>,
  <<[bytes |-> <<Byte("alpha"), Digit(2), Byte("colon"), Byte("sp"), Byte("hex")>> \o Line,
     colon |-> 3],
    [bytes |-> <<Byte("hex"), Byte("colon")>> \o Line, colon |-> 2]>>}

\* A size in digits of base 16.
Chunk(extension, content, from) ==
  [bytes |-> <<Digit(0), IF Len(content) < 10 THEN Digit(Len(content)) ELSE Hex(Len(content))>> \o extension \o Line
               \o (IF content = <<>> THEN <<>> ELSE content \o Line),
   ext |-> 2, end |-> 2 + Len(extension), from |-> from]

\* The content in one chunk for each byte, or two for three and more, and the
\* last chunk.
Chunks(extension, content) ==
  LET n == Len(content)
      none == Chunk(<<>>, <<>>, n)
  IN  CASE n = 0 -> <<none>>
        [] n = 1 -> <<Chunk(extension, content, 0), none>>
        [] OTHER -> <<Chunk(extension, SubSeq(content, 1, n - 1), 0),
                      Chunk(<<>>, SubSeq(content, n, n), n - 1), none>>

Chunked(status, others, extension, trailers, content) ==
  LET headers == Append(others, Header("Transfer-", "Encoding", <<Word("alpha", "chunked")>>))
      chunks == Chunks(extension, content)
      r == Response(status, headers, content, Text(chunks) \o Text(trailers) \o Line)
      at == r.blank + 2
  IN  [r EXCEPT
         !.chunks = [k \in DOMAIN chunks |->
                       [at |-> LineAt(chunks, at, k), from |-> chunks[k].from,
                        ext |-> LineAt(chunks, at, k) + chunks[k].ext,
                        end |-> LineAt(chunks, at, k) + chunks[k].end]],
         !.trailers = [k \in DOMAIN trailers |->
                         [at |-> LineAt(trailers, AfterAll(chunks, at), k),
                          colon |-> LineAt(trailers, AfterAll(chunks, at), k)
                                      + trailers[k].colon - 1]]]

\* A chunk of it has ten bytes.
Long == [n \in 1 .. 11 |-> IF n > 9 THEN Byte("lf") ELSE Digit(n)]

\* A length in a response in chunks does not count.
WellFormed ==
  {Sized(status, others, content) :
     status \in {200, 500}, others \in Others, content \in Contents}
    \union {Chunked(200, <<>>, extension, trailers, content) :
              extension \in Extensions, trailers \in Trailers, content \in Contents}
    \union {Chunked(200, <<Length(7)>>, <<>>, <<>>, Long),
            Response(200, <<SignedLength("+", 1)>>, <<Byte("alpha")>>, <<Byte("alpha")>>)}

Small == Sized(200, <<>>, <<Byte("alpha")>>)
Empty == Sized(200, <<>>, <<>>)
InOneChunk == Chunked(200, <<>>, <<>>, <<>>, <<Byte("alpha")>>)

\* The response with its byte n replaced.
Spoilt(r, n, byte) ==
  [r EXCEPT !.proper = FALSE, !.bytes = ReplaceAt(r.bytes, n, byte)]

\* Responses with a byte that must not be there: in the status line, in a
\* header, at the end of the headers or of the chunks, behind a chunk size.
Malformed ==
  {Spoilt(Small, 6, Byte("high")), Spoilt(Small, 10, Byte("control")),
   Spoilt(Small, 13, Byte("control")),
   Spoilt(Empty, Len(Empty.bytes), Byte("alpha")),
   Spoilt(InOneChunk, Len(InOneChunk.bytes), Byte("alpha")),
   Spoilt(InOneChunk, Len(InOneChunk.bytes) - 2, Byte("alpha"))}

\* More bytes behind the end of the response.
TooLong == {[r EXCEPT !.bytes = @ \o Line] : r \in {Small, Empty, InOneChunk}}

\* A length below zero, which the parser cannot reserve.
Negative == [Response(200, <<SignedLength("-", 1)>>, <<>>, <<Byte("alpha")>>)
               EXCEPT !.proper = FALSE]

AllResponses == WellFormed \union Malformed \union TooLong \union {Negative}

\* Not a response at all.
Nonsense == [NoResponse EXCEPT !.bytes = <<Byte("control")>>, !.size = 1]

-----------------------------------------------------------------------------

\* Three sections, of which two lie side by side in memory but not in the file.
Sections == <<[va |-> 16, size |-> 4, raw |-> 4], [va |-> 20, size |-> 4, raw |-> 12],
              [va |-> 28, size |-> 4, raw |-> 8]>>

Own == [name |-> "own.pdb", guid |-> "1234", age |-> 1]
Other == [name |-> "other.pdb", guid |-> "5678", age |-> 2]

\* An image whose debug directory is at the n-th byte of section k. What is
\* elsewhere looks like the debug directory of another.
Image(machine, k, n) ==
  [machine |-> machine, sections |-> Sections, debug |-> Sections[k].va + n,
   entries |-> [place \in 0 .. 15 |-> IF place = Sections[k].raw + n THEN 20 ELSE 21],
   infos |-> [place \in 20 .. 21 |-> IF place = 20 THEN Own ELSE Other],
   pdb |-> Own, proper |-> TRUE]

\* It has no debug directory.
Stripped == [Image("AMD64", 1, 0) EXCEPT !.debug = 0, !.proper = FALSE]

Images == {Image(machine, k, n) : machine \in {"I386", "AMD64"}, k \in 1 .. 3, n \in {0, 3}}
            \union {Image("ARM64", 1, 0), Stripped}

-----------------------------------------------------------------------------

Http == <<"h", "t", "t", "p">>
Host == Http \o <<":", "/", "/", "h">>

Strings(chars, n) == UNION {[1 .. m -> chars] : m \in 0 .. n}

\* What may follow http://, and what may follow the scheme.
Servers ==
  {Http \o <<":", "/", "/">> \o str :
     str \in Strings({"a", "1", ":", "/", "@", "[", "?"}, 4)
           \union {<<"a", "@", "a", ":", "1">>, <<"a", ":", "a", "@", "a">>,
                  <<"a", ":", "1", "a", "@", "a", ":", "1">>}}
    \union {scheme \o str : scheme \in {<<>>, Http, <<"h", "a">>},
                            str \in Strings({"a", ":", "/", "*"}, 3)}

Case(server, image, answers) == [server |-> server, image |-> image, answers |-> answers]

Exchanges == {Case(Host, Image("AMD64", 1, 0), AllResponses)}

AllCases ==
  Exchanges
    \union {Case(Host, image, {Nonsense}) : image \in Images}
    \union {Case(server, Image("AMD64", 2, 0), {Nonsense}) : server \in Servers}

MalformedCases == {Case(Host, Image("AMD64", 1, 0), Malformed)}

\* khttp.cpp says "Failed to parse response" if the parser fails. What it looks
\* at is what parse() returned for the last piece: a failure before is lost.
RefusesMalformed == response \in Malformed => reply.is # "answer"
=============================================================================
