---------------------------- MODULE HttpResponse ----------------------------
(***************************************************************************)
(* What a response of HTTP is, as far as the parser is meant for it. It    *)
(* says where in the bytes its parts are, so that they can be named:       *)
(*   bytes      what the server sends, with what may follow the response   *)
(*   size       the length of the response                                 *)
(*   status     the status code                                            *)
(*   content    the content                                                *)
(*   headers    the lines of the headers: [at, colon, name], where a line  *)
(*              begins, where its colon is, or 0 if it continues the       *)
(*              header before, and the name that its header spells         *)
(*   blank      where the line end that ends the headers is                *)
(*   chunks     for a response in chunks, [at, ext, end, from]: where each *)
(*              begins, where the digits of its size end, where that line  *)
(*              ends, and how much of the content is before it. The last   *)
(*              one is empty. <<>> if the content comes in one piece       *)
(*   trailers   the lines behind the chunks: [at, colon]                   *)
(*   proper     whether it is all this                                     *)
(***************************************************************************)
EXTENDS ResponseParser

\* All bytes from one place to another are of these classes.
Are(r, from, to, classes) == \A n \in from .. to : r.bytes[n].is \in classes

\* The end of a line, a carriage return and a newline, is at n.
LineEnd(r, n) == r.bytes[n].is = "cr" /\ r.bytes[n + 1].is = "lf"

\* Where line k of these ends, if what follows the last is at next.
EndOf(lines, next, k) == (IF k = Len(lines) THEN next ELSE lines[k + 1].at) - 2

HeaderEnd(r, k) == EndOf(r.headers, r.blank, k)
TrailerEnd(r, k) == EndOf(r.trailers, r.size - 1, k)

\* Where the headers, the content and the trailers begin.
HeadersAt(r) == HeaderEnd(r, 0) + 2
BodyAt(r) == r.blank + 2
TrailersAt(r) == TrailerEnd(r, 0) + 2

StatusLine(r) ==
  /\ HeadersAt(r) > 8
  /\ Are(r, 1, 1, {"version"}) /\ Are(r, 2, 4, {"digit"}) /\ Are(r, 5, 5, {"sp"})
  /\ Are(r, 6, HeadersAt(r) - 3, Printable \union {"tab"})
  /\ LineEnd(r, HeadersAt(r) - 2)
  /\ r.status = 100 * r.bytes[2].digit + 10 * r.bytes[3].digit + r.bytes[4].digit
  /\ r.status >= 100

Looked == {ContentLength, TransferEncoding}

\* A name, a colon, a space and a value.
NewHeader(r, k) ==
  LET line == r.headers[k]
      end == HeaderEnd(r, k)
  IN  /\ line.at < line.colon /\ line.colon + 2 <= end
      /\ Are(r, line.at, line.colon - 1, InName)
      /\ line.name = Spell(SubSeq(r.bytes, line.at, line.colon - 1))
      /\ Are(r, line.colon, line.colon, {"colon"})
      /\ Are(r, line.colon + 1, line.colon + 1, {"sp"})
      /\ Are(r, line.colon + 2, end - 1, Classes \ Control)

\* Spaces or tabs, and more of the value, for a header that is not looked at.
Continued(r, k) ==
  LET line == r.headers[k]
      end == HeaderEnd(r, k)
  IN  /\ k > 1 /\ line.colon = 0
      /\ line.name = r.headers[k - 1].name /\ line.name \notin Looked
      /\ line.at < end
      /\ Are(r, line.at, line.at, {"sp", "tab"})
      /\ Are(r, line.at, end - 1, (Classes \ Control) \union {"tab"})
      /\ \A n \in line.at .. end - 1 :
           r.bytes[n].is = "tab" => Are(r, line.at, n, {"sp", "tab"})

Headers(r) ==
  \A k \in DOMAIN r.headers :
    /\ NewHeader(r, k) \/ Continued(r, k)
    /\ LineEnd(r, HeaderEnd(r, k)) /\ HeaderEnd(r, k) < r.blank

Value(r, k) == SubSeq(r.bytes, r.headers[k].colon + 2, HeaderEnd(r, k) - 1)

SaysLength(r, k) == r.headers[k].name = ContentLength
SaysChunked(r, k) ==
  r.headers[k].name = TransferEncoding /\ Spell(Value(r, k)) = <<"chunked">>

\* The content in one piece, whose length is given once or more.
InOnePiece(r) ==
  /\ r.chunks = <<>> /\ r.trailers = <<>>
  /\ \A k \in DOMAIN r.headers : ~SaysChunked(r, k)
  /\ \E k \in DOMAIN r.headers : SaysLength(r, k)
  /\ \A k \in DOMAIN r.headers :
       SaysLength(r, k) => Atoi(Value(r, k)) = Len(r.content)
  /\ r.size = r.blank + 1 + Len(r.content)
  /\ r.content = SubSeq(r.bytes, BodyAt(r), r.size)

\* How much of the content is in chunk k.
ChunkLen(r, k) ==
  (IF k = Len(r.chunks) THEN Len(r.content) ELSE r.chunks[k + 1].from) - r.chunks[k].from

\* A size, maybe with an extension that has a name and maybe a value.
SizeLine(r, k) ==
  LET chunk == r.chunks[k]
  IN  /\ chunk.at < chunk.ext /\ chunk.ext <= chunk.end
      /\ Are(r, chunk.at, chunk.ext - 1, DigitsOf(16))
      /\ Number(16, SubSeq(r.bytes, chunk.at, chunk.ext - 1)) = ChunkLen(r, k)
      /\ chunk.ext < chunk.end => Are(r, chunk.ext, chunk.ext, {"semicolon"})
      /\ Are(r, chunk.ext + 1, chunk.end - 1, Alnum \union {"sp", "equals"})
      /\ \A m, n \in chunk.ext + 1 .. chunk.end - 1 :
           r.bytes[m].is = "equals" /\ r.bytes[n].is = "equals" => m = n
      /\ LineEnd(r, chunk.end) /\ chunk.end < r.size

\* Its content and the end of a line, then the next chunk.
ChunkContent(r, k) ==
  LET chunk == r.chunks[k]
      len == ChunkLen(r, k)
  IN  /\ len > 0
      /\ SubSeq(r.bytes, chunk.end + 2, chunk.end + 1 + len)
           = SubSeq(r.content, chunk.from + 1, chunk.from + len)
      /\ LineEnd(r, chunk.end + 2 + len)
      /\ r.chunks[k + 1].at = chunk.end + 4 + len

Trailer(r, k) ==
  LET line == r.trailers[k]
      end == TrailerEnd(r, k)
  IN  /\ line.at < line.colon /\ line.colon < end
      /\ Are(r, line.at, line.at, Alpha)
      /\ Are(r, line.at, line.colon - 1, Alnum)
      /\ Are(r, line.colon, line.colon, {"colon"})
      /\ Are(r, line.colon + 1, end - 1, Alnum \union {"sp"})
      /\ LineEnd(r, end) /\ end < r.size - 1

InChunks(r) ==
  LET last == Len(r.chunks)
  IN  /\ last > 0
      /\ \E k \in DOMAIN r.headers : SaysChunked(r, k)
      /\ r.chunks[1].at = BodyAt(r) /\ r.chunks[1].from = 0
      /\ \A k \in DOMAIN r.chunks : SizeLine(r, k) /\ r.chunks[k].from <= Len(r.content)
      /\ \A k \in 1 .. last - 1 : ChunkContent(r, k)
      /\ ChunkLen(r, last) = 0
      /\ TrailersAt(r) = r.chunks[last].end + 2
      /\ \A k \in DOMAIN r.trailers : Trailer(r, k)
      /\ LineEnd(r, r.size - 1)

Places == Nat \ {0}

ResponseTypeOK(r) ==
  /\ r.bytes \in Seq(Bytes) /\ r.content \in Seq(Bytes)
  /\ r.size \in 1 .. Len(r.bytes) /\ r.status \in Nat /\ r.blank \in Nat
  /\ r.headers \in Seq([at : Places, colon : Nat, name : Seq(STRING)])
  /\ r.chunks \in Seq([at : Places, ext : Places, end : Places, from : Nat])
  /\ r.trailers \in Seq([at : Places, colon : Places])
  /\ r.proper \in BOOLEAN

\* A content that an int can hold the length of: of longer ones, atoi and strtol
\* do not say the length.
MaxInt == 2147483647

Proper(r) ==
  /\ ResponseTypeOK(r)
  /\ Len(r.content) <= MaxInt
  /\ StatusLine(r)
  /\ Headers(r)
  /\ LineEnd(r, r.blank)
  /\ InOnePiece(r) \/ InChunks(r)
=============================================================================
