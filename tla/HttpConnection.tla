--------------------------- MODULE HttpConnection ---------------------------
(***************************************************************************)
(* HttpConnection::recvResponse() (http/http_connection.cpp): the client   *)
(* reads one response, with its body in one piece (content-length) or in   *)
(* chunks.  The server's text arrives in any pieces.                       *)
(*                                                                         *)
(* rspData is the buffer; rspLen is the code's variable len, which in the  *)
(* chunk loop is not always the number of bytes in the buffer.             *)
(***************************************************************************)
EXTENDS ResponseParser

CONSTANTS
    Responses,       \* records [text, body]: what a server may send, and its body
    RspBuffSize,     \* http.response.buffer_size
    RspMaxReads      \* the reads that may return a part of what has arrived

ASSUME RspAssumption == RspBuffSize \in Nat \ {0} /\ RspMaxReads \in Nat \ {0}

VARIABLES
    rspWire,         \* what has not been read
    rspBody,         \* the body the server meant
    rspParser, rspData, rspLen,
    got,             \* the body so far, where readFixSize() reads to, what is left to read
    rspReads, rspPc,
    rspTorn          \* a read() ended inside a token, a body or a chunk

rspVars == <<rspWire, rspBody, rspParser, rspData, rspLen, got, rspReads, rspPc, rspTorn>>

RspPc == {"idle", "head", "fixed", "chunk", "rest", "done", "failed"}

RspTypeOK ==
    /\ rspWire \in Text /\ rspBody \in Text /\ rspData \in Text
    /\ got.body \in Text /\ got.at \in Int /\ got.left \in Nat
    /\ rspLen \in -2..RspBuffSize
    /\ rspReads \in 0..RspMaxReads /\ rspPc \in RspPc /\ rspTorn \in BOOLEAN

RspInit ==
    /\ rspWire = <<>> /\ rspBody = <<>> /\ rspParser = NewResponseParser
    /\ rspData = <<>> /\ rspLen = 0 /\ got = NoBody
    /\ rspReads = 0 /\ rspPc = "idle" /\ rspTorn = FALSE

-----------------------------------------------------------------------------
(* Faulty variant: all of the buffer is appended, line end included.       *)

TakeAll(data, len, size) == data

-----------------------------------------------------------------------------
\* recvResponse() is called and the server sends its response.
Respond == \E r \in Responses :
    /\ rspPc = "idle"
    /\ rspWire' = r.text /\ rspBody' = r.body
    /\ rspPc' = "head"
    /\ UNCHANGED <<rspParser, rspData, rspLen, got, rspReads, rspTorn>>

\* read() into the buffer behind its first n bytes: the reads that return a
\* part of what is there are bounded.
RspRead(k, n) ==
    /\ k <= Len(rspWire) /\ n + k <= RspBuffSize
    /\ rspReads + 1 >= RspMaxReads => k = Len(rspWire) \/ n + k = RspBuffSize
    /\ rspWire' = SubSeq(rspWire, k + 1, Len(rspWire))
    /\ rspReads' = IF rspReads < RspMaxReads THEN rspReads + 1 ELSE rspReads

\* The server has closed or, except in readFixSize(), read() fails: close() and
\* nullptr.
RspReadFails ==
    /\ rspPc \in {"head", "fixed", "chunk", "rest"} /\ (rspPc = "fixed" => rspWire = <<>>)
    /\ rspPc' = "failed"
    /\ UNCHANGED <<rspWire, rspBody, rspParser, rspData, rspLen, got, rspReads, rspTorn>>

\* readFixSize() goes on when read() fails.
RspReadError ==
    /\ rspPc = "fixed" /\ MayUnderrun(got)
    /\ got' = BodyError(got)
    /\ UNCHANGED <<rspWire, rspBody, rspParser, rspData, rspLen, rspReads, rspPc, rspTorn>>

RspBetweenTokens == {"start", "line", "lineLF", "endLF", "code0", "reason0"}

\* What follows from the parser's result in the first loop: the kind of body.
AfterHead(p, rest, len, start) ==
    /\ rspParser' = p /\ rspData' = rest /\ rspLen' = Len(rest)
    /\ rspPc' =
         IF responseHasError(p) \/ Len(rest) = RspBuffSize THEN "failed"
         ELSE IF ~responseIsFinished(p) THEN "head"
         ELSE IF p.chunked THEN "chunk"
         ELSE IF len <= Len(rest) THEN "done"
         ELSE IF start.left = 0 THEN "failed" ELSE "fixed"
    /\ got' = IF responseIsFinished(p) /\ ~p.chunked THEN start ELSE got
    /\ rspTorn' = (rspTorn \/ IF ~responseIsFinished(p) THEN p.at \notin RspBetweenTokens
                              ELSE IF p.chunked THEN rest # <<>> ELSE len # Len(rest))

\* One turn of the first loop: read() and execute().
ReadHead == \E k \in 1..Len(rspWire) :
    /\ rspPc = "head" /\ RspRead(k, Len(rspData))
    /\ \E buffer \in {rspData \o SubSeq(rspWire, 1, k)} :
       \E r \in {httpclient_parser_execute(rspParser, buffer)} :
       \E rest \in {SubSeq(buffer, r.n + 1, Len(buffer))}, len \in {responseContentLength(r.p)} :
          AfterHead(r.p, rest, len, BodyStart(len, rest))
    /\ UNCHANGED rspBody

\* readFixSize() of as many bytes as are already there.
ReadFixed == \E k \in 1..got.left :
    /\ rspPc = "fixed" /\ RspRead(k, 0)
    /\ got' = BodyFilled(got, SubSeq(rspWire, 1, k))
    /\ rspPc' = IF got.left = k THEN "done" ELSE "fixed"
    /\ UNCHANGED <<rspBody, rspParser, rspData, rspLen, rspTorn>>

\* The part of a chunk that is in the buffer.
ChunkPart(data, len, size) == SubSeq(data, 1, IF size <= len THEN size ELSE len)

\* What follows from the parser's result in the chunk loop: "len -= 2" for the
\* line end behind the chunk, then as much of the chunk as len says.  A negative
\* len makes append() throw.
AfterChunkHead(p, rest, size, len) ==
    /\ rspParser' = p
    /\ IF responseHasError(p) \/ Len(rest) = RspBuffSize \/ (responseIsFinished(p) /\ len < 0)
       THEN rspPc' = "failed" /\ UNCHANGED <<rspData, rspLen, got>>
       ELSE IF ~responseIsFinished(p)
       THEN rspData' = rest /\ rspLen' = Len(rest) /\ UNCHANGED <<rspPc, got>>
       ELSE /\ got' = [got EXCEPT !.body = @ \o ChunkPart(rest, len, size),
                                  !.left = IF size <= len THEN 0 ELSE size - len]
            /\ rspLen' = IF size <= len THEN len - size ELSE 0
            /\ rspData' = IF size <= len THEN SubSeq(rest, size + 1, len) ELSE <<>>
            /\ rspPc' = IF size > len THEN "rest" ELSE IF p.chunks_done THEN "done" ELSE "chunk"
    /\ rspTorn' = (rspTorn \/ ~responseIsFinished(p) \/ Len(rest) # size + 2)

\* One turn of the chunk loop: read(), then a new parser reads the header of a
\* chunk from the first symbol of the buffer.
ReadChunk == \E k \in 1..Len(rspWire) :
    /\ rspPc = "chunk" /\ RspRead(k, Len(rspData))
    /\ \E buffer \in {SubSeq(rspData, 1, rspLen) \o SubSeq(rspWire, 1, k)} :
       \E r \in {httpclient_parser_execute(
                    [NewResponseParser EXCEPT !.response = rspParser.response, !.m_error = rspParser.m_error],
                    buffer)} :
       \E rest \in {SubSeq(buffer, r.n + 1, Len(buffer))} :
          AfterChunkHead(r.p, rest, r.p.content_len, Len(rest) - 2)
    /\ UNCHANGED rspBody

\* The rest of a chunk, straight into the body.
ReadRest == \E k \in 1..got.left :
    /\ rspPc = "rest" /\ RspRead(k, 0)
    /\ got' = [got EXCEPT !.body = @ \o SubSeq(rspWire, 1, k), !.left = @ - k]
    /\ rspPc' = IF got.left # k THEN "rest" ELSE IF rspParser.chunks_done THEN "done" ELSE "chunk"
    /\ UNCHANGED <<rspBody, rspParser, rspData, rspLen, rspTorn>>

RspNext == Respond \/ RspReadFails \/ RspReadError \/ ReadHead \/ ReadFixed \/ ReadChunk \/ ReadRest

-----------------------------------------------------------------------------
(* Properties.                                                             *)

\* If every read() ends at the end of a token of the header, of the whole body or
\* of a whole chunk with its line end, the response has the body the server
\* meant (http_connection.cpp:44-248).
ResponseAsSent == (rspPc = "done" /\ ~rspTorn) => got.body = rspBody

\* "When the body is complete it is put into the object" (http_connection.cpp:242).
ResponseComplete == rspPc = "done" => got.body = rspBody

=============================================================================
