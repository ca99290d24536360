---------------------------- MODULE HttpSession ----------------------------
(***************************************************************************)
(* One client of the HTTP server: HttpServer::handleClient(),              *)
(* HttpSession::recvRequest() and sendResponse() (http/http_server.cpp,    *)
(* http/http_session.cpp), over a byte stream that may deliver the text of *)
(* a request in any pieces.                                                *)
(*                                                                         *)
(* The client writes requests as HttpRequest::dump() does.  read() returns *)
(* what has arrived, up to the free part of the buffer; then the parser is *)
(* run on the buffer and what it consumed is moved away.                   *)
(***************************************************************************)
EXTENDS RequestParser

CONSTANTS
    Requests,        \* the requests the client may send
    MaxSent,         \* how many it sends
    MaxReads,        \* the reads that may return a part of what has arrived
    BuffSize,        \* http.request.buffer_size
    Keepalive,       \* m_isKeepalive
    Garbage          \* values the uninitialised query_start may have

ASSUME SessionAssumption ==
    BuffSize \in Nat \ {0} /\ MaxSent \in Nat /\ MaxReads \in Nat \ {0} /\ Keepalive \in BOOLEAN /\ Garbage \subseteq Nat

VARIABLES
    wire,            \* sent and not yet read
    sent,            \* the requests sent
    peerOpen,        \* the client has not closed
    m_parser,        \* the parser of this recvRequest()
    data,            \* the part of the buffer that is not consumed
    bodyRead,        \* readFixSize() of the body: the body so far, where it reads
                     \* to, and what is left
    reads,           \* how often read() has returned for this request
    sessionPc,
    handled,         \* the requests given to the servlets
    torn             \* a read() ended inside a token or before the end of the body

sessionVars == <<wire, sent, peerOpen, m_parser, data, bodyRead, reads, sessionPc, handled, torn>>

SessionTypeOK ==
    /\ wire \in Text /\ sent \in Seq(Requests) /\ peerOpen \in BOOLEAN
    /\ m_parser.request.path \in Text
    /\ Len(data) <= BuffSize /\ reads \in 0..MaxReads
    /\ sessionPc \in {"read", "parse", "body", "handle", "closed"}
    /\ Len(handled) <= Len(sent) /\ torn \in BOOLEAN

SessionInit ==
    /\ wire = <<>> /\ sent = <<>> /\ peerOpen = TRUE
    /\ m_parser = NewParser(FALSE, 0)
    /\ data = <<>> /\ bodyRead = NoBody /\ reads = 0
    /\ sessionPc = "read"
    /\ handled = <<>> /\ torn = FALSE

-----------------------------------------------------------------------------
(* Faulty variants of the definitions below.                               *)

\* A session is left open when receiving fails.
LeaveOpen == UNCHANGED <<wire, sent, peerOpen, m_parser, data, bodyRead, reads, sessionPc, handled, torn>>

-----------------------------------------------------------------------------
\* The client: dump() and send, and close.  It waits for the response before it
\* sends the next request, as HttpConnection does.
ClientSend == \E r \in Requests :
    /\ peerOpen /\ Len(sent) < MaxSent /\ Len(handled) = Len(sent)
    /\ wire' = wire \o requestDump(r)
    /\ sent' = Append(sent, r)
    /\ UNCHANGED <<peerOpen, m_parser, data, bodyRead, reads, sessionPc, handled, torn>>

ClientClose ==
    /\ peerOpen
    /\ peerOpen' = FALSE
    /\ UNCHANGED <<wire, sent, m_parser, data, bodyRead, reads, sessionPc, handled, torn>>

\* close() and return nullptr; handleClient() leaves its loop.
CloseSession ==
    /\ sessionPc' = "closed"
    /\ UNCHANGED <<wire, sent, peerOpen, m_parser, data, bodyRead, reads, handled, torn>>

\* read() returns 0 or -1: the client has closed, or nothing came in time (what is
\* on the wire may still be under way).
ReadFails ==
    /\ sessionPc = "read"
    /\ CloseSession

\* memmove() of what was not consumed to the front of the buffer.
Moved(buffer, n) == SubSeq(buffer, n + 1, Len(buffer))

\* States in which no token is being read: a buffer may end here.
BetweenTokens == {"start", "uri", "hier", "query0", "fragment0", "version", "lineLF", "line", "endLF"}

Smaller(a, b) == IF a <= b THEN a ELSE b

\* read() into the free part of the buffer ...
Read == \E k \in 1..(BuffSize - Len(data)) :
    /\ sessionPc = "read" /\ k <= Len(wire)
    /\ reads + 1 >= MaxReads => k = Smaller(Len(wire), BuffSize - Len(data))
    /\ reads' = Smaller(reads + 1, MaxReads)
    /\ data' = data \o SubSeq(wire, 1, k)
    /\ wire' = Moved(wire, k)
    /\ sessionPc' = "parse"
    /\ UNCHANGED <<sent, peerOpen, m_parser, bodyRead, handled, torn>>

\* ... then execute(), and what follows from its result: rest is what is left
\* in the buffer, len the length of the body.
AfterExecute(p, rest, len, start) ==
    /\ m_parser' = p
    /\ data' = rest
    /\ bodyRead' = IF isFinished(p) THEN start ELSE NoBody
    /\ sessionPc' =
         IF hasError(p) \/ p.thrown \/ Len(rest) = BuffSize THEN "closed"
         ELSE IF ~isFinished(p) THEN "read"
         ELSE IF len <= Len(rest) THEN "handle"
         ELSE IF start.left = 0 THEN "closed" ELSE "body"
    /\ torn' = (torn \/ IF isFinished(p) THEN len # Len(rest) ELSE p.cs \notin BetweenTokens)

Parse == \E r \in {http_parser_execute(m_parser, data)} :
    /\ sessionPc = "parse"
    /\ \E rest \in {Moved(data, r.n)}, len \in {getContentLength(r.p)} :
          AfterExecute(r.p, rest, len, BodyStart(len, rest))
    /\ UNCHANGED <<wire, sent, peerOpen, reads, handled>>

\* readFixSize() of the rest of the body.
ReadBody == \E k \in 1..bodyRead.left :
    /\ sessionPc = "body" /\ k <= Len(wire)
    /\ bodyRead' = BodyFilled(bodyRead, SubSeq(wire, 1, k))
    /\ wire' = Moved(wire, k)
    /\ sessionPc' = IF bodyRead.left = k THEN "handle" ELSE "body"
    /\ UNCHANGED <<sent, peerOpen, m_parser, data, reads, handled, torn>>

\* The client has closed: readFixSize() returns 0.
ReadBodyFails ==
    /\ sessionPc = "body" /\ wire = <<>> /\ ~peerOpen
    /\ CloseSession

\* Nothing came in time, or the connection was reset: readFixSize() goes on.
ReadBodyError ==
    /\ sessionPc = "body" /\ MayUnderrun(bodyRead)
    /\ bodyRead' = BodyError(bodyRead)
    /\ UNCHANGED <<wire, sent, peerOpen, m_parser, data, reads, sessionPc, handled, torn>>

\* setBody(), init(), dispatch and sendResponse(); the loop goes on with a new
\* parser and a new buffer unless the connection is to be closed.
Handle == \E relaxed \in BOOLEAN, garbage \in Garbage :
    /\ sessionPc = "handle"
    /\ LET r == requestInit([m_parser.request EXCEPT !.body = bodyRead.body])
       IN  /\ handled' = Append(handled, r)
           /\ sessionPc' = IF r.close \/ ~Keepalive THEN "closed" ELSE "read"
    /\ m_parser' = NewParser(relaxed, garbage)
    /\ data' = <<>> /\ bodyRead' = NoBody /\ reads' = 0
    /\ UNCHANGED <<wire, sent, peerOpen, torn>>

SessionNext ==
    \/ ClientSend \/ ClientClose
    \/ ReadFails \/ Read \/ Parse \/ ReadBody \/ ReadBodyFails \/ ReadBodyError \/ Handle

\* The coroutine runs on as long as it can: execute() returns, a read() for
\* which there is something, or which finds the connection closed, returns, the
\* servlet returns.  Read errors in a body need not occur.
ParseReturns == sessionPc = "parse" /\ sessionPc' \in {"read", "body", "handle", "closed"}
SessionFairness ==
    /\ WF_sessionPc(ParseReturns)
    /\ WF_sessionVars(ReadFails \/ Read)
    /\ WF_sessionVars(ReadBody \/ ReadBodyFails)
    /\ WF_sessionVars(Handle)

SessionSpec == SessionInit /\ [][SessionNext]_sessionVars /\ SessionFairness

-----------------------------------------------------------------------------
(* Properties.                                                             *)

\* What the parser makes of the text of r: r itself, with the header fields that
\* dump() adds.
AsReceived(r) ==
    LET h1 == SetEntry(r.headers, Connection, IF r.close THEN Close ELSE KeepAlive)
    IN  [r EXCEPT !.headers = IF r.body = <<>> THEN h1
                              ELSE SetEntry(h1, ContentLength, <<ToString(Len(r.body))>>)]

\* As long as no read() ends inside a token and each body arrives with its
\* header, the servlets are given the requests that were sent, in order and
\* complete, however many reads that took (http_session.cpp:21-133, 
\* http11_parser.rl.cpp:93-98).
RequestAsSent ==
    ~torn => \A i \in DOMAIN handled : handled[i] = AsReceived(sent[i])

\* When the client has closed, the session comes to its end: no piece of a
\* request, whatever the parser made of it, keeps handleClient() in its loop
\* (http_server.cpp:27-53).
SessionEnds == ~peerOpen ~> sessionPc = "closed"

\* "When the body is complete it is put into the object" (http_session.cpp:128):
\* a request is handled with the body that was sent.
BodyComplete ==
    \A i \in DOMAIN handled :
        HasEntry(handled[i].headers, ContentLength) => handled[i].body = sent[i].body

=============================================================================
