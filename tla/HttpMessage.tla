---------------------------- MODULE HttpMessage ----------------------------
(***************************************************************************)
(* HttpRequest and HttpResponse (http/http.h, http/http.cpp): the message  *)
(* objects and the text they are written as.                               *)
(*                                                                         *)
(* Text is a sequence of symbols.  A symbol stands for a character, or for *)
(* a run of characters that the parsers treat alike; header names and      *)
(* values, paths and bodies are short sequences of such symbols.           *)
(***************************************************************************)
EXTENDS Integers, Sequences, FiniteSets, SequencesExt, Functions

CONSTANT MaxUnderrun   \* bound: how far in front of a body read errors may take its end

ASSUME MessageAssumption == MaxUnderrun \in Nat

Upper == {"G", "E"}
Lower == {"c", "l", "k", "close", "chunked"}
Digit == {"0", "1", "2", "3"}
Alnum == Upper \cup Lower \cup Digit
Sym   == Alnum \cup {" ", "CR", "LF", "/", ":", "?", "#", "@", "<", ">", "{", "}", "NUL",
                     ";", "=", "[ip]", "HTTP/1."}
Text  == Seq(Sym)

\* The names and values the code itself looks for.
GET           == <<"G", "E">>
ContentLength == <<"c", "l">>
Connection    == <<"c", "k">>
TransferCoding == <<"l", "k">>
KeepAlive     == <<"k">>
Close         == <<"close">>
Chunked       == <<"chunked">>

\* The methods the program knows (HTTP_METHOD_MAP) and the one it does not.
HttpMethod == {"GET", "INVALID_METHOD"}

\* CharsToHttpMethod: the text begins with the name of a method.
CharsToHttpMethod(at) == IF IsPrefix(GET, at) THEN "GET" ELSE "INVALID_METHOD"

\* s_method_string, indexed by the enumeration.
HttpMethodToString(m) == IF m = "GET" THEN GET ELSE <<"<", ">">>

\* std::map<std::string, std::string, CaseInsensitiveLess>.
NoEntries == [k \in {} |-> <<>>]
SetEntry(m, k, v) == [x \in DOMAIN m \cup {k} |-> IF x = k THEN v ELSE m[x]]
DelEntry(m, k) == Restrict(m, DOMAIN m \ {k})
HasEntry(m, k) == k \in DOMAIN m
GetEntry(m, k, def) == IF HasEntry(m, k) THEN m[k] ELSE def

\* boost::lexical_cast<uint64_t>: the whole text is a number.
DigitValue(c) == CHOOSE n \in 0..3 : c = ToString(n)
IsNumber(v) == Len(v) = 1 /\ v[1] \in Digit
getAs(m, k, def) ==
    IF HasEntry(m, k) /\ IsNumber(m[k]) THEN DigitValue(m[k][1]) ELSE def
checkGetAs(m, k) == HasEntry(m, k) /\ IsNumber(m[k])

\* HttpRequest::HttpRequest and HttpResponse::HttpResponse; a status is written
\* with the reason HttpStatusToString() gives it.
HttpRequest ==
    [method |-> "GET", version |-> 17, close |-> TRUE, path |-> <<"/">>, query |-> <<>>,
     fragment |-> <<>>, body |-> <<>>, headers |-> NoEntries]
HttpResponse ==
    [status |-> <<"2">>, version |-> 17, close |-> TRUE, reason |-> <<"k">>, body |-> <<>>,
     headers |-> NoEntries]

CRLF == <<"CR", "LF">>
HttpVersion(v) == <<"HTTP/1.", ToString(v % 16)>>
Prefixed(c, text) == IF text = <<>> THEN <<>> ELSE <<c>> \o text
ConnectionLine(close) == Connection \o <<":">> \o (IF close THEN Close ELSE KeepAlive) \o CRLF

\* The header fields in the order of the map; "connection" is written apart.
HeaderLines(headers) ==
    LET names == SetToSeq(DOMAIN headers \ {Connection})
    IN  FlattenSeq([i \in DOMAIN names |-> names[i] \o <<":">> \o headers[names[i]] \o CRLF])

\* content-length is added for a body, whether or not the map has one.
BodyLines(body) ==
    IF body = <<>> THEN CRLF
    ELSE ContentLength \o <<":", " ", ToString(Len(body))>> \o CRLF \o CRLF \o body

requestDump(r) ==
    HttpMethodToString(r.method) \o <<" ">> \o r.path \o Prefixed("?", r.query)
      \o Prefixed("#", r.fragment) \o <<" ">> \o HttpVersion(r.version) \o CRLF
      \o ConnectionLine(r.close) \o HeaderLines(r.headers) \o BodyLines(r.body)

responseDump(r) ==
    HttpVersion(r.version) \o <<" ">> \o r.status \o <<" ">> \o r.reason \o CRLF
      \o HeaderLines(r.headers) \o ConnectionLine(r.close) \o BodyLines(r.body)

\* The body that came with the header: recvRequest() and recvResponse() copy it,
\* and read as much again as they have copied if that is not all of it.
BodyStart(len, rest) ==
    LET real == IF len >= Len(rest) THEN Len(rest) ELSE len
    IN  [body |-> [i \in 1..len |-> IF i <= real THEN rest[i] ELSE "NUL"],
         at   |-> real,
         left |-> IF len > Len(rest) THEN real ELSE 0]

NoBody == [body |-> <<>>, at |-> 0, left |-> 0]

\* readFixSize() of the rest: the bytes outside of the body are not kept.
BodyFilled(b, bytes) ==
    [body |-> [i \in DOMAIN b.body |->
                  IF i \in (b.at + 1)..(b.at + Len(bytes)) THEN bytes[i - b.at] ELSE b.body[i]],
     at |-> b.at + Len(bytes), left |-> b.left - Len(bytes)]

\* A read() that fails: -1 becomes a size_t, passes the test for <= 0 and is
\* counted, so that the loop goes on one byte further back with one byte more.
BodyError(b) == [b EXCEPT !.at = @ - 1, !.left = @ + 1]
MayUnderrun(b) == b.at > -MaxUnderrun

\* Faulty variant: init() does not look at the header.
InitIgnored(r) == r

\* init(): the close flag follows the header "connection", if there is one.
requestInit(r) ==
    LET connection == GetEntry(r.headers, Connection, <<>>)
    IN  IF connection = <<>> THEN r ELSE [r EXCEPT !.close = (connection # KeepAlive)]

=============================================================================
