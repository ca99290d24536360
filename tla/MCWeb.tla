-------------------------------- MODULE MCWeb --------------------------------
(***************************************************************************)
(* The components that read and write protocol texts, side by side: the    *)
(* server's and the client's end of an HTTP connection, the grammar of the *)
(* request line, and Uri.  They share no state here; a behaviour is one of *)
(* the component chosen at its start.                                      *)
(***************************************************************************)
EXTENDS HttpSession, HttpConnection, RequestGrammar, Uri

VARIABLE component

WebInit ==
    /\ component \in {"session", "connection", "grammar", "uri"}
    /\ SessionInit /\ RspInit /\ GrammarInit /\ UriInit

WebNext ==
    \/ component = "session" /\ SessionNext /\ UNCHANGED <<component, rspVars, grammarVars, uriVars>>
    \/ component = "connection" /\ RspNext /\ UNCHANGED <<component, sessionVars, grammarVars, uriVars>>
    \/ component = "grammar" /\ GrammarNext /\ UNCHANGED <<component, sessionVars, rspVars, uriVars>>
    \/ component = "uri" /\ UriNext /\ UNCHANGED <<component, sessionVars, rspVars, grammarVars>>

webVars == <<component, sessionVars, rspVars, grammarVars, uriVars>>

\* SessionFairness, for the behaviours of the session.
WebFairness ==
    /\ WF_sessionPc(component = "session" /\ ParseReturns)
    /\ WF_sessionVars(component = "session" /\ (ReadFails \/ Read))
    /\ WF_sessionVars(component = "session" /\ (ReadBody \/ ReadBodyFails))
    /\ WF_sessionVars(component = "session" /\ Handle)

WebSpec == WebInit /\ [][WebNext]_webVars /\ WebFairness

\* The types of all components.
WebTypeOK == SessionTypeOK /\ RspTypeOK /\ GrammarTypeOK /\ UriTypeOK

-----------------------------------------------------------------------------
(* The instance.                                                           *)

\* A request with path and query that keeps the connection, one with a body
\* that closes it, and one of HTTP/1.0 with a fragment and a header field.
RequestSet ==
    {[HttpRequest EXCEPT !.close = FALSE, !.path = <<"/", "c">>, !.query = <<"c">>],
     [HttpRequest EXCEPT !.body = <<"c", "l", "k">>],
     [HttpRequest EXCEPT !.close = FALSE, !.fragment = <<"l">>, !.version = 16,
                         !.headers = SetEntry(NoEntries, <<"l">>, <<"l">>)]}

PlainResponse == [HttpResponse EXCEPT !.headers = SetEntry(NoEntries, <<"l">>, <<"l">>)]
ChunkedHead   == responseDump([HttpResponse EXCEPT !.headers = SetEntry(NoEntries, TransferCoding, Chunked)])
Chunk(d)      == <<ToString(Len(d))>> \o CRLF \o d \o CRLF

\* Without and with a body, in chunks, and with a content-length that is empty.
ResponseSet ==
    {[text |-> responseDump([PlainResponse EXCEPT !.body = b]), body |-> b] : b \in {<<>>, <<"c", "l", "k">>}}
    \cup {[text |-> ChunkedHead \o Chunk(<<"c", "l">>) \o Chunk(<<"k">>) \o Chunk(<<>>), body |-> <<"c", "l", "k">>]}
    \cup {[text |-> <<"HTTP/1.", "1", " ", "2", " ", "k">> \o CRLF \o ContentLength \o <<":">> \o CRLF \o CRLF,
           body |-> <<>>]}

Schemes   == {<<>>, <<"http">>, <<"c">>}
Users     == {<<"none">>, <<"c">>, <<"c", ":", ",">>, <<"c", ":", "8">>}
Hosts     == {<<>>, <<"c">>, <<"8", "c">>} \cup {<<l>> : l \in DOMAIN IpShape \cup IPvFuture}
Ports     == {<<"none">>, <<>>, <<"8">>, <<"8", "40000">>}
Paths     == {<<>>, <<"/">>, <<"/", "c", "/", ":", "@">>}
Queries   == {<<"none">>, <<"c", "?">>}
Fragments == {<<"none">>, <<>>, <<"/", "8">>}

=============================================================================
