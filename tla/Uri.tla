-------------------------------- MODULE Uri --------------------------------
(***************************************************************************)
(* Uri (uri.h, uri.rl.cpp): Uri::Create(), the automaton generated from    *)
(* uri.rl with its actions, getPort(), isDefaultPort(), dump() and         *)
(* createAddress().                                                        *)
(*                                                                         *)
(* A text is a sequence of symbols: a run of letters, of digits or of      *)
(* other name characters, a delimiter, or an IP literal with its brackets. *)
(* Automaton states that differ only in how far an escape, an IPv4 address *)
(* or an IP literal has been read are one state.                           *)
(***************************************************************************)
EXTENDS Integers, Sequences, SequencesExt

CONSTANTS
    UriSchemes, UriUsers, UriHosts, UriPorts,      \* the parts URIs are written with
    UriPaths, UriQueries, UriFragments

VARIABLES
    uriParts,      \* the parts of the text, and whether it was written by dump()
    uriCreated     \* what Create() returned

uriVars == <<uriParts, uriCreated>>

UriLetters == {"http", "c"}
UriDigits  == {"8", "40000"}
\* Digits are name characters: whether a host made of them ends up as an IPv4
\* address or as a name, the actions on its edges are the same.
RegName == UriLetters \cup UriDigits \cup {","}
\* pchar; an escape ("%" and two hexadecimal digits) is one of them.
PChar   == RegName \cup {":", "@"}

\* The shape of an IPv6 literal: the groups before the gap and behind it.  An
\* IPv4 address at the end stands for two groups.
DottedTail == 2
IpShape == [l \in {"[::1]", "[fe80::1]", "[1:2:3:4:5:6:7:8]", "[::1.2.3.4]"} |->
    CASE l = "[::1]"       -> [left |-> 0, gap |-> TRUE, right |-> 1]
      [] l = "[fe80::1]"   -> [left |-> 1, gap |-> TRUE, right |-> 1]
      [] l = "[::1.2.3.4]" -> [left |-> 0, gap |-> TRUE, right |-> DottedTail]
      [] OTHER             -> [left |-> 8, gap |-> FALSE, right |-> 0]]

\* IPv6address.  With a gap behind some group the automaton wants all the groups
\* that are left, although the gap stands for at least one more.
FullForm(s)   == ~s.gap /\ s.left = 8
LeadingGap(s) == s.gap /\ s.left = 0 /\ s.right <= 7
InnerGap(s)   == s.gap /\ s.left > 0 /\ s.left + s.right = 7
IPv6address(s) == FullForm(s) \/ LeadingGap(s) \/ InnerGap(s)
IPvFuture  == {"[v1.c]"}
IP_literal == {l \in DOMAIN IpShape : IPv6address(IpShape[l])} \cup IPvFuture

-----------------------------------------------------------------------------
(* The automaton.  An edge is taken on a set of symbols and performs       *)
(* actions; leaving a state at the end of the text performs actions too.   *)
(* kept says that the path is recorded: behind an authority that follows a *)
(* scheme.                                                                 *)

Edge(on, to, do) == [on |-> on, to |-> to, do |-> do]
Ends(do) == {Edge({"?"}, "queryStart", do), Edge({"#"}, "fragmentStart", do),
             Edge({"end"}, "accepted", do)}

ReferenceStart ==
    {Edge(UriLetters, "schemeName", <<"mark">>), Edge({"/"}, "slash", <<>>),
     Edge(PChar \ (UriLetters \cup {":"}), "segment", <<>>)} \cup Ends(<<>>)
NoColonSegment == {Edge(PChar \ {":"}, "segment", <<>>), Edge({"/"}, "anyPath", <<>>)} \cup Ends(<<>>)
AnyPath        == {Edge(PChar \cup {"/"}, "anyPath", <<>>)} \cup Ends(<<>>)
SchemeName ==
    {Edge(UriLetters \cup UriDigits, "schemeName", <<>>), Edge({":"}, "hierPart", <<"save_scheme">>),
     Edge({",", "@"}, "segment", <<>>), Edge({"/"}, "anyPath", <<>>)} \cup Ends(<<>>)
HierPart       == {Edge(PChar, "anyPath", <<>>), Edge({"/"}, "hierSlash", <<>>)} \cup Ends(<<>>)
\* One slash was read; the second begins an authority.
OneSlash(kept) ==
    {Edge(PChar, "anyPath", <<>>),
     Edge({"/"}, IF kept THEN "keptAuthority" ELSE "authority", <<>>)} \cup Ends(<<>>)

\* Behind a host or a port: done are the actions that record it.
Leave(done, kept) ==
    {Edge({"/"}, IF kept THEN "keptPath" ELSE "anyPath", done \o (IF kept THEN <<"mark">> ELSE <<>>))}
    \cup Ends(done \o (IF kept THEN <<"mark", "save_path">> ELSE <<>>))
\* An empty port is marked and recorded, and the mark it clears is the one the
\* path would have had.
LeaveEmptyPort(kept) ==
    {Edge({"/"}, IF kept THEN "keptPath" ELSE "anyPath", <<"mark", "save_port">>)}
    \cup Ends(<<"mark", "save_port">> \o (IF kept THEN <<"save_path">> ELSE <<>>))

\* What is read first may be the user information or the host; behind a colon,
\* the user information or a port.
AuthorityStart(kept) ==
    {Edge(RegName, "nameOrUser", <<"mark">>), Edge({":"}, "colonOrUser", <<"mark", "save_host">>),
     Edge({"@"}, "hostStart", <<"mark", "save_userinfo">>), Edge(IP_literal, "ipEnd", <<"mark">>)}
    \cup Leave(<<"mark", "save_host">>, kept)
NameOrUser(kept) ==
    {Edge(RegName, "nameOrUser", <<>>), Edge({":"}, "colonOrUser", <<"save_host">>),
     Edge({"@"}, "hostStart", <<"save_userinfo">>)} \cup Leave(<<"save_host">>, kept)
ColonOrUser(kept) ==
    {Edge(UriDigits, "digitsOrUser", <<"mark">>), Edge((RegName \ UriDigits) \cup {":"}, "userInfo", <<>>),
     Edge({"@"}, "hostStart", <<"save_userinfo">>)} \cup LeaveEmptyPort(kept)
DigitsOrUser(kept) ==
    {Edge(UriDigits, "digitsOrUser", <<>>), Edge((RegName \ UriDigits) \cup {":"}, "userInfo", <<>>),
     Edge({"@"}, "hostStart", <<"save_userinfo">>)} \cup Leave(<<"save_port">>, kept)
UserInfo ==
    {Edge(RegName \cup {":"}, "userInfo", <<>>), Edge({"@"}, "hostStart", <<"save_userinfo">>)}
\* Faulty variant of HostStart: the host is not marked behind the "@".
HostUnmarked(kept) ==
    {Edge(RegName, "hostName", <<>>), Edge({":"}, "portStart", <<"save_host">>),
     Edge(IP_literal, "ipEnd", <<>>)} \cup Leave(<<"save_host">>, kept)
HostStart(kept) ==
    {Edge(RegName, "hostName", <<"mark">>), Edge({":"}, "portStart", <<"mark", "save_host">>),
     Edge(IP_literal, "ipEnd", <<"mark">>)} \cup Leave(<<"mark", "save_host">>, kept)
HostName(kept) ==
    {Edge(RegName, "hostName", <<>>), Edge({":"}, "portStart", <<"save_host">>)}
    \cup Leave(<<"save_host">>, kept)
IpEnd(kept)      == {Edge({":"}, "portStart", <<"save_host">>)} \cup Leave(<<"save_host">>, kept)
PortStart(kept)  == {Edge(UriDigits, "portDigits", <<"mark">>)} \cup LeaveEmptyPort(kept)
PortDigits(kept) == {Edge(UriDigits, "portDigits", <<>>)} \cup Leave(<<"save_port">>, kept)
KeptPath         == {Edge(PChar \cup {"/"}, "keptPath", <<>>)} \cup Ends(<<"save_path">>)

QueryStart    == {Edge(PChar \cup {"/", "?"}, "queryPart", <<"mark">>),
                  Edge({"#"}, "fragmentStart", <<"mark", "save_query">>),
                  Edge({"end"}, "accepted", <<"mark", "save_query">>)}
QueryPart     == {Edge(PChar \cup {"/", "?"}, "queryPart", <<>>),
                  Edge({"#"}, "fragmentStart", <<"save_query">>),
                  Edge({"end"}, "accepted", <<"save_query">>)}
FragmentStart == {Edge(PChar \cup {"/", "?"}, "fragmentPart", <<"mark">>),
                  Edge({"end"}, "accepted", <<"mark", "save_fragment">>)}
FragmentPart  == {Edge(PChar \cup {"/", "?"}, "fragmentPart", <<>>),
                  Edge({"end"}, "accepted", <<"save_fragment">>)}

Edges(cs, kept) ==
    CASE cs = "reference"     -> ReferenceStart     [] cs = "segment"       -> NoColonSegment
      [] cs = "anyPath"       -> AnyPath            [] cs = "schemeName"    -> SchemeName
      [] cs = "hierPart"      -> HierPart           [] cs = "slash"         -> OneSlash(FALSE)
      [] cs = "hierSlash"     -> OneSlash(TRUE)     [] cs = "authority"     -> AuthorityStart(FALSE)
      [] cs = "keptAuthority" -> AuthorityStart(TRUE)
      [] cs = "nameOrUser"    -> NameOrUser(kept)   [] cs = "colonOrUser"   -> ColonOrUser(kept)
      [] cs = "digitsOrUser"  -> DigitsOrUser(kept) [] cs = "userInfo"      -> UserInfo
      [] cs = "hostStart"     -> HostStart(kept)    [] cs = "hostName"      -> HostName(kept)
      [] cs = "ipEnd"         -> IpEnd(kept)        [] cs = "portStart"     -> PortStart(kept)
      [] cs = "portDigits"    -> PortDigits(kept)   [] cs = "keptPath"      -> KeptPath
      [] cs = "queryStart"    -> QueryStart         [] cs = "queryPart"     -> QueryPart
      [] cs = "fragmentStart" -> FragmentStart      [] cs = "fragmentPart"  -> FragmentPart

-----------------------------------------------------------------------------
(* The object and the actions of the grammar.                              *)

EmptyUri == [scheme |-> <<>>, userinfo |-> <<>>, host |-> <<>>, port |-> 0, path |-> <<>>,
             query |-> <<>>, fragment |-> <<>>]

Int16(n) == ((n + 32768) % 65536) - 32768
\* atoi() of a text of digits, as setPort(int16_t) takes it.
PortValue(w) ==
    Int16(FoldSeq(LAMBDA d, n : IF d = "8" THEN n * 10 + 8 ELSE n * 100000 + 40000, 0, Reverse(w)))

\* mark = 0 is the null pointer: std::string(NULL, n) throws, and save_host and
\* save_userinfo do nothing.
PerformUri(q, action, text, i) ==
    LET taken == SubSeq(text, q.mark, i - 1)
        save(uri) == [q EXCEPT !.uri = uri, !.mark = 0]
    IN  CASE action = "mark"          -> [q EXCEPT !.mark = i]
          [] action = "save_scheme"   -> save([q.uri EXCEPT !.scheme = taken])
          [] action = "save_userinfo" -> IF q.mark = 0 THEN q ELSE save([q.uri EXCEPT !.userinfo = taken])
          [] action = "save_host"     -> IF q.mark = 0 THEN q ELSE [q EXCEPT !.uri.host = taken]
          [] action = "save_port"     -> save(IF taken = <<>> THEN q.uri
                                              ELSE [q.uri EXCEPT !.port = PortValue(taken)])
          [] action = "save_path"     -> IF q.mark = 0 THEN [q EXCEPT !.thrown = TRUE]
                                         ELSE save([q.uri EXCEPT !.path = taken])
          [] action = "save_query"    -> save([q.uri EXCEPT !.query = taken])
          [] action = "save_fragment" -> save([q.uri EXCEPT !.fragment = taken])

\* Uri::Create(): a Uri, the null pointer, or an exception.
Create(u) ==
    LET text == Append(u, "end")
        step(q, i) ==
            LET hits == {e \in Edges(q.cs, q.kept) : text[i] \in e.on}
                edge == CHOOSE e \in hits : TRUE
                did[k \in 0..Len(edge.do)] ==
                    IF k = 0 THEN [q EXCEPT !.cs = edge.to, !.kept = @ \/ edge.to = "keptAuthority"]
                    ELSE IF did[k - 1].thrown THEN did[k - 1]
                    ELSE PerformUri(did[k - 1], edge.do[k], text, i)
            IN  IF q.cs = "error" \/ q.thrown THEN q
                ELSE IF hits = {} THEN [q EXCEPT !.cs = "error"] ELSE did[Len(edge.do)]
        run[i \in 0..Len(text)] ==
            IF i = 0 THEN [cs |-> "reference", kept |-> FALSE, mark |-> 0, thrown |-> FALSE,
                           uri |-> EmptyUri]
            ELSE step(run[i - 1], i)
        last == run[Len(text)]
    IN  [kind |-> IF last.thrown THEN "thrown" ELSE IF last.cs = "error" THEN "null" ELSE "uri",
         uri |-> last.uri]

isHttp(u) == u.scheme = <<"http">>
getPort(u) == IF u.port # 0 THEN u.port ELSE IF isHttp(u) THEN 80 ELSE 0
isDefaultPort(u) == u.port = 0 \/ (isHttp(u) /\ u.port = 80)

\* createAddress(): the address of the host; setPort() takes a uint16_t.
createAddress(u) == [host |-> u.host, port |-> getPort(u) % 65536]

\* dump().  std::string("" + m_port) is not the number: it points m_port bytes
\* behind an empty literal, and what is written there is unknown.
PortGarbage == {<<>>, <<"8">>, <<"c">>}
dump(u) ==
    {(u.scheme \o <<":", "/", "/">> \o u.userinfo \o (IF u.userinfo = <<>> THEN <<>> ELSE <<"@">>)
        \o u.host \o port \o (IF u.path = <<>> THEN <<"/">> ELSE u.path)
        \o (IF u.query = <<>> THEN <<>> ELSE <<"?">>) \o u.query
        \o (IF u.fragment = <<>> THEN <<>> ELSE <<"#">>) \o u.fragment) :
     port \in IF isDefaultPort(u) THEN {<<>>} ELSE {<<":">> \o g : g \in PortGarbage}}

-----------------------------------------------------------------------------
(* A user writes URIs, parses them, and parses what dump() wrote.          *)

\* "none" marks a part that is left out with its delimiter.
With(delimiter, part) == IF part = <<"none">> THEN <<>> ELSE <<delimiter>> \o part
Value(part) == IF part = <<"none">> THEN <<>> ELSE part
Written(p) ==
    (IF p.scheme = <<>> THEN <<>> ELSE p.scheme \o <<":">>) \o
    (IF p.authority THEN <<"/", "/">> \o (IF p.userinfo = <<"none">> THEN <<>> ELSE p.userinfo \o <<"@">>)
                         \o p.host \o With(":", p.port)
     ELSE <<>>)
    \o p.path \o With("?", p.query) \o With("#", p.fragment)

NoParts == [scheme |-> <<>>, authority |-> FALSE, userinfo |-> <<"none">>, host |-> <<>>,
            port |-> <<"none">>, path |-> <<>>, query |-> <<"none">>, fragment |-> <<"none">>,
            dumped |-> FALSE]
PartsOf(u) ==
    [scheme |-> u.scheme, authority |-> TRUE, host |-> u.host, dumped |-> TRUE, port |-> <<"none">>,
     userinfo |-> IF u.userinfo = <<>> THEN <<"none">> ELSE u.userinfo,
     path     |-> IF u.path = <<>> THEN <<"/">> ELSE u.path,
     query    |-> IF u.query = <<>> THEN <<"none">> ELSE u.query,
     fragment |-> IF u.fragment = <<>> THEN <<"none">> ELSE u.fragment]

UriTypeOK ==
    /\ uriCreated.kind \in {"none", "uri", "null", "thrown"}
    /\ uriCreated.uri.port \in -32768..32767
    /\ uriParts.dumped \in BOOLEAN

UriInit == uriParts = NoParts /\ uriCreated = [kind |-> "none", uri |-> EmptyUri]

CreateUri ==
    \E s \in UriSchemes, a \in BOOLEAN, x \in UriUsers, h \in UriHosts, o \in UriPorts,
       p \in UriPaths, q \in UriQueries, f \in UriFragments :
    LET parts == [NoParts EXCEPT !.scheme = s, !.authority = a, !.userinfo = x, !.host = h,
                    !.port = o, !.path = p, !.query = q, !.fragment = f]
    IN  /\ uriCreated.kind = "none"
        /\ ~a => x = <<"none">> /\ h = <<>> /\ o = <<"none">>
        /\ a \/ p \notin {<<>>} \/ s # <<>>
        /\ uriParts' = parts
        /\ uriCreated' = Create(Written(parts))

\* The text of a URI with a default port is parsed again.
DumpUri ==
    /\ uriCreated.kind = "uri" /\ ~uriParts.dumped /\ isDefaultPort(uriCreated.uri)
    /\ uriParts' = PartsOf(uriCreated.uri)
    /\ \E text \in dump(uriCreated.uri) : uriCreated' = Create(text)

\* The text of one with another port may hold anything behind the colon.
DumpBadPort ==
    /\ uriCreated.kind = "uri" /\ ~uriParts.dumped /\ ~isDefaultPort(uriCreated.uri)
    /\ \E text \in dump(uriCreated.uri) : uriCreated' = Create(text)
    /\ uriParts' = [uriParts EXCEPT !.dumped = TRUE]

UriNext == CreateUri \/ DumpUri \/ DumpBadPort

-----------------------------------------------------------------------------
(* The properties.                                                         *)

\* The parts the automaton is known to lose: a port that is empty, a password
\* that begins with a digit, an IPv6 host with a gap in the middle, and
\* everything of a text that dump() wrote for a URI without a scheme or with
\* garbage for its port.
PlainParts(p) ==
    /\ p.port # <<>>
    /\ ~(Len(p.userinfo) > 2 /\ p.userinfo[Len(p.userinfo)] \in UriDigits)
    /\ p.host = <<"[fe80::1]">> => ~p.authority
    /\ p.dumped => p.scheme # <<>> /\ p.port = <<"none">>

\* Create() recovers the parts a URI was written with (uri.rl.cpp:155-10940),
\* and those of the text dump() writes for it, so that parsing undoes dump();
\* the path is recorded only behind scheme and authority.
UriParts ==
    uriCreated.kind # "none" /\ PlainParts(uriParts) =>
        LET u == uriCreated.uri  p == uriParts
        IN  /\ uriCreated.kind = "uri"
            /\ u.scheme = p.scheme /\ u.userinfo = Value(p.userinfo) /\ u.host = p.host
            /\ u.path = (IF p.authority /\ p.scheme # <<>> THEN p.path ELSE <<>>)
            /\ u.query = Value(p.query) /\ u.fragment = Value(p.fragment)
            /\ createAddress(u).port =
                 (IF p.port # <<"none">> THEN PortValue(p.port) % 65536
                  ELSE IF isHttp(u) THEN 80 ELSE 0)

\* The grammar at the head of uri.rl.cpp is the one the automaton accepts
\* (uri.rl.cpp:29 "port = *DIGIT" and :37-45): Create() returns a Uri for
\* every text written by it.
UriAccepted == uriCreated.kind # "none" /\ ~uriParts.dumped => uriCreated.kind = "uri"

=============================================================================
