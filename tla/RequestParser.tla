--------------------------- MODULE RequestParser ---------------------------
(***************************************************************************)
(* The request parser: the automaton generated from http11_parser.rl, the  *)
(* callbacks of http_parser.cpp and HttpRequestParser::execute().          *)
(*                                                                         *)
(* The states of the automaton are named for the part of the request they  *)
(* read; states that differ only in how far an IP address or an escape has *)
(* been read are one.  A rule says on which symbols the automaton leaves a *)
(* state, where it goes and which actions of the grammar it performs.      *)
(* Marks are offsets into the buffer of the present call of execute().     *)
(***************************************************************************)
EXTENDS HttpMessage

CONSTANT MaxMethod     \* the longest method the grammar takes (20)

ASSUME MaxMethodAssumption == MaxMethod \in Nat \ {0}

Rule(on, to, do) == [on |-> on, to |-> to, do |-> do]

-----------------------------------------------------------------------------
(* The grammar.  relaxed is the value of parser->uri_relaxed, which the    *)
(* program never sets: with it, braces may be part of a URI.               *)

Reg(relaxed)   == Alnum \cup {";", "="} \cup (IF relaxed THEN {"{", "}"} ELSE {})
Pchar(relaxed) == Reg(relaxed) \cup {":", "@"}
More(relaxed)  == Pchar(relaxed) \cup {"/", "?"}

\* A request starts with a method, with "<" (XML) or with "@" (JSON).
StartRules ==
    {Rule(Upper \cup Digit, "method", <<"mark">>), Rule({"<"}, "xmlName0", <<"mark">>),
     Rule({"@"}, "jsonPath", <<"mark">>)}

MethodRules ==
    {Rule(Upper \cup Digit, "method", <<>>), Rule({" "}, "uri", <<"request_method">>)}

\* Where a path may end.
PathEnd == {Rule({" "}, "version", <<"request_path">>), Rule({"?"}, "query0", <<"request_path">>),
            Rule({"#"}, "fragment0", <<"request_path">>)}
Marked(rules) == {Rule(r.on, r.to, <<"mark">> \o r.do) : r \in rules}

\* The first symbol of the URI: a letter may belong to a scheme.
UriRules(relaxed) ==
    Marked({Rule(Upper \cup Lower, "scheme", <<>>),
            Rule((Reg(relaxed) \cup {"@"}) \ (Upper \cup Lower), "segment", <<>>),
            Rule({"/"}, "slash", <<>>)} \cup PathEnd)

SchemeRules(relaxed) ==
    {Rule(Alnum, "scheme", <<>>), Rule({":"}, "hier", <<>>),
     Rule((Reg(relaxed) \cup {"@"}) \ Alnum, "segment", <<>>), Rule({"/"}, "path", <<>>)}
    \cup PathEnd

\* Behind the scheme the path is marked again.
HierRules(relaxed) ==
    Marked({Rule(Pchar(relaxed), "path", <<>>), Rule({"/"}, "slash", <<>>)} \cup PathEnd)

\* A first segment without a colon, and the segments behind it.
SegmentRules(relaxed) ==
    {Rule(Reg(relaxed) \cup {"@"}, "segment", <<>>), Rule({"/"}, "path", <<>>)} \cup PathEnd
PathRules(relaxed)  == {Rule(Pchar(relaxed) \cup {"/"}, "path", <<>>)} \cup PathEnd
\* Faulty variant of SlashRules: "//" is read as a path.
NoAuthority(relaxed) ==
    {Rule(Pchar(relaxed) \cup {"/"}, "path", <<>>)} \cup PathEnd
SlashRules(relaxed) ==
    {Rule(Pchar(relaxed), "path", <<>>), Rule({"/"}, "authority", <<>>)} \cup PathEnd

\* "//": user information, host and port.  Until an "@" comes, what was read
\* may be either; a colon may precede a port or be part of the user information.
AuthorityRules(relaxed) ==
    {Rule(Reg(relaxed), "name", <<>>), Rule({":"}, "colon", <<>>), Rule({"@"}, "host", <<>>),
     Rule({"[ip]"}, "ip", <<>>), Rule({"/"}, "path", <<>>)} \cup PathEnd
NameRules(relaxed) == {r \in AuthorityRules(relaxed) : r.to # "ip"}
ColonRules(relaxed) ==
    {Rule(Digit, "colon", <<>>), Rule((Reg(relaxed) \cup {":"}) \ Digit, "user", <<>>),
     Rule({"@"}, "host", <<>>), Rule({"/"}, "path", <<>>)} \cup PathEnd
UserRules(relaxed) == {Rule(Reg(relaxed) \cup {":"}, "user", <<>>), Rule({"@"}, "host", <<>>)}
HostRules(relaxed) ==
    {Rule(Reg(relaxed), "hostname", <<>>), Rule({":"}, "port", <<>>),
     Rule({"[ip]"}, "ip", <<>>), Rule({"/"}, "path", <<>>)} \cup PathEnd
HostnameRules(relaxed) == {r \in HostRules(relaxed) : r.to # "ip"}
PortRules == {Rule(Digit, "port", <<>>), Rule({"/"}, "path", <<>>)} \cup PathEnd
IpRules   == {Rule({":"}, "port", <<>>), Rule({"/"}, "path", <<>>)} \cup PathEnd

Query0Rules(relaxed) ==
    {Rule(More(relaxed), "query", <<"start_query">>),
     Rule({" "}, "version", <<"start_query", "query_string">>),
     Rule({"#"}, "fragment0", <<"start_query", "query_string">>)}
QueryRules(relaxed) ==
    {Rule(More(relaxed), "query", <<>>), Rule({" "}, "version", <<"query_string">>),
     Rule({"#"}, "fragment0", <<"query_string">>)}
Fragment0Rules(relaxed) ==
    {Rule(More(relaxed), "fragment", <<"mark">>), Rule({" "}, "version", <<"mark", "fragment">>)}
FragmentRules(relaxed) ==
    {Rule(More(relaxed), "fragment", <<>>), Rule({" "}, "version", <<"fragment">>)}

VersionRules == {Rule({"HTTP/1."}, "minor", <<"mark">>)}
MinorRules   == {Rule({"0", "1"}, "lineEnd", <<>>)}
LineEndRules == {Rule({"CR"}, "lineLF", <<"http_version">>), Rule({"LF"}, "line", <<"http_version">>)}
LineLFRules  == {Rule({"LF"}, "line", <<>>)}

\* HTTP_CTL is written as (0 - 31) | 127: all that it excludes of the control
\* characters is NUL and DEL, so a line end may be part of a field name.
Token   == Alnum \cup {"CR", "LF", "#"}
Content == Sym \ {"NUL", "CR", "LF"}

LineRules ==
    {Rule(Token \ {"CR", "LF"}, "field", <<"start_field">>), Rule({"CR"}, "endLF", <<"start_field">>),
     Rule({"LF"}, "final", <<"start_field", "done">>)}
EndLFRules ==
    {Rule(Token \ {"LF"}, "field", <<>>), Rule({"LF"}, "final", <<"done">>),
     Rule({":"}, "value0", <<"write_field">>)}
FieldRules == {Rule(Token, "field", <<>>), Rule({":"}, "value0", <<"write_field">>)}
Value0Rules ==
    {Rule({" "}, "value0", <<"mark">>), Rule(Content \ {" "}, "value", <<"mark">>),
     Rule({"CR"}, "lineLF", <<"mark", "write_value">>), Rule({"LF"}, "line", <<"mark", "write_value">>)}
ValueRules ==
    {Rule(Content, "value", <<>>), Rule({"CR"}, "lineLF", <<"write_value">>),
     Rule({"LF"}, "line", <<"write_value">>)}

\* "<name ... >" NUL, and "@path {...}" NUL.
XmlRules(cs) ==
    CASE cs = "xmlName0" -> {Rule(Alnum, "xmlName", <<>>)}
      [] cs = "xmlName"  -> {Rule(Alnum, "xmlName", <<>>),
                             Rule({" ", "CR", "LF", "/", ">"}, "xml", <<"request_path">>)}
      [] cs = "xml"      -> {Rule(Sym \ {">"}, "xml", <<>>), Rule({">"}, "xmlEnd", <<>>)}
      [] cs = "xmlEnd"   -> {Rule(Sym \ {">", "NUL"}, "xml", <<>>), Rule({">"}, "xmlEnd", <<>>),
                             Rule({"NUL"}, "final", <<"xml", "done">>)}
JsonRules(cs) ==
    CASE cs = "json0"    -> {Rule({"{"}, "json", <<"mark">>)}
      [] cs = "json"     -> {Rule(Sym \ {"}"}, "json", <<>>), Rule({"}"}, "jsonEnd", <<>>)}
      [] cs = "jsonEnd"  -> {Rule(Sym \ {"}", "NUL"}, "json", <<>>), Rule({"}"}, "jsonEnd", <<>>),
                             Rule({"NUL"}, "final", <<"json", "done">>)}

UriStates == {"uri", "scheme", "hier", "segment", "path", "slash", "authority", "name", "colon",
              "user", "host", "hostname", "port", "ip"}
XmlStates  == {"xmlName0", "xmlName", "xml", "xmlEnd"}
JsonStates == {"json0", "json", "jsonEnd"}

UriPart(cs, relaxed) ==
    CASE cs = "uri"       -> UriRules(relaxed)       [] cs = "scheme"   -> SchemeRules(relaxed)
      [] cs = "hier"      -> HierRules(relaxed)      [] cs = "segment"  -> SegmentRules(relaxed)
      [] cs = "path"      -> PathRules(relaxed)      [] cs = "slash"    -> SlashRules(relaxed)
      [] cs = "authority" -> AuthorityRules(relaxed) [] cs = "name"     -> NameRules(relaxed)
      [] cs = "colon"     -> ColonRules(relaxed)     [] cs = "user"     -> UserRules(relaxed)
      [] cs = "host"      -> HostRules(relaxed)      [] cs = "hostname" -> HostnameRules(relaxed)
      [] cs = "port"      -> PortRules               [] cs = "ip"       -> IpRules

\* The path of a JSON message: a relative part that ends with a space.
JsonPath(cs, relaxed) ==
    {Rule(r.on, IF r.to = "version" THEN "json0" ELSE r.to, r.do) :
        r \in {s \in UriPart(cs, relaxed) : s.to \notin {"query0", "fragment0"}}}
JsonPathStart(relaxed) ==
    {Rule(Reg(relaxed) \cup {"@"}, "segment", <<>>), Rule({"/"}, "slash", <<>>),
     Rule({" "}, "json0", <<"request_path">>)}

Rules(cs, isJson, relaxed) ==
    CASE cs \in UriStates  -> IF isJson THEN JsonPath(cs, relaxed) ELSE UriPart(cs, relaxed)
      [] cs \in XmlStates  -> XmlRules(cs)
      [] cs \in JsonStates -> JsonRules(cs)
      [] cs = "start"      -> StartRules             [] cs = "method"   -> MethodRules
      [] cs = "jsonPath"   -> JsonPathStart(relaxed)
      [] cs = "query0"     -> Query0Rules(relaxed)   [] cs = "query"    -> QueryRules(relaxed)
      [] cs = "fragment0"  -> Fragment0Rules(relaxed) [] cs = "fragment" -> FragmentRules(relaxed)
      [] cs = "version"    -> VersionRules           [] cs = "minor"    -> MinorRules
      [] cs = "lineEnd"    -> LineEndRules           [] cs = "lineLF"   -> LineLFRules
      [] cs = "line"       -> LineRules              [] cs = "endLF"    -> EndLFRules
      [] cs = "field"      -> FieldRules             [] cs = "value0"   -> Value0Rules
      [] cs = "value"      -> ValueRules

-----------------------------------------------------------------------------
(* The parser object: the automaton's state, its marks and the request the *)
(* callbacks fill in.                                                      *)

\* http_parser_init(); uri_relaxed and query_start keep what the memory held.
NewParser(relaxed, garbage) ==
    [cs |-> "start", isJson |-> FALSE, letters |-> 0, mark |-> 0, field_start |-> 0,
     field_len |-> 0, query_start |-> garbage, uri_relaxed |-> relaxed, m_error |-> FALSE,
     thrown |-> FALSE, request |-> HttpRequest]

\* PTR_TO and LEN: the text from a mark up to the symbol at position i.
Slice(buffer, mark, i) == SubSeq(buffer, mark + 1, i - 1)

\* on_request_method
OnMethod(p, buffer) ==
    LET m == CharsToHttpMethod(SubSeq(buffer, p.mark + 1, Len(buffer)))
    IN  IF m = "INVALID_METHOD" THEN [p EXCEPT !.m_error = TRUE]
        ELSE [p EXCEPT !.request.method = m]

\* on_request_http_version: strncmp() compares as many characters as were read.
OnVersion(p, text) ==
    IF IsPrefix(text, HttpVersion(17)) THEN [p EXCEPT !.request.version = 17]
    ELSE IF IsPrefix(text, HttpVersion(16)) THEN [p EXCEPT !.request.version = 16]
    ELSE [p EXCEPT !.m_error = TRUE]

\* on_request_query_string: query_start is not reset with the other marks, so
\* the length can be negative, and std::string() throws.
OnQuery(p, buffer, i) ==
    IF p.query_start > i - 1 THEN [p EXCEPT !.thrown = TRUE]
    ELSE [p EXCEPT !.request.query = Slice(buffer, p.query_start, i)]

\* on_request_http_field: a field without a name is dropped.
OnField(p, buffer, i) ==
    IF p.field_len = 0 THEN p
    ELSE [p EXCEPT !.request.headers =
            SetEntry(@, SubSeq(buffer, p.field_start + 1, p.field_start + p.field_len),
                     Slice(buffer, p.mark, i))]

Perform(p, action, buffer, i) ==
    CASE action = "mark"           -> [p EXCEPT !.mark = i - 1]
      [] action = "start_field"    -> [p EXCEPT !.field_start = i - 1]
      [] action = "write_field"    -> [p EXCEPT !.field_len = i - 1 - p.field_start]
      [] action = "write_value"    -> OnField(p, buffer, i)
      [] action = "request_method" -> OnMethod(p, buffer)
      [] action = "request_path"   -> [p EXCEPT !.request.path = Slice(buffer, p.mark, i)]
      [] action = "start_query"    -> [p EXCEPT !.query_start = i - 1]
      [] action = "query_string"   -> OnQuery(p, buffer, i)
      [] action = "fragment"       -> [p EXCEPT !.request.fragment = Slice(buffer, p.mark, i)]
      [] action = "http_version"   -> OnVersion(p, Slice(buffer, p.mark, i))
      [] OTHER                     -> p

\* The transition table; where no rule applies the automaton is in error.
States == UriStates \cup XmlStates \cup JsonStates \cup
    {"start", "method", "jsonPath", "query0", "query", "fragment0", "fragment", "version", "minor",
     "lineEnd", "lineLF", "line", "endLF", "field", "value0", "value"}
Transition(s, isJson, relaxed, c) ==
    LET hits == {r \in Rules(s, isJson, relaxed) : c \in r.on}
    IN  IF hits = {} THEN Rule({}, "error", <<>>) ELSE CHOOSE r \in hits : TRUE
Delta == [k \in States \X BOOLEAN \X BOOLEAN \X Sym |-> Transition(k[1], k[2], k[3], k[4])] @@ NoEntries

\* One symbol: the state the rule leads to, then the rule's actions.  A method
\* that is too long is an error.
Letters(p) == IF p.cs \in {"start", "method"} THEN p.letters + 1 ELSE p.letters
Enter(p, to) == [p EXCEPT !.cs = to, !.letters = Letters(p), !.isJson = @ \/ to = "jsonPath"]
Apply(p, rule, buffer, i) ==
    FoldLeft(LAMBDA q, action : Perform(q, action, buffer, i),
             Enter(p, IF rule.to = "method" /\ Letters(p) > MaxMethod THEN "error" ELSE rule.to), rule.do)
Advance(p, buffer, i) == Apply(p, Delta[<<p.cs, p.isJson, p.uri_relaxed, buffer[i]>>], buffer, i)

\* http_parser_execute(): reads the buffer to its end, to the end of the
\* header or to an error, and says how many symbols that was.  The next call
\* begins with the marks at 0.
Counted(before, q, i) == [p |-> q, n |-> IF q.cs = "error" THEN before.n ELSE i]
ReadSymbol(before, buffer, i) ==
    IF before.p.cs \in {"final", "error"} \/ before.p.thrown THEN before
    ELSE Counted(before, Advance(before.p, buffer, i), i)
http_parser_execute(p, buffer) ==
    LET run[i \in 0..Len(buffer)] ==
            IF i = 0 THEN [p |-> p, n |-> 0] ELSE ReadSymbol(run[i - 1], buffer, i)
    IN  [run[Len(buffer)] EXCEPT !.p.mark = 0, !.p.field_len = 0, !.p.field_start = 0]

hasError(p) == p.m_error \/ p.cs = "error"
isFinished(p) == p.cs = "final"

\* getContentLength()
getContentLength(p) == getAs(p.request.headers, ContentLength, 0)

=============================================================================
