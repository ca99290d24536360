--------------------------- MODULE ResponseParser ---------------------------
(***************************************************************************)
(* The response parser: the automaton generated from httpclient_parser.rl  *)
(* and the callbacks of http_parser.cpp.  It reads a status line and       *)
(* header fields, or the header of one chunk.                              *)
(*                                                                         *)
(* Three header fields are known to the grammar: content-length (cl),      *)
(* connection: close (co) and transfer-encoding: chunked (te).  A state is *)
(* a place in the grammar and, for these fields, which one it is about.    *)
(***************************************************************************)
EXTENDS HttpMessage

ChunkRule(on, at, do)   == [on |-> on, at |-> at, kind |-> "none", do |-> do]
FieldRule(on, at, k, do) == [on |-> on, at |-> at, kind |-> k, do |-> do]

Hex   == Digit \cup {"E", "c"}
Chars == Alnum \cup {"#"}       \* token: neither control characters nor separators

\* A response starts with its version, a chunk with its size.
StartOfResponse ==
    {ChunkRule({"HTTP/1."}, "minor", <<"mark">>), ChunkRule(Hex, "chunkSize", <<"mark">>)}

\* The size of a chunk, the extensions behind it, and the end of the line.
ChunkSizeRules ==
    {ChunkRule(Hex, "chunkSize", <<>>), ChunkRule({"CR"}, "endLF", <<"chunk_size">>),
     ChunkRule({"LF"}, "final", <<"chunk_size", "done">>), ChunkRule({";"}, "ext0", <<"chunk_size">>)}
ExtensionRules(at) ==
    CASE at = "ext0"  -> {ChunkRule(Chars, "ext", <<"start_field">>)}
      [] at = "ext"   ->
          {ChunkRule(Chars, "ext", <<>>), ChunkRule({"="}, "extValue0", <<"write_field", "mark">>),
           ChunkRule({";"}, "ext0", <<"write_field", "mark", "write_value">>),
           ChunkRule({"CR"}, "endLF", <<"write_field", "mark", "write_value">>),
           ChunkRule({"LF"}, "final", <<"write_field", "mark", "write_value", "done">>)}
      [] at = "extValue0" -> {ChunkRule(Chars, "extValue", <<"mark">>)}
      [] at = "extValue"  ->
          {ChunkRule(Chars, "extValue", <<>>), ChunkRule({";"}, "ext0", <<"write_value">>),
           ChunkRule({"CR"}, "endLF", <<"write_value">>),
           ChunkRule({"LF"}, "final", <<"write_value", "done">>)}
HeadEnd == {ChunkRule({"LF"}, "final", <<"done">>)}

\* The status line: version, code and reason.
StatusRules(at) ==
    CASE at = "minor"   -> {ChunkRule(Digit, "minor1", <<>>)}
      [] at = "minor1"  -> {ChunkRule(Digit, "minor1", <<>>), ChunkRule({" "}, "code0", <<"http_version">>)}
      [] at = "code0"   -> {ChunkRule(Digit, "code", <<"mark">>)}
      [] at = "code"    -> {ChunkRule(Digit, "code", <<>>), ChunkRule({" "}, "reason0", <<"status_code">>)}
ReasonRules(at) ==
    CASE at = "reason0" -> {ChunkRule(Sym \ {"LF"}, "reason", <<"mark">>)}
      [] at = "reason"  -> {ChunkRule(Sym \ {"CR", "LF"}, "reason", <<>>),
                            ChunkRule({"CR"}, "lineLF", <<"reason_phrase">>),
                            ChunkRule({"LF"}, "line", <<"reason_phrase">>)}
      [] at = "lineLF"  -> {ChunkRule({"LF"}, "line", <<>>)}

\* The names of the three fields, symbol by symbol; any other name is plain.
NameStart ==
    {ChunkRule(Chars \ {"c", "l"}, "name", <<"start_field">>),
     ChunkRule({"c"}, "nameC", <<"start_field">>), ChunkRule({"l"}, "nameL", <<"start_field">>)}
NameEnd == {ChunkRule({":"}, "value0", <<"write_field">>)}
LineStart == NameStart \cup
    {ChunkRule({"CR"}, "endLF", <<>>), ChunkRule({"LF"}, "final", <<"done">>)}

\* Behind "connection: close" the flag is set with the next symbol.
Closing == {[r EXCEPT !.do = <<"write_connection_close">> \o @] : r \in LineStart}

PlainName == {ChunkRule(Chars, "name", <<>>)} \cup NameEnd
KnownName(at, kind) ==
    CASE at = "nameC" -> {ChunkRule(Chars \ {"l", "k"}, "name", <<>>), FieldRule({"l"}, "known", "cl", <<>>),
                          FieldRule({"k"}, "known", "co", <<>>)} \cup NameEnd
      [] at = "nameL" -> {ChunkRule(Chars \ {"k"}, "name", <<>>), FieldRule({"k"}, "known", "te", <<>>)}
                         \cup NameEnd
      [] at = "known" -> {ChunkRule(Chars, "name", <<>>), FieldRule({":"}, "value0", kind, <<"write_field">>)}

HeadValueRules(at) ==
    CASE at = "value0" -> {ChunkRule({" "}, "value0", <<"mark">>),
                           ChunkRule(Sym \ {" ", "CR", "LF"}, "value", <<"mark">>),
                           ChunkRule({"CR"}, "lineLF", <<"mark", "write_value">>),
                           ChunkRule({"LF"}, "line", <<"mark", "write_value">>)}
      [] at = "value"  -> {ChunkRule(Sym \ {"CR", "LF"}, "value", <<>>),
                           ChunkRule({"CR"}, "lineLF", <<"write_value">>),
                           ChunkRule({"LF"}, "line", <<"write_value">>)}

\* What the value of a known field begins with, and what it means.
Wanted(kind) == CASE kind = "cl" -> Digit [] kind = "co" -> {"close"} [] kind = "te" -> {"chunked"}
Meaning(kind) == CASE kind = "cl" -> <<"write_content_len", "write_value">>
                   [] kind = "te" -> <<"write_value">>
                   [] OTHER       -> <<>>

\* The line end behind such a value: chunked is noted at LF, close after it.
KnownEnd(kind, do) ==
    CASE kind = "cl" -> {ChunkRule({"CR"}, "lineLF", do), ChunkRule({"LF"}, "line", do)}
      [] kind = "te" -> {FieldRule({"CR"}, "knownLF", "te", do),
                         ChunkRule({"LF"}, "line", do \o <<"trans_chunked">>)}
      [] kind = "co" -> {FieldRule({"CR"}, "knownLF", "co", do), FieldRule({"LF"}, "line", "co", do)}

\* A known field's value: the wanted word, which a longer text turns into a
\* plain value.
MoreDigits(at, kind) == IF kind = "cl" THEN {FieldRule(Digit, at, "cl", <<>>)} ELSE {}
KnownValue(kind) ==
    {FieldRule({" "}, "value0", kind, <<"mark">>), FieldRule(Wanted(kind), "word", kind, <<"mark">>),
     ChunkRule(Sym \ ({" ", "CR", "LF"} \cup Wanted(kind)), "value", <<"mark">>),
     FieldRule({"CR"}, "blankLF", kind, <<"mark", "write_value">>),
     FieldRule({"LF"}, "blank", kind, <<"mark", "write_value">>)}
KnownWord(kind) ==
    {ChunkRule(Sym \ ({"CR", "LF"} \cup IF kind = "cl" THEN Digit ELSE {}), "value", <<>>)}
    \cup MoreDigits("word", kind)
    \cup KnownEnd(kind, IF kind = "co" THEN <<"write_value">> ELSE Meaning(kind))
KnownLF(kind) ==
    {IF kind = "te" THEN ChunkRule({"LF"}, "line", <<"trans_chunked">>)
     ELSE FieldRule({"LF"}, "line", "co", <<>>)}

\* Spaces before a known value include line ends (space*), so a line end there
\* is both the end of an empty value and a part of the spaces.  These states
\* follow both readings.
SpacedWord(kind) == KnownEnd(kind, Meaning(kind)) \cup MoreDigits("spaced", kind)
BlankCR(at, kind) ==
    {FieldRule(Wanted(kind), "spaced", kind, <<"mark">>), FieldRule({" ", "CR"}, "space", kind, <<>>),
     CASE at = "blankLF" -> FieldRule({"LF"}, "blank", kind, <<>>)
       [] at = "blankCR" -> FieldRule({"LF"}, "final", kind, <<"done">>)
       [] OTHER          -> FieldRule({"LF"}, "space", kind, <<>>)}
BlankLine(kind) ==
    {FieldRule(r.on \ Wanted(kind), r.at, r.kind, r.do) : r \in NameStart}
    \cup {FieldRule(Wanted(kind), "either", kind,
                    IF kind = "co" THEN <<"start_field">> ELSE <<"mark", "start_field">>),
          FieldRule({" "}, "space", kind, <<>>), FieldRule({"CR"}, "blankCR", kind, <<>>),
          FieldRule({"LF"}, "final", kind, <<"done">>)}
NameOrWord(kind) ==
    {ChunkRule(Chars \ IF kind = "cl" THEN Digit ELSE {}, "name", <<>>)}
    \cup MoreDigits("either", kind) \cup NameEnd \cup KnownEnd(kind, Meaning(kind))
KnownRules(at, kind) ==
    CASE at = "value0"  -> KnownValue(kind)  [] at = "word"   -> KnownWord(kind)
      [] at = "knownLF" -> KnownLF(kind)     [] at = "spaced" -> SpacedWord(kind)
      [] at = "blank"   -> BlankLine(kind)   [] at = "either" -> NameOrWord(kind)
      [] OTHER          -> BlankCR(at, kind)

-----------------------------------------------------------------------------
(* The parser object.                                                      *)

Kinds == {"none", "cl", "co", "te"}
ExtStates    == {"ext0", "ext", "extValue0", "extValue"}
StatusStates == {"minor", "minor1", "code0", "code"}
ReasonStates == {"reason0", "reason", "lineLF"}
KnownStates  == {"value0", "word", "spaced", "knownLF", "blankLF", "blankCR", "space", "final",
                 "blank", "either"}
ResponseStates == ExtStates \cup StatusStates \cup ReasonStates \cup KnownStates
                  \cup {"start", "chunkSize", "endLF", "line", "name", "nameC", "nameL", "known", "value"}

ResponseRules(at, kind) ==
    CASE at = "start"           -> StartOfResponse
      [] at = "chunkSize"       -> ChunkSizeRules
      [] at \in ExtStates       -> ExtensionRules(at)
      [] at = "endLF"           -> HeadEnd
      [] at \in StatusStates    -> StatusRules(at)
      [] at \in ReasonStates    -> ReasonRules(at)
      [] at = "line"            -> IF kind = "co" THEN Closing ELSE LineStart
      [] at = "name"            -> PlainName
      [] at \in {"nameC", "nameL", "known"} -> KnownName(at, kind)
      [] at = "value" \/ (at = "value0" /\ kind = "none") -> HeadValueRules(at)
      [] at \in KnownStates /\ kind # "none" -> KnownRules(at, kind)
      [] OTHER                  -> {}

ResponseTransition(at, kind, c) ==
    LET hits == {r \in ResponseRules(at, kind) : c \in r.on}
    IN  IF hits = {} THEN ChunkRule({}, "error", <<>>) ELSE CHOOSE r \in hits : TRUE
ResponseDelta ==
    [k \in ResponseStates \X Kinds \X Sym |-> ResponseTransition(k[1], k[2], k[3])] @@ NoEntries

\* httpclient_parser_init()
NewResponseParser ==
    [at |-> "start", kind |-> "none", mark |-> 0, field_start |-> 0, field_len |-> 0,
     content_len |-> -1, chunked |-> FALSE, chunks_done |-> FALSE, close |-> FALSE,
     m_error |-> FALSE, response |-> [HttpResponse EXCEPT !.reason = <<>>]]

\* strtol(): the number at the mark.
Strtol(text) == IF text = <<>> \/ text[1] \notin Digit THEN 0 ELSE DigitValue(text[1])

\* The actions and callbacks of the grammar.
PerformResponse(p, action, buffer, i) ==
    LET text  == SubSeq(buffer, p.mark + 1, i - 1)
        after == SubSeq(buffer, p.mark + 1, Len(buffer))
        name  == SubSeq(buffer, p.field_start + 1, p.field_start + p.field_len)
    IN  CASE action = "mark"          -> [p EXCEPT !.mark = i - 1]
          [] action = "start_field"   -> [p EXCEPT !.field_start = i - 1]
          [] action = "write_field"   -> [p EXCEPT !.field_len = i - 1 - p.field_start]
          [] action = "write_value"   ->
              IF p.field_len = 0 THEN p
              ELSE [p EXCEPT !.response.headers = SetEntry(@, name, text)]
          [] action = "write_content_len" -> [p EXCEPT !.content_len = Strtol(after)]
          [] action = "write_connection_close" -> [p EXCEPT !.close = TRUE]
          [] action = "trans_chunked" -> [p EXCEPT !.chunked = TRUE]
          [] action = "chunk_size"    ->
              [p EXCEPT !.chunked = TRUE, !.content_len = Strtol(after),
                        !.chunks_done = Strtol(after) <= 0]
          [] action = "reason_phrase" -> [p EXCEPT !.response.reason = text]
          [] action = "status_code"   -> [p EXCEPT !.response.status = text]
          [] action = "http_version"  ->
              IF IsPrefix(text, HttpVersion(17)) THEN [p EXCEPT !.response.version = 17]
              ELSE IF IsPrefix(text, HttpVersion(16)) THEN [p EXCEPT !.response.version = 16]
              ELSE [p EXCEPT !.m_error = TRUE]
          [] OTHER                    -> p

ApplyResponse(p, rule, buffer, i) ==
    FoldLeft(LAMBDA q, action : PerformResponse(q, action, buffer, i),
             [p EXCEPT !.at = rule.at, !.kind = rule.kind], rule.do)
AdvanceResponse(p, buffer, i) == ApplyResponse(p, ResponseDelta[<<p.at, p.kind, buffer[i]>>], buffer, i)

\* httpclient_parser_execute(): to the end of the buffer, to "done" or to an
\* error; the next call begins with the marks at 0.
CountedResponse(before, q, i) ==
    [p |-> q, n |-> IF q.at = "error" THEN before.n ELSE i, stop |-> q.at \in {"error", "final"}]
ReadResponseSymbol(before, buffer, i) ==
    IF before.stop THEN before
    ELSE CountedResponse(before, AdvanceResponse(before.p, buffer, i), i)
httpclient_parser_execute(p, buffer) ==
    LET run[i \in 0..Len(buffer)] ==
            IF i = 0 THEN [p |-> p, n |-> 0, stop |-> FALSE] ELSE ReadResponseSymbol(run[i - 1], buffer, i)
    IN  [run[Len(buffer)] EXCEPT !.p.mark = 0, !.p.field_len = 0, !.p.field_start = 0]

responseHasError(p) == p.m_error \/ p.at = "error"

\* httpclient_parser_is_finished() compares with the first final state only; the
\* final states behind an empty value of a known field are others.
responseIsFinished(p) == p.at = "final" /\ p.kind = "none"

responseContentLength(p) == getAs(p.response.headers, ContentLength, 0)

=============================================================================
