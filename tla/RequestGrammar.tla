--------------------------- MODULE RequestGrammar ---------------------------
(***************************************************************************)
(* The request automaton against the grammar it was generated from: every  *)
(* text over a small alphabet is fed to it as a URI, as the path of a JSON *)
(* message and as an XML message, symbol by symbol.  The reference below   *)
(* is written from the rules of RFC 3986 that http11_parser.rl quotes, by  *)
(* splitting a text at its delimiters.                                     *)
(***************************************************************************)
EXTENDS RequestParser

CONSTANTS
    MaxFed,        \* the longest text
    UriSym,        \* the symbols of URIs and JSON paths
    XmlSym         \* the symbols of XML messages

VARIABLES
    fedAs,         \* "none", or the state in which the text begins
    fed,           \* the text
    automaton      \* the parser

grammarVars == <<fedAs, fed, automaton>>

Beginnings == {"uri", "jsonPath", "xmlName0"}

GrammarTypeOK ==
    /\ fedAs \in Beginnings \cup {"none"} /\ fed \in Text
    /\ automaton.cs \in States \cup {"final", "error"}

GrammarInit == fedAs = "none" /\ fed = <<>> /\ automaton = NewParser(FALSE, 0)

Begin == \E s \in Beginnings, relaxed \in BOOLEAN :
    /\ fedAs = "none"
    /\ fedAs' = s
    /\ automaton' = [NewParser(relaxed, 0) EXCEPT !.cs = s, !.isJson = (s = "jsonPath")]
    /\ UNCHANGED fed

Feed == \E c \in (IF fedAs \in {"uri", "jsonPath"} THEN UriSym ELSE XmlSym) :
    /\ fedAs # "none" /\ Len(fed) < MaxFed
    /\ automaton.cs \notin {"final", "error"}
    /\ fed' = Append(fed, c)
    /\ automaton' = Advance(automaton, Append(fed, c), Len(fed) + 1)
    /\ UNCHANGED fedAs

GrammarNext == Begin \/ Feed

-----------------------------------------------------------------------------
(* The reference.                                                          *)

AllIn(w, S) == ToSet(w) \subseteq S
Until(w, i) == SubSeq(w, 1, i - 1)
From(w, i)  == SubSeq(w, i, Len(w))
First(w, S) == CHOOSE i \in 1..(Len(w) + 1) :
    (i > Len(w) \/ w[i] \in S) /\ \A j \in 1..(i - 1) : w[j] \notin S

IsHostPort(w, r) == \E i \in 1..(Len(w) + 1) :
    /\ Until(w, i) = <<"[ip]">> \/ AllIn(Until(w, i), Reg(r))
    /\ i <= Len(w) => w[i] = ":" /\ AllIn(From(w, i + 1), Digit)
IsAuthority(w, r) == \E i \in 0..Len(w) :
    /\ i > 0 => w[i] = "@" /\ AllIn(Until(w, i), Reg(r) \cup {":"})
    /\ IsHostPort(From(w, i + 1), r)
IsPath(w, r) == AllIn(w, Pchar(r) \cup {"/"})
IsHierPart(w, r) ==
    IF IsPrefix(<<"/", "/">>, w)
    THEN LET rest == From(w, 3)
             i    == First(rest, {"/"})
         IN  IsAuthority(Until(rest, i), r) /\ IsPath(From(rest, i), r)
    ELSE IsPath(w, r)
IsRelativePart(w, r) ==
    /\ IsHierPart(w, r)
    /\ IsPrefix(<<"/", "/">>, w) \/ ":" \notin ToSet(Until(w, First(w, {"/"})))

\* The part of a URI without query and fragment that is its path for the parser,
\* behind the scheme if there is one.
SchemeEnd(w) ==
    LET i == First(w, {":"})
    IN  IF i <= Len(w) /\ i > 1 /\ w[1] \notin Digit /\ AllIn(Until(w, i), Alnum) THEN i ELSE 0

UriReference(w, r) ==
    LET f == First(w, {"#"})
        q == First(Until(w, f), {"?"})
        head == Until(w, q)
        query == SubSeq(w, q + 1, f - 1)
        fragment == From(w, f + 1)
        s == SchemeEnd(head)
    IN  [ok |-> /\ IF s = 0 THEN IsRelativePart(head, r) ELSE IsHierPart(From(head, s + 1), r)
                /\ AllIn(query, More(r)) /\ AllIn(fragment, More(r)),
         path |-> From(head, s + 1), query |-> query, fragment |-> fragment]

XmlMessage(w) == \E i \in 2..Len(w) :
    /\ AllIn(Until(w, i), Alnum) /\ w[i] \in {" ", "CR", "LF", "/", ">"}
    /\ IsSuffix(<<">", "NUL">>, From(w, i + 1))

\* The automaton takes exactly the URIs of the grammar, and gives the callbacks
\* exactly their parts; the same for the path of a JSON message, and an XML
\* message ends with the first ">" NUL behind its name (http11_parser.rl.cpp:160-3482, 3825-6240).
UriGrammar ==
    LET Ended == Advance(automaton, Append(fed, " "), Len(fed) + 1)
        r     == automaton.uri_relaxed
        ref   == UriReference(fed, r)
    IN  /\ (fedAs = "uri" /\ automaton.cs # "error") =>
              /\ (Ended.cs = "version") <=> ref.ok
              /\ ref.ok => /\ Ended.request.path = ref.path
                           /\ Ended.request.query = ref.query
                           /\ Ended.request.fragment = ref.fragment
        /\ (fedAs = "uri" /\ automaton.cs = "error") => ~ref.ok
        /\ (fedAs = "jsonPath" /\ automaton.cs # "error") =>
              ((Ended.cs = "json0") <=> IsRelativePart(fed, r))
        /\ fedAs = "xmlName0" => ((automaton.cs = "final") <=> XmlMessage(fed))

=============================================================================
