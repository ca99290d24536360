\* Requests and responses in any pieces, all short texts of the request line's
\* grammar, and URIs made of all combinations of parts.
SPECIFICATION WebSpec
CONSTANTS
    MaxUnderrun = 1
    MaxMethod = 3
    Requests <- RequestSet
    MaxSent = 2
    MaxReads = 2
    BuffSize = 40
    Keepalive = TRUE
    Garbage = {0, 9}
    Responses <- ResponseSet
    RspBuffSize = 40
    RspMaxReads = 5
    MaxFed = 4
    UriSym = {"c", "1", "/", ":", "?", "#", "@", "[ip]", "{"}
    XmlSym = {"c", " ", ">", "NUL", "<"}
    UriSchemes <- Schemes
    UriUsers <- Users
    UriHosts <- Hosts
    UriPorts <- Ports
    UriPaths <- Paths
    UriQueries <- Queries
    UriFragments <- Fragments
INVARIANTS
    RequestAsSent
    ResponseAsSent
    UriGrammar
    UriParts
PROPERTY
    SessionEnds
CHECK_DEADLOCK FALSE
