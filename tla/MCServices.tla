----------------------------- MODULE MCServices ------------------------------
(***************************************************************************)
(* The services around the coroutines, side by side: TcpServer, Socket,    *)
(* the connection pool of the HTTP client, the fixed-size transfers of     *)
(* Stream, ByteArray, the configuration, the loggers, the process and      *)
(* Address.  They share no state here; a behaviour is one of the component *)
(* chosen at its start.                                                    *)
(***************************************************************************)
EXTENDS TcpServer, Socket, ConnectionPool, Stream, ByteArray, Config, Logger, Process, Address

CONSTANTS file1, name1, name2    \* a file, a name with a ConfigVar, a name without

VARIABLE component

ServicesInit ==
    /\ component \in {"server", "socket", "pool", "stream", "bytes", "config", "log", "process", "address"}
    /\ TcpInit /\ SockInit /\ PoolInit /\ StreamInit /\ BaInit /\ CfgInit /\ LgInit /\ ProcessInit /\ AddrInit

\* What the other components keep while one takes a step.
FirstHalf  == <<tcpVars, sockVars, poolVars, streamVars>>
SecondHalf == <<baVars, cfgVars, lgVars, processVars, addrVars>>

ServicesNext ==
    /\ UNCHANGED component
    /\ \/ /\ component = "server" /\ TcpNext
          /\ UNCHANGED <<sockVars, poolVars, streamVars, SecondHalf>>
       \/ /\ component = "socket" /\ SockNext
          /\ UNCHANGED <<tcpVars, poolVars, streamVars, SecondHalf>>
       \/ /\ component = "pool" /\ PoolNext
          /\ UNCHANGED <<tcpVars, sockVars, streamVars, SecondHalf>>
       \/ /\ component = "stream" /\ StreamNext
          /\ UNCHANGED <<tcpVars, sockVars, poolVars, SecondHalf>>
       \/ /\ component = "bytes" /\ BaNext
          /\ UNCHANGED <<FirstHalf, cfgVars, lgVars, processVars, addrVars>>
       \/ /\ component = "config" /\ CfgNext
          /\ UNCHANGED <<FirstHalf, baVars, lgVars, processVars, addrVars>>
       \/ /\ component = "log" /\ LgNext
          /\ UNCHANGED <<FirstHalf, baVars, cfgVars, processVars, addrVars>>
       \/ /\ component = "process" /\ ProcessNext
          /\ UNCHANGED <<FirstHalf, baVars, cfgVars, lgVars, addrVars>>
       \/ /\ component = "address" /\ AddrNext
          /\ UNCHANGED <<FirstHalf, baVars, cfgVars, lgVars, processVars>>

servicesVars == <<component, FirstHalf, SecondHalf>>

\* TcpFairness and ProcessFairness, for the behaviours of their components.
ServicesFairness ==
    /\ WF_tcpVars(component = "server" /\ CancelAccepts)
    /\ \A s \in Listen : WF_tcpVars(component = "server" /\ ServerStep(s))
    /\ \A i \in Instance : WF_processVars(component = "process" /\ ProcessStep(i))

ServicesSpec == ServicesInit /\ [][ServicesNext]_servicesVars /\ ServicesFairness

\* The types of all components.
ServicesTypeOK ==
    /\ TcpTypeOK /\ SockTypeOK /\ PoolTypeOK /\ StreamTypeOK /\ BaTypeOK
    /\ CfgTypeOK /\ LgTypeOK /\ ProcessTypeOK /\ AddrTypeOK

-----------------------------------------------------------------------------
(* The instance.                                                           *)

\* ByteArray: numbers at the ends of their ranges, an empty text and one that
\* crosses a node.
Number(k, values) == {[kind |-> k, value |-> v, text |-> <<>>] : v \in values}
Text(k, values)   == {[kind |-> k, value |-> 0, text |-> t] : t \in values}
Items == Number("fixed", {18}) \cup Number("varint", {7, 255}) \cup Number("zigzag", {-128, 5})
         \cup Text("stringF", {<<>>, <<1, 2, 3>>}) \cup Text("stringVint", {<<4>>})

\* Config: a text with a name without variable, one whose second value has the
\* wrong form, and one that does not parse.
Texts ==
    {[ok |-> TRUE, nodes |-> <<<<name1, 1>>, <<name2, 1>>>>],
     [ok |-> TRUE, nodes |-> <<<<name1, 2>>, <<name1, 9>>>>],
     [ok |-> FALSE, nodes |-> <<>>]}
FileList == <<file1>>

\* Loggers: two appenders of one logger, a logger without appenders beside the
\* root logger with malformed patterns, and no loggers.
AppenderOf(type, level, pattern) == [type |-> type, level |-> level, pattern |-> pattern]
LoggerOf(level, pattern, appenders) == [level |-> level, pattern |-> pattern, appenders |-> appenders]
LoggerConfigs ==
    {[n \in {"a"} |-> LoggerOf(1, <<"%", "d", "{", "q", "}", " ">>,
                               <<AppenderOf(1, 2, <<>>), AppenderOf(0, 0, <<" ", "%", "m", " ">>)>>)],
     [n \in {"a", "root"} |-> IF n = "a" THEN LoggerOf(2, <<>>, <<>>)
                              ELSE LoggerOf(1, <<"%", "q">>, <<AppenderOf(0, 1, <<"%", "{">>)>>)],
     [n \in {} |-> 0]}

\* Address: a name, a dotted one and one with colons.
HostNames    == {<<"h">>, <<"h", ".", "h">>, <<":", ":", "h">>}
ServiceNames == {<<"s">>}

=============================================================================
