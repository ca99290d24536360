------------------------------- MODULE Logger -------------------------------
(***************************************************************************)
(* Logging (Log.h, Log.cpp): loggers with their appenders and formatters,  *)
(* threads that log, and the listener of the "logs" configuration          *)
(* variable, which reconfigures the loggers while they are in use.         *)
(*                                                                         *)
(* A pattern is a sequence of symbols.  What reaches an appender's stream  *)
(* is recorded as the sink and the items of the formatter that wrote it.   *)
(***************************************************************************)
EXTENDS Integers, Sequences, SequencesExt, FiniteSetsExt

CONSTANTS
    LogThread,     \* threads that log
    LogNames,      \* the names of the loggers but "root"
    LogLevels,     \* the levels of events
    LogConfigs,    \* the values of the variable: name -> definition
    LogMaxApply,   \* bound: changes of the configuration
    LogMaxEvents   \* bound: events

RootName == "root"
AllNames == LogNames \cup {RootName}

\* LogLevel: the level of a removed logger is none of these.
UNKNOW  == 0
DEBUG   == 1
FATAL   == 5
Removed == 100

\* LogAppenderDefine and LogDefine.
Letters     == {"m", "d", "q"}
Symbol      == Letters \cup {"%", " ", "{", "}"}
AppenderDef == [type : {0, 1}, level : UNKNOW..FATAL, pattern : Seq(Symbol)]
LoggerDef   == [level : UNKNOW..FATAL, pattern : Seq(Symbol), appenders : Seq(AppenderDef)]

\* Events have a level that a macro gives them.
ASSUME LogAssumption ==
    /\ LogMaxApply \in Nat /\ LogMaxEvents \in Nat /\ LogLevels \subseteq DEBUG..FATAL
    /\ \A config \in LogConfigs : /\ DOMAIN config \subseteq AllNames
                                  /\ \A n \in DOMAIN config : config[n] \in LoggerDef

VARIABLES
    lgLoggers,     \* s_loggers: name -> [m_level, m_formatter, m_appenders]
    lgConfig,      \* the value of the variable
    lgApply,       \* the listener: what it still has to do
    lgEvents,      \* thread -> the event it logs
    lgPattern,     \* name -> the last valid pattern it was configured with
    lgCount        \* [applied, events, ever]: counters, and the names ever defined

lgVars == <<lgLoggers, lgConfig, lgApply, lgEvents, lgPattern, lgCount>>

-----------------------------------------------------------------------------
(* LogFormatter.                                                           *)

Directives == {"m", "d"}            \* s_format_items, abridged
FirstAt(p, i, S) ==
    LET hits == {j \in i..Len(p) : p[j] \in S} IN IF hits = {} THEN Len(p) + 1 ELSE Min(hits)

\* LogFormatter::init(), one round of its loop: s.i is the index, s.str the text
\* not yet stored, s.mv what was found.
PatternStep(p, s) ==
    LET c     == p[s.i]
        stop  == FirstAt(p, s.i + 1, {"%", " ", "{"})
        brace == stop <= Len(p) /\ p[stop] = "{"
        close == FirstAt(p, stop + 1, {"}"})
        name  == SubSeq(p, s.i + 1, stop - 1)
        found(next, fmt) ==
            [s EXCEPT !.i = next, !.str = IF name = <<>> THEN @ ELSE <<>>,
                      !.mv = (IF name = <<>> THEN @ ELSE Append(@, <<"text", s.str>>)) \o <<<<"item", name, fmt>>>>]
    IN  CASE c # "%" -> [s EXCEPT !.i = @ + 1, !.str = Append(@, c)]
          [] c = "%" /\ s.i < Len(p) /\ p[s.i + 1] = "%" -> [s EXCEPT !.i = @ + 1, !.str = Append(@, "%")]
          [] brace /\ close > Len(p) ->
                [s EXCEPT !.i = @ + 1, !.error = TRUE, !.mv = Append(@, <<"text", <<"error">>>>)]
          [] brace /\ close <= Len(p) -> found(close + 1, SubSeq(p, stop + 1, close - 1))
          [] OTHER -> found(stop, <<>>)

\* The items of a pattern, and isError(): an unknown directive or an open brace.
LogFormatter(p) ==
    LET run[k \in 0..Len(p)] ==
            IF k = 0 THEN [i |-> 1, str |-> <<>>, mv |-> <<>>, error |-> FALSE]
            ELSE IF run[k - 1].i > Len(p) THEN run[k - 1] ELSE PatternStep(p, run[k - 1])
        last  == run[Len(p)]
        mv    == IF last.str = <<>> THEN last.mv ELSE Append(last.mv, <<"text", last.str>>)
        known(x) == x[1] = "text" \/ (Len(x[2]) = 1 /\ x[2][1] \in Directives)
    IN  [items |-> SelectSeq(mv, LAMBDA x : x # <<"text", <<>>>>),
         isError |-> last.error \/ \E i \in 1..Len(mv) : ~known(mv[i])]

\* The pattern a Logger is built with, abridged.
DefaultPattern == <<"%", "m">>

-----------------------------------------------------------------------------
(* Loggers and appenders.                                                  *)

\* A pointer to a formatter is null or points to the items of its pattern.
NoFormatter  == <<>>
Formatter(p) == <<LogFormatter(p).items>>

\* LogAppender: no formatter until one is set.
Sink(type) == IF type = 0 THEN "console" ELSE "file"
NewAppender(type, level) ==
    [sink |-> Sink(type), m_level |-> level, m_formatter |-> NoFormatter, is_set_formatter |-> FALSE]
\* LogAppender::setFormatter()
appenderSetFormatter(x, f) ==
    [sink |-> x.sink, m_level |-> x.m_level, m_formatter |-> f, is_set_formatter |-> f # NoFormatter]

\* Logger::Logger(); Logger::addAppender(): an appender without a formatter gets
\* the logger's, and counts as one whose formatter was set.
NewLogger == [m_level |-> DEBUG, m_formatter |-> Formatter(DefaultPattern), m_appenders |-> <<>>]
addAppender(g, x) ==
    [g EXCEPT !.m_appenders = Append(@, IF x.m_formatter = NoFormatter THEN appenderSetFormatter(x, g.m_formatter) ELSE x)]
clearAppender(g) == [g EXCEPT !.m_appenders = <<>>]
\* Logger::setFormatter()
setFormatter(g, pattern) ==
    IF LogFormatter(pattern).isError THEN g
    ELSE [g EXCEPT !.m_formatter = Formatter(pattern),
                   !.m_appenders = [i \in 1..Len(@) |->
                       IF @[i].is_set_formatter THEN @[i] ELSE appenderSetFormatter(@[i], Formatter(pattern))]]

\* LogManager::LogManager() and getLogger().
LogManager == [n \in {RootName} |-> addAppender(NewLogger, NewAppender(0, UNKNOW))]
getLogger(n) == IF n \in DOMAIN lgLoggers THEN lgLoggers[n] ELSE NewLogger
WithLogger(n, g) == [x \in DOMAIN lgLoggers \cup {n} |-> IF x = n THEN g ELSE lgLoggers[x]]

-----------------------------------------------------------------------------
(* The listener of "logs" (LogIniter), one call on a logger at a time.  The *)
(* code goes through the definitions in the order of their names, the      *)
(* model in any order.                                                     *)

NotApplying == [pc |-> "idle", new |-> <<>>, todo |-> {}, gone |-> {}, cur |-> RootName, at |-> 1]
Changed(new) == {n \in DOMAIN new : n \notin DOMAIN lgConfig \/ lgConfig[n] # new[n]}
Gone(new)    == DOMAIN lgConfig \ DOMAIN new

\* Where the listener goes next; behind the last logger setValue() assigns.
AfterLogger(a) ==
    IF a.todo # {} THEN {[a EXCEPT !.pc = "level", !.cur = n] : n \in a.todo}
    ELSE IF a.gone # {} THEN {[a EXCEPT !.pc = "remove", !.cur = n] : n \in a.gone}
    ELSE {[a EXCEPT !.pc = "end"]}

BeginApply == \E new \in LogConfigs :
    /\ lgApply.pc = "idle" /\ new # lgConfig /\ lgCount.applied < LogMaxApply
    /\ lgApply' \in AfterLogger([NotApplying EXCEPT !.new = new, !.todo = Changed(new), !.gone = Gone(new)])
    /\ lgEvents' = [t \in LogThread |-> [lgEvents[t] EXCEPT !.overlap = TRUE]]
    /\ lgCount' = [lgCount EXCEPT !.applied = @ + 1]
    /\ UNCHANGED <<lgLoggers, lgConfig, lgPattern>>

ApplyLevel ==
    LET n == lgApply.cur
    IN  /\ lgApply.pc = "level"
        /\ lgLoggers' = WithLogger(n, [getLogger(n) EXCEPT !.m_level = lgApply.new[n].level])
        /\ lgApply' = [lgApply EXCEPT !.pc = "formatter"]
        /\ UNCHANGED <<lgConfig, lgEvents, lgPattern, lgCount>>

\* A definition without a pattern leaves the formatter as it was.
ApplyFormatter ==
    LET n == lgApply.cur
        p == lgApply.new[n].pattern
    IN  /\ lgApply.pc = "formatter"
        /\ lgLoggers' = IF p = <<>> THEN lgLoggers ELSE WithLogger(n, setFormatter(lgLoggers[n], p))
        /\ lgPattern' = [lgPattern EXCEPT ![n] = IF p = <<>> \/ LogFormatter(p).isError THEN @ ELSE p]
        /\ lgApply' = [lgApply EXCEPT !.pc = "clear"]
        /\ UNCHANGED <<lgConfig, lgEvents, lgCount>>

ApplyClear ==
    LET n == lgApply.cur
    IN  /\ lgApply.pc = "clear"
        /\ lgLoggers' = WithLogger(n, clearAppender(lgLoggers[n]))
        /\ lgApply' = [lgApply EXCEPT !.pc = "add", !.at = 1]
        /\ UNCHANGED <<lgConfig, lgEvents, lgPattern, lgCount>>

\* An appender of the definition; one whose pattern is in error gets the logger's.
DefinedAppender(k) ==
    LET x == NewAppender(k.type, k.level)
        f == LogFormatter(k.pattern)
    IN  IF k.pattern = <<>> \/ f.isError THEN x ELSE appenderSetFormatter(x, Formatter(k.pattern))
ApplyAdd ==
    LET n    == lgApply.cur
        apps == lgApply.new[n].appenders
    IN  /\ lgApply.pc = "add"
        /\ IF lgApply.at > Len(apps)
           THEN /\ lgApply' \in AfterLogger([lgApply EXCEPT !.todo = @ \ {n}])
                /\ UNCHANGED lgLoggers
           ELSE /\ lgLoggers' = WithLogger(n, addAppender(lgLoggers[n], DefinedAppender(apps[lgApply.at])))
                /\ lgApply' = [lgApply EXCEPT !.at = @ + 1]
        /\ UNCHANGED <<lgConfig, lgEvents, lgPattern, lgCount>>

\* Faulty variant of Silenced: the logger keeps its level.
OnlyCleared(g) == clearAppender(g)
\* A logger that is no longer defined is not deleted: it is given a level no event
\* has, and loses its appenders.
Silenced(g) == clearAppender([g EXCEPT !.m_level = Removed])
ApplyRemove ==
    /\ lgApply.pc = "remove"
    /\ lgLoggers' = WithLogger(lgApply.cur, Silenced(getLogger(lgApply.cur)))
    /\ lgApply' \in AfterLogger([lgApply EXCEPT !.gone = @ \ {lgApply.cur}])
    /\ UNCHANGED <<lgConfig, lgEvents, lgPattern, lgCount>>

EndApply ==
    /\ lgApply.pc = "end"
    /\ lgConfig' = lgApply.new /\ lgApply' = NotApplying
    /\ lgCount' = [lgCount EXCEPT !.ever = @ \cup DOMAIN lgApply.new]
    /\ UNCHANGED <<lgLoggers, lgEvents, lgPattern>>

-----------------------------------------------------------------------------
(* Logging.                                                                *)

NoEvent == [pc |-> "idle", logger |-> RootName, by |-> RootName, level |-> 0, out |-> <<>>, overlap |-> FALSE]

\* Logger::log() up to the lock: the level and, without the lock, whether there
\* are appenders; otherwise the root logger is asked in the same way.
Passes(n, level) == level >= getLogger(n).m_level
CheckFor(e, n) ==
    IF ~Passes(n, e.level) THEN [e EXCEPT !.pc = "done"]
    ELSE IF getLogger(n).m_appenders # <<>> THEN [e EXCEPT !.pc = "emit", !.by = n]
    ELSE IF n # RootName THEN [e EXCEPT !.pc = "root"] ELSE [e EXCEPT !.pc = "done"]

Log(t) == \E n \in AllNames, level \in LogLevels :
    /\ lgEvents[t].pc \in {"idle", "done"} /\ lgCount.events < LogMaxEvents
    /\ lgEvents' = [lgEvents EXCEPT ![t] =
          CheckFor([pc |-> "idle", logger |-> n, by |-> RootName, level |-> level, out |-> <<>>,
                    overlap |-> lgApply.pc # "idle"], n)]
    /\ lgLoggers' = WithLogger(n, getLogger(n))
    /\ lgCount' = [lgCount EXCEPT !.events = @ + 1]
    /\ UNCHANGED <<lgConfig, lgApply, lgPattern>>

LogRoot(t) ==
    /\ lgEvents[t].pc = "root"
    /\ lgEvents' = [lgEvents EXCEPT ![t] = CheckFor(@, RootName)]
    /\ UNCHANGED <<lgLoggers, lgConfig, lgApply, lgPattern, lgCount>>

\* Under the logger's mutex: every appender whose level the event has.
Written(apps, level) ==
    [i \in {j \in 1..Len(apps) : level >= apps[j].m_level} |-> <<apps[i].sink, apps[i].m_formatter>>]
Emit(t) ==
    LET e == lgEvents[t]
    IN  /\ e.pc = "emit"
        /\ lgEvents' = [lgEvents EXCEPT ![t] =
              [e EXCEPT !.pc = "done", !.out = Written(lgLoggers[e.by].m_appenders, e.level)]]
        /\ UNCHANGED <<lgLoggers, lgConfig, lgApply, lgPattern, lgCount>>

LgTypeOK ==
    /\ DOMAIN lgLoggers \subseteq AllNames /\ RootName \in DOMAIN lgLoggers
    /\ \A n \in DOMAIN lgLoggers : /\ DOMAIN lgLoggers[n] = DOMAIN NewLogger
                                   /\ lgLoggers[n].m_level \in UNKNOW..FATAL \cup {Removed}
    /\ lgPattern \in [AllNames -> Seq(Symbol)]
    /\ lgCount \in [applied : Nat, events : Nat, ever : SUBSET AllNames]
    /\ DOMAIN lgConfig \subseteq lgCount.ever
    /\ \A n \in DOMAIN lgConfig : lgConfig[n] \in LoggerDef
    /\ lgApply.pc \in {"idle", "level", "formatter", "clear", "add", "remove", "end"}
    /\ DOMAIN lgApply = DOMAIN NotApplying
    /\ DOMAIN lgEvents = LogThread
    /\ \A t \in LogThread : /\ DOMAIN lgEvents[t] = DOMAIN NoEvent
                            /\ lgEvents[t].pc \in {"idle", "root", "emit", "done"}
                            /\ lgEvents[t].overlap \in BOOLEAN

LgInit ==
    /\ lgLoggers = LogManager /\ lgConfig = [n \in {} |-> 0] /\ lgApply = NotApplying
    /\ lgEvents = [t \in LogThread |-> NoEvent]
    /\ lgPattern = [n \in AllNames |-> DefaultPattern]
    /\ lgCount = [applied |-> 0, events |-> 0, ever |-> {}]

LgNext ==
    \/ BeginApply \/ ApplyLevel \/ ApplyFormatter \/ ApplyClear \/ ApplyAdd \/ ApplyRemove \/ EndApply
    \/ \E t \in LogThread : Log(t) \/ LogRoot(t) \/ Emit(t)

-----------------------------------------------------------------------------
(* The properties.                                                         *)

\* What the configuration says of an event: the appenders of the logger's
\* definition, those of the root logger if it has none, and nothing for a logger
\* that was defined once and is not any more.
PatternFor(k, default) == IF k.pattern = <<>> \/ LogFormatter(k.pattern).isError THEN default ELSE k.pattern
DefinedOut(apps, default, level) ==
    [i \in {j \in 1..Len(apps) : level >= apps[j].level} |->
        <<Sink(apps[i].type), Formatter(PatternFor(apps[i], default))>>]
OutOf(n, level) == DefinedOut(lgConfig[n].appenders, lgPattern[n], level)
Expected(n, level) ==
    LET silent(x) == x \in lgCount.ever
        rootOut == IF RootName \in DOMAIN lgConfig
                   THEN IF level >= lgConfig[RootName].level THEN OutOf(RootName, level) ELSE <<>>
                   ELSE IF silent(RootName) THEN <<>> ELSE <<<<"console", Formatter(DefaultPattern)>>>>
    IN  IF n \notin DOMAIN lgConfig THEN IF n = RootName \/ ~silent(n) THEN rootOut ELSE <<>>
        ELSE IF level < lgConfig[n].level THEN <<>>
        ELSE IF lgConfig[n].appenders = <<>> /\ n # RootName THEN rootOut ELSE OutOf(n, level)

\* An event logged while nothing is being reconfigured is written exactly as the
\* configuration in effect says, whatever the loggers were configured as before
\* (Log.cpp:478-503, :1176-1266).
LogAsConfigured ==
    \A t \in LogThread : lgEvents[t].pc = "done" /\ ~lgEvents[t].overlap =>
        lgEvents[t].out = Expected(lgEvents[t].logger, lgEvents[t].level)

\* Appenders whose format nobody set follow the logger's (Log.cpp:437
\* "将所有LogAppender 没有设置过格式的formatter和Logger同步").
AppendersFollow ==
    [][\A n \in DOMAIN lgLoggers : lgLoggers'[n].m_formatter # lgLoggers[n].m_formatter =>
         \A i \in 1..Len(lgLoggers'[n].m_appenders) :
            lgLoggers[n].m_appenders[i].m_formatter = lgLoggers[n].m_formatter =>
                lgLoggers'[n].m_appenders[i].m_formatter = lgLoggers'[n].m_formatter]_lgVars

-----------------------------------------------------------------------------
(* The specification, and the inductive invariant behind LogAsConfigured.  *)

LgSpec == LgInit /\ [][LgNext]_lgVars

\* The listener is at a definition it has not finished, or at the end.
ApplyLocals ==
    /\ lgApply.pc = "idle" => lgApply = NotApplying
    /\ lgApply.pc # "idle" => lgApply.new \in LogConfigs
    /\ lgApply.pc \in {"level", "formatter", "clear", "add"} => lgApply.cur \in lgApply.todo
    /\ lgApply.pc = "remove" => lgApply.cur \in lgApply.gone
    /\ lgApply.pc \in {"remove", "end"} => lgApply.todo = {}
    /\ lgApply.pc = "end" => lgApply.gone = {}
    /\ lgApply.pc # "idle" => /\ lgApply.todo \subseteq DOMAIN lgApply.new
                              /\ lgApply.gone \subseteq DOMAIN lgConfig \ DOMAIN lgApply.new

\* A logger writes in the last valid pattern it was given.
FormatterKept == \A n \in AllNames : getLogger(n).m_formatter = Formatter(lgPattern[n])

\* The first k appenders of a definition, as the listener makes them for a logger
\* that writes in the pattern default.
Built(apps, default, k) ==
    [i \in 1..k |-> [sink |-> Sink(apps[i].type), m_level |-> apps[i].level,
                     m_formatter |-> Formatter(PatternFor(apps[i], default)), is_set_formatter |-> TRUE]]

\* Logger g of name n is as config says: defined, removed, or as getLogger() makes it.
LoggerIs(g, n, config, default, ever) ==
    IF n \in DOMAIN config
    THEN /\ g.m_level = config[n].level
         /\ g.m_appenders = Built(config[n].appenders, default, Len(config[n].appenders))
    ELSE IF n \in ever THEN g.m_level = Removed /\ g.m_appenders = <<>>
    ELSE /\ g.m_level = DEBUG
         /\ g.m_appenders = IF n = RootName THEN LogManager[n].m_appenders ELSE <<>>

\* While the listener is at work the loggers it has done, and those it need not
\* touch, are as the new value says; the one it is at is so in part.
TargetConfig == IF lgApply.pc = "idle" THEN lgConfig ELSE lgApply.new
LoggersAs ==
    /\ \A n \in AllNames \ (lgApply.todo \cup lgApply.gone) :
          LoggerIs(getLogger(n), n, TargetConfig, lgPattern[n], lgCount.ever)
    /\ lgApply.pc \in {"formatter", "clear", "add"} =>
          /\ lgApply.cur \in DOMAIN lgLoggers
          /\ lgLoggers[lgApply.cur].m_level = lgApply.new[lgApply.cur].level
    /\ lgApply.pc = "add" =>
          LET apps == lgApply.new[lgApply.cur].appenders
          IN  /\ lgApply.at \in 1..(Len(apps) + 1)
              /\ lgLoggers[lgApply.cur].m_appenders = Built(apps, lgPattern[lgApply.cur], lgApply.at - 1)

\* An event that no reconfiguration overlaps will be written as expected.
EventsAs == \A t \in LogThread :
    LET e == lgEvents[t]
    IN  /\ ~e.overlap => e.pc = "idle" \/ lgApply.pc = "idle"
        /\ e.pc # "idle" => e.logger \in AllNames /\ e.level \in LogLevels
        /\ e.pc = "root" => e.logger # RootName
        /\ e.pc = "emit" => e.by \in DOMAIN lgLoggers
        /\ e.pc = "root" /\ ~e.overlap =>
              e.out = <<>> /\ Expected(e.logger, e.level) = Expected(RootName, e.level)
        /\ e.pc = "emit" /\ ~e.overlap =>
              Expected(e.logger, e.level) = Written(lgLoggers[e.by].m_appenders, e.level)

LgInv ==
    /\ LgTypeOK
    /\ ApplyLocals
    /\ FormatterKept
    /\ LoggersAs
    /\ EventsAs
    /\ LogAsConfigured

=============================================================================
