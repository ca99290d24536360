---------------------------- MODULE ServerProofs ----------------------------
(***************************************************************************)
(* Proofs about the loggers, the process and the TCP server, for any       *)
(* names, configurations, threads, invocations and clients.                *)
(***************************************************************************)
EXTENDS Logger, Process, TcpServer, TLAPS

-----------------------------------------------------------------------------
(* Logger *)

\* What the appenders that the listener made of a definition write is what the
\* definition says.
LEMMA WrittenBuilt ==
    ASSUME NEW default, NEW apps \in Seq(AppenderDef), NEW level
    PROVE  Written(Built(apps, default, Len(apps)), level) = DefinedOut(apps, default, level)
<1> DEFINE b == Built(apps, default, Len(apps))
<1>1. Len(apps) \in Nat
  OBVIOUS
<1>2. DOMAIN b = 1..Len(apps) /\ Len(b) = Len(apps)
  BY <1>1 DEF Built
<1>3. \A i \in 1..Len(apps) : /\ b[i].m_level = apps[i].level
                              /\ b[i].sink = Sink(apps[i].type)
                              /\ b[i].m_formatter = Formatter(PatternFor(apps[i], default))
  BY DEF Built
<1> HIDE DEF b
<1>4. {j \in 1..Len(b) : level >= b[j].m_level} = {j \in 1..Len(apps) : level >= apps[j].level}
  BY <1>2, <1>3
<1>5. Written(b, level) = DefinedOut(apps, default, level)
  BY <1>2, <1>3, <1>4 DEF Written, DefinedOut
<1> QED
  BY <1>5 DEF b

\* Appenders are made of a definition that has some.
LEMMA BuiltEmpty ==
    ASSUME NEW default, NEW apps \in Seq(AppenderDef)
    PROVE  Built(apps, default, Len(apps)) = <<>> <=> apps = <<>>
  BY DEF Built

\* An empty list of appenders writes nothing.
LEMMA NothingWritten == ASSUME NEW level PROVE Written(<<>>, level) = <<>>
  BY DEF Written
\* A definition has a level and a list of appenders.
LEMMA DefinitionTyped ==
    ASSUME NEW x \in LoggerDef
    PROVE  /\ x.level \in Int /\ UNKNOW <= x.level /\ x.level <= FATAL
           /\ x.pattern \in Seq(Symbol) /\ x.appenders \in Seq(AppenderDef)
  BY DEF LoggerDef, UNKNOW, FATAL

\* The logger that LogManager::LogManager() makes has one appender.
LEMMA RootAppender ==
    LogManager[RootName].m_appenders =
       <<[sink |-> "console", m_level |-> UNKNOW, m_formatter |-> Formatter(DefaultPattern),
          is_set_formatter |-> TRUE]>>
<1> DEFINE x == NewAppender(0, UNKNOW)
           f == Formatter(DefaultPattern)
<1>1. f # NoFormatter
  BY DEF Formatter, NoFormatter
<1> HIDE DEF f
<1>2. x.m_formatter = NoFormatter
  BY DEF NewAppender
<1>3. appenderSetFormatter(x, f) = [sink |-> "console", m_level |-> UNKNOW, m_formatter |-> f,
                                    is_set_formatter |-> TRUE]
  <2>1. x = [sink |-> "console", m_level |-> UNKNOW, m_formatter |-> NoFormatter,
             is_set_formatter |-> FALSE]
    BY DEF NewAppender, Sink
  <2> HIDE DEF x
  <2> QED
    BY <1>1, <2>1 DEF appenderSetFormatter
<1> HIDE DEF x
<1>4. NewLogger.m_formatter = f /\ NewLogger.m_appenders = <<>>
  BY DEF NewLogger, f
<1>5. addAppender(NewLogger, x).m_appenders = Append(<<>>, appenderSetFormatter(x, f))
  <2>1. "m_appenders" \in DOMAIN NewLogger
    BY DEF NewLogger
  <2> HIDE DEF NewLogger
  <2> QED
    BY <1>2, <1>4, <2>1 DEF addAppender
<1>6. Append(<<>>, appenderSetFormatter(x, f)) = <<appenderSetFormatter(x, f)>>
  OBVIOUS
<1>7. LogManager[RootName] = addAppender(NewLogger, x)
  BY DEF LogManager, x
<1> QED
  BY <1>3, <1>5, <1>6, <1>7 DEF f

\* While nothing is being reconfigured, the checks of Logger::log() come to what
\* is expected: nothing, what the appenders write, or the root logger's answer.
LEMMA CheckSound ==
    ASSUME LgTypeOK, ApplyLocals, LoggersAs, lgApply.pc = "idle",
           NEW n \in AllNames, NEW level \in LogLevels
    PROVE  LET g == getLogger(n)
           IN  /\ ~ Passes(n, level) => Expected(n, level) = <<>>
               /\ Passes(n, level) /\ g.m_appenders # <<>> =>
                     Expected(n, level) = Written(g.m_appenders, level)
               /\ Passes(n, level) /\ g.m_appenders = <<>> =>
                     Expected(n, level) = IF n = RootName THEN <<>> ELSE Expected(RootName, level)
<1> DEFINE g == getLogger(n)
           c == lgConfig[n]
           pass == level >= g.m_level
<1>1. LoggerIs(g, n, lgConfig, lgPattern[n], lgCount.ever)
  BY DEF LoggersAs, ApplyLocals, NotApplying, TargetConfig
<1>2. level \in DEBUG..FATAL /\ DOMAIN lgConfig \subseteq lgCount.ever
  BY LogAssumption DEF LgTypeOK
<1>r. RootName \in DOMAIN lgConfig =>
        (level < lgConfig[RootName].level <=> ~ (level >= lgConfig[RootName].level))
  <2> SUFFICES ASSUME RootName \in DOMAIN lgConfig
               PROVE  level < lgConfig[RootName].level <=> ~ (level >= lgConfig[RootName].level)
    OBVIOUS
  <2>1. lgConfig[RootName] \in LoggerDef
    BY DEF LgTypeOK
  <2>2. lgConfig[RootName].level \in Int
    BY <2>1, DefinitionTyped
  <2> QED
    BY <1>2, <2>2 DEF DEBUG, FATAL
<1>3. Passes(n, level) <=> pass
  BY DEF Passes
<1>4. CASE n \in DOMAIN lgConfig
  <2>1. /\ g.m_level = c.level /\ g.m_appenders = Built(c.appenders, lgPattern[n], Len(c.appenders))
        /\ c \in LoggerDef
    BY <1>1, <1>4 DEF LoggerIs, LgTypeOK
  <2>a. c.appenders \in Seq(AppenderDef) /\ c.level \in Int
    BY <2>1, DefinitionTyped
  <2>2. Written(g.m_appenders, level) = OutOf(n, level)
    BY <2>1, <2>a, WrittenBuilt DEF OutOf
  <2>3. g.m_appenders = <<>> <=> c.appenders = <<>>
    BY <2>1, <2>a, BuiltEmpty
  <2>4. g.m_appenders = <<>> => OutOf(n, level) = <<>>
    BY <2>2, NothingWritten
  <2>5. pass <=> ~ (level < c.level)
    BY <1>2, <2>1, <2>a DEF DEBUG, FATAL
  <2> HIDE DEF g, c, pass
  <2>6. ~pass => Expected(n, level) = <<>>
    BY <1>4, <2>5 DEF Expected, c
  <2>7. pass /\ c.appenders # <<>> => Expected(n, level) = OutOf(n, level)
    BY <1>4, <2>5 DEF Expected, c
  <2>8. pass /\ c.appenders = <<>> /\ n = RootName => Expected(n, level) = OutOf(n, level)
    BY <1>4, <2>5 DEF Expected, c
  <2>9. ASSUME pass, c.appenders = <<>>, n # RootName PROVE Expected(n, level) = Expected(RootName, level)
    BY <1>4, <1>r, <2>5, <2>9 DEF Expected, c
  <2> QED
    BY <1>3, <2>2, <2>3, <2>4, <2>6, <2>7, <2>8, <2>9 DEF g
<1>5. CASE n \notin DOMAIN lgConfig /\ n \in lgCount.ever
  <2>1. g.m_level = Removed /\ Expected(n, level) = <<>>
    BY <1>1, <1>5 DEF LoggerIs, Expected
  <2>2. ~ (level >= Removed)
    BY <1>2 DEF Removed, DEBUG, FATAL
  <2> QED
    BY <1>3, <2>1, <2>2
<1>6. CASE n \notin lgCount.ever
  <2>1. n \notin DOMAIN lgConfig /\ g.m_level = DEBUG
    BY <1>1, <1>2, <1>6 DEF LoggerIs
  <2>2. pass
    BY <1>2, <2>1 DEF DEBUG, FATAL
  <2>3. CASE n # RootName
    <3>1. g.m_appenders = <<>>
      BY <1>1, <1>6, <2>1, <2>3 DEF LoggerIs
    <3>3. Expected(n, level) = Expected(RootName, level)
      BY <1>6, <1>r, <2>1, <2>3 DEF Expected
    <3> QED
      BY <1>3, <2>2, <2>3, <3>1, <3>3
  <2>4. CASE n = RootName
    <3> DEFINE x == [sink |-> "console", m_level |-> UNKNOW,
                     m_formatter |-> Formatter(DefaultPattern), is_set_formatter |-> TRUE]
    <3>1. g.m_appenders = LogManager[RootName].m_appenders
      BY <1>1, <1>6, <2>1, <2>4 DEF LoggerIs
    <3>3. LogManager[RootName].m_appenders = <<x>>
      BY RootAppender
    <3>4. x.sink = "console" /\ x.m_level = UNKNOW /\ x.m_formatter = Formatter(DefaultPattern)
      OBVIOUS
    <3> HIDE DEF x
    <3>5. {j \in 1..Len(<<x>>) : level >= <<x>>[j].m_level} = {1}
      BY <1>2, <3>4 DEF DEBUG, FATAL, UNKNOW
    <3>6. Written(<<x>>, level) = [i \in {1} |-> <<"console", Formatter(DefaultPattern)>>]
      BY <3>4, <3>5 DEF Written
    <3>7. Expected(n, level) = <<<<"console", Formatter(DefaultPattern)>>>>
      BY <1>6, <2>1, <2>4 DEF Expected
    <3>8. [i \in {1} |-> <<"console", Formatter(DefaultPattern)>>]
             = <<<<"console", Formatter(DefaultPattern)>>>>
      OBVIOUS
    <3> QED
      BY <1>3, <2>2, <2>4, <3>1, <3>3, <3>6, <3>7, <3>8
  <2> QED
    BY <2>3, <2>4
<1> QED
  BY <1>4, <1>5, <1>6

-----------------------------------------------------------------------------
(* The steps of the listener *)

\* A reconfiguration overlaps every event that is under way, so nothing is
\* claimed of what those write.
LEMMA EventsOverlap ==
    ASSUME LgTypeOK, EventsAs, lgApply.pc # "idle", UNCHANGED lgEvents,
           DOMAIN lgLoggers \subseteq DOMAIN lgLoggers'
    PROVE  EventsAs' /\ LogAsConfigured'
<1>1. \A t \in LogThread : lgEvents[t].pc # "idle" => lgEvents[t].overlap
  BY DEF EventsAs
<1>2. EventsAs'
  BY <1>1 DEF EventsAs
<1>3. LogAsConfigured'
  BY <1>1 DEF LogAsConfigured
<1> QED
  BY <1>2, <1>3

\* Replacing one logger leaves the others as they are.
LEMMA WithLoggerFacts ==
    ASSUME NEW n, NEW g, lgLoggers' = WithLogger(n, g)
    PROVE  /\ DOMAIN lgLoggers' = DOMAIN lgLoggers \cup {n}
           /\ lgLoggers'[n] = g
           /\ \A m \in DOMAIN lgLoggers : m # n => lgLoggers'[m] = lgLoggers[m]
           /\ \A m : getLogger(m)' = IF m = n THEN g ELSE getLogger(m)
  BY DEF WithLogger, getLogger

\* Where the listener goes, what it keeps.
LEMMA AfterLoggerFacts ==
    ASSUME NEW a, DOMAIN a = DOMAIN NotApplying, NEW b \in AfterLogger(a)
    PROVE  /\ DOMAIN b = DOMAIN NotApplying
           /\ b.new = a.new /\ b.todo = a.todo /\ b.gone = a.gone
           /\ \/ b.pc = "level" /\ b.cur \in b.todo
              \/ b.pc = "remove" /\ b.todo = {} /\ b.cur \in b.gone
              \/ b.pc = "end" /\ b.todo = {} /\ b.gone = {}
<1>1. DOMAIN a = {"pc", "new", "todo", "gone", "cur", "at"}
  BY DEF NotApplying
<1>2. CASE a.todo # {}
  <2>1. PICK n \in a.todo : b = [a EXCEPT !.pc = "level", !.cur = n]
    BY <1>2 DEF AfterLogger
  <2> QED
    BY <1>1, <2>1
<1>3. CASE a.todo = {} /\ a.gone # {}
  <2>1. PICK n \in a.gone : b = [a EXCEPT !.pc = "remove", !.cur = n]
    BY <1>3 DEF AfterLogger
  <2> QED
    BY <1>1, <1>3, <2>1
<1>4. CASE a.todo = {} /\ a.gone = {}
  <2>1. b = [a EXCEPT !.pc = "end"]
    BY <1>4 DEF AfterLogger
  <2> QED
    BY <1>1, <1>4, <2>1
<1> QED
  BY <1>2, <1>3, <1>4

\* A new value: what it changes is to be done, and all that it does not change is
\* as it says.
LEMMA BeginApplyStep == LgInv /\ BeginApply => LgInv'
<1> SUFFICES ASSUME LgInv, BeginApply PROVE LgInv'
  OBVIOUS
<1> USE DEF LgInv
<1>1. PICK new \in LogConfigs :
         /\ lgApply.pc = "idle" /\ new # lgConfig
         /\ lgApply' \in AfterLogger([NotApplying EXCEPT !.new = new, !.todo = Changed(new), !.gone = Gone(new)])
         /\ lgEvents' = [t \in LogThread |-> [lgEvents[t] EXCEPT !.overlap = TRUE]]
         /\ lgCount' = [lgCount EXCEPT !.applied = @ + 1]
         /\ UNCHANGED <<lgLoggers, lgConfig, lgPattern>>
  BY DEF BeginApply
<1> DEFINE a == [NotApplying EXCEPT !.new = new, !.todo = Changed(new), !.gone = Gone(new)]
<1>2. DOMAIN a = DOMAIN NotApplying /\ a.new = new /\ a.todo = Changed(new) /\ a.gone = Gone(new)
  BY DEF NotApplying
<1>3. lgApply' \in AfterLogger(a)
  BY <1>1
<1> HIDE DEF a
<1>4. /\ DOMAIN lgApply' = DOMAIN NotApplying /\ lgApply'.new = new
      /\ lgApply'.todo = Changed(new) /\ lgApply'.gone = Gone(new)
      /\ \/ lgApply'.pc = "level" /\ lgApply'.cur \in lgApply'.todo
         \/ lgApply'.pc = "remove" /\ lgApply'.todo = {} /\ lgApply'.cur \in lgApply'.gone
         \/ lgApply'.pc = "end" /\ lgApply'.todo = {} /\ lgApply'.gone = {}
  BY <1>2, <1>3, AfterLoggerFacts
<1>5. lgCount' \in [applied : Nat, events : Nat, ever : SUBSET AllNames] /\ lgCount'.ever = lgCount.ever
  <2>1. lgCount \in [applied : Nat, events : Nat, ever : SUBSET AllNames]
    BY DEF LgTypeOK
  <2> QED
    BY <1>1, <2>1
<1>6. DOMAIN lgEvents' = LogThread
  BY <1>1
<1>7. \A t \in LogThread : /\ DOMAIN lgEvents'[t] = DOMAIN NoEvent
                           /\ lgEvents'[t].pc = lgEvents[t].pc /\ lgEvents'[t].overlap = TRUE
                           /\ lgEvents'[t].logger = lgEvents[t].logger
                           /\ lgEvents'[t].level = lgEvents[t].level
                           /\ lgEvents'[t].by = lgEvents[t].by
  BY <1>1 DEF LgTypeOK, NoEvent
<1>8. LgTypeOK'
  BY <1>1, <1>4, <1>5, <1>6, <1>7 DEF LgTypeOK
<1>9. ApplyLocals'
  BY <1>1, <1>4 DEF ApplyLocals, Changed, Gone
<1>10. FormatterKept'
  BY <1>1 DEF FormatterKept, getLogger
<1>11. LoggersAs'
  <2>1. ASSUME NEW n \in AllNames, n \notin Changed(new), n \notin Gone(new)
        PROVE  LoggerIs(getLogger(n), n, new, lgPattern[n], lgCount.ever)
    <3>1. LoggerIs(getLogger(n), n, lgConfig, lgPattern[n], lgCount.ever)
      BY <1>1 DEF LoggersAs, ApplyLocals, NotApplying, TargetConfig
    <3> QED
      BY <2>1, <3>1 DEF LoggerIs, Changed, Gone
  <2>2. TargetConfig' = new /\ \A n : getLogger(n)' = getLogger(n)
    BY <1>1, <1>4 DEF TargetConfig, getLogger
  <2> QED
    BY <1>1, <1>4, <1>5, <2>1, <2>2 DEF LoggersAs
<1>12. EventsAs' /\ LogAsConfigured'
  BY <1>1, <1>7 DEF EventsAs, LogAsConfigured
<1> QED
  BY <1>8, <1>9, <1>10, <1>11, <1>12

\* A level is set: the logger is made if it is not there yet.
LEMMA ApplyLevelStep == LgInv /\ ApplyLevel => LgInv'
<1> SUFFICES ASSUME LgInv, ApplyLevel PROVE LgInv'
  OBVIOUS
<1> DEFINE n == lgApply.cur
           g == getLogger(n)
           level == lgApply.new[n].level
           h == [g EXCEPT !.m_level = level]
<1>1. /\ lgApply.pc = "level" /\ lgLoggers' = WithLogger(n, h)
      /\ lgApply' = [lgApply EXCEPT !.pc = "formatter"]
      /\ UNCHANGED <<lgConfig, lgEvents, lgPattern, lgCount>>
  BY DEF ApplyLevel
<1>2. /\ n \in lgApply.todo /\ n \in DOMAIN lgApply.new /\ lgApply.new \in LogConfigs
      /\ n \in AllNames /\ lgApply.new[n] \in LoggerDef
  BY <1>1, LogAssumption DEF LgInv, ApplyLocals
<1>3. level \in UNKNOW..FATAL
  BY <1>2, DefinitionTyped DEF UNKNOW, FATAL
<1>4. DOMAIN g = DOMAIN NewLogger
  BY DEF LgInv, LgTypeOK, getLogger
<1>5. DOMAIN h = DOMAIN NewLogger /\ h.m_level = level /\ h.m_formatter = g.m_formatter
  BY <1>4 DEF NewLogger
<1> HIDE DEF n, g, h, level
<1>6. /\ DOMAIN lgLoggers' = DOMAIN lgLoggers \cup {n} /\ lgLoggers'[n] = h
      /\ \A m \in DOMAIN lgLoggers : m # n => lgLoggers'[m] = lgLoggers[m]
      /\ \A m : getLogger(m)' = IF m = n THEN h ELSE getLogger(m)
  BY <1>1, WithLoggerFacts
<1>7. /\ DOMAIN lgApply' = DOMAIN lgApply /\ lgApply'.pc = "formatter"
      /\ lgApply'.new = lgApply.new /\ lgApply'.todo = lgApply.todo /\ lgApply'.gone = lgApply.gone
      /\ lgApply'.cur = n
  BY <1>1 DEF LgInv, LgTypeOK, NotApplying, n
<1>8. LgTypeOK'
  BY <1>1, <1>2, <1>3, <1>5, <1>6, <1>7 DEF LgInv, LgTypeOK
<1>9. ApplyLocals'
  BY <1>1, <1>2, <1>7 DEF LgInv, ApplyLocals
<1>10. FormatterKept'
  BY <1>1, <1>5, <1>6 DEF LgInv, FormatterKept, g
<1>11. LoggersAs'
  <2>1. TargetConfig' = TargetConfig
    BY <1>1, <1>7 DEF TargetConfig
  <2>2. \A m \in AllNames \ (lgApply.todo \cup lgApply.gone) :
           LoggerIs(getLogger(m)', m, TargetConfig, lgPattern[m], lgCount.ever)
    BY <1>2, <1>6 DEF LgInv, LoggersAs
  <2> QED
    BY <1>1, <1>5, <1>6, <1>7, <2>1, <2>2 DEF LoggersAs, level
<1>12. EventsAs' /\ LogAsConfigured'
  BY <1>1, <1>6, EventsOverlap DEF LgInv
<1> QED
  BY <1>8, <1>9, <1>10, <1>11, <1>12 DEF LgInv

\* A pattern is set, unless there is none or it is in error.
LEMMA ApplyFormatterStep == LgInv /\ ApplyFormatter => LgInv'
<1> SUFFICES ASSUME LgInv, ApplyFormatter PROVE LgInv'
  OBVIOUS
<1> DEFINE n == lgApply.cur
           g == lgLoggers[n]
           p == lgApply.new[n].pattern
           keep == p = <<>> \/ LogFormatter(p).isError
<1>1. /\ lgApply.pc = "formatter"
      /\ lgLoggers' = IF p = <<>> THEN lgLoggers ELSE WithLogger(n, setFormatter(g, p))
      /\ lgPattern' = [lgPattern EXCEPT ![n] = IF keep THEN @ ELSE p]
      /\ lgApply' = [lgApply EXCEPT !.pc = "clear"]
      /\ UNCHANGED <<lgConfig, lgEvents, lgCount>>
  BY DEF ApplyFormatter
<1>2. /\ n \in lgApply.todo /\ n \in DOMAIN lgApply.new /\ lgApply.new \in LogConfigs
      /\ n \in AllNames /\ lgApply.new[n] \in LoggerDef /\ n \in DOMAIN lgLoggers
      /\ g.m_level = lgApply.new[n].level
  BY <1>1, LogAssumption DEF LgInv, ApplyLocals, LoggersAs
<1>3. p \in Seq(Symbol)
  BY <1>2, DefinitionTyped
<1>4. DOMAIN g = DOMAIN NewLogger /\ g.m_level \in UNKNOW..FATAL \cup {Removed}
  BY <1>2 DEF LgInv, LgTypeOK
<1>5. getLogger(n) = g /\ g.m_formatter = Formatter(lgPattern[n])
  BY <1>2 DEF LgInv, FormatterKept, getLogger
<1> DEFINE h == IF p = <<>> THEN g ELSE setFormatter(g, p)
<1>6. /\ DOMAIN h = DOMAIN NewLogger /\ h.m_level = g.m_level
      /\ h.m_formatter = IF keep THEN g.m_formatter ELSE Formatter(p)
  <2>1. CASE keep
    BY <1>4, <2>1 DEF setFormatter
  <2>2. CASE ~keep
    <3> DEFINE apps == [i \in 1..Len(g.m_appenders) |->
                           IF g.m_appenders[i].is_set_formatter THEN g.m_appenders[i]
                           ELSE appenderSetFormatter(g.m_appenders[i], Formatter(p))]
    <3>1. h = [g EXCEPT !.m_formatter = Formatter(p), !.m_appenders = apps]
      BY <2>2 DEF setFormatter
    <3>2. "m_formatter" \in DOMAIN g
      BY <1>4 DEF NewLogger
    <3> HIDE DEF apps, h, g, keep
    <3>3. DOMAIN h = DOMAIN NewLogger
      BY <1>4, <3>1
    <3>4. h.m_level = g.m_level /\ h.m_formatter = Formatter(p)
      BY <1>4, <3>1, <3>2 DEF NewLogger
    <3> QED
      BY <2>2, <3>3, <3>4
  <2> QED
    BY <2>1, <2>2
<1>7. /\ DOMAIN lgLoggers' = DOMAIN lgLoggers /\ lgLoggers'[n] = h
      /\ \A m \in DOMAIN lgLoggers : m # n => lgLoggers'[m] = lgLoggers[m]
      /\ \A m : getLogger(m)' = IF m = n THEN h ELSE getLogger(m)
  <2>1. CASE p = <<>>
    BY <1>1, <1>2, <2>1 DEF getLogger
  <2>2. CASE p # <<>>
    <3>1. lgLoggers' = WithLogger(n, h)
      BY <1>1, <2>2
    <3>2. n \in DOMAIN lgLoggers
      BY <1>2
    <3> HIDE DEF n, g, h, p, keep
    <3>3. /\ DOMAIN lgLoggers' = DOMAIN lgLoggers \cup {n} /\ lgLoggers'[n] = h
          /\ \A m \in DOMAIN lgLoggers : m # n => lgLoggers'[m] = lgLoggers[m]
          /\ \A m : getLogger(m)' = IF m = n THEN h ELSE getLogger(m)
      BY <3>1, WithLoggerFacts
    <3> QED
      BY <3>2, <3>3
  <2> QED
    BY <2>1, <2>2
<1> HIDE DEF n, g, h, p, keep
<1>8. /\ DOMAIN lgApply' = DOMAIN lgApply /\ lgApply'.pc = "clear"
      /\ lgApply'.new = lgApply.new /\ lgApply'.todo = lgApply.todo /\ lgApply'.gone = lgApply.gone
      /\ lgApply'.cur = n
  BY <1>1 DEF LgInv, LgTypeOK, NotApplying, n
<1>9. /\ lgPattern' \in [AllNames -> Seq(Symbol)]
      /\ lgPattern'[n] = IF keep THEN lgPattern[n] ELSE p
      /\ \A m \in AllNames : m # n => lgPattern'[m] = lgPattern[m]
  BY <1>1, <1>2, <1>3 DEF LgInv, LgTypeOK
<1>10. LgTypeOK'
  <2>1. /\ DOMAIN lgLoggers' \subseteq AllNames /\ RootName \in DOMAIN lgLoggers'
        /\ \A m \in DOMAIN lgLoggers' :
              /\ DOMAIN lgLoggers'[m] = DOMAIN NewLogger
              /\ lgLoggers'[m].m_level \in UNKNOW..FATAL \cup {Removed}
    <3>1. DOMAIN lgLoggers \subseteq AllNames /\ RootName \in DOMAIN lgLoggers
      BY DEF LgInv, LgTypeOK
    <3>2. ASSUME NEW m \in DOMAIN lgLoggers, m # n
          PROVE  /\ DOMAIN lgLoggers'[m] = DOMAIN NewLogger
                 /\ lgLoggers'[m].m_level \in UNKNOW..FATAL \cup {Removed}
      BY <1>7, <3>2 DEF LgInv, LgTypeOK
    <3>3. /\ DOMAIN lgLoggers'[n] = DOMAIN NewLogger
          /\ lgLoggers'[n].m_level \in UNKNOW..FATAL \cup {Removed}
      BY <1>4, <1>6, <1>7
    <3> QED
      BY <1>7, <3>1, <3>2, <3>3
  <2>2. lgApply'.pc \in {"idle", "level", "formatter", "clear", "add", "remove", "end"}
        /\ DOMAIN lgApply' = DOMAIN NotApplying
    BY <1>8 DEF LgInv, LgTypeOK
  <2>3. lgPattern' \in [AllNames -> Seq(Symbol)]
    BY <1>9
  <2>4. UNCHANGED <<lgConfig, lgEvents, lgCount>>
    BY <1>1
  <2> QED
    BY <2>1, <2>2, <2>3, <2>4 DEF LgInv, LgTypeOK
<1>11. ApplyLocals'
  BY <1>1, <1>2, <1>8 DEF LgInv, ApplyLocals
<1>12. FormatterKept'
  BY <1>5, <1>6, <1>7, <1>9 DEF LgInv, FormatterKept
<1>13. LoggersAs'
  <2>1. TargetConfig' = TargetConfig
    BY <1>1, <1>8 DEF TargetConfig
  <2>2. \A m \in AllNames \ (lgApply.todo \cup lgApply.gone) :
           LoggerIs(getLogger(m)', m, TargetConfig, lgPattern'[m], lgCount.ever)
    BY <1>2, <1>7, <1>9 DEF LgInv, LoggersAs
  <2> QED
    BY <1>1, <1>2, <1>6, <1>7, <1>8, <2>1, <2>2 DEF LoggersAs
<1>14. EventsAs' /\ LogAsConfigured'
  BY <1>1, <1>7, EventsOverlap DEF LgInv
<1> QED
  BY <1>10, <1>11, <1>12, <1>13, <1>14 DEF LgInv

\* The appenders go.
LEMMA ApplyClearStep == LgInv /\ ApplyClear => LgInv'
<1> SUFFICES ASSUME LgInv, ApplyClear PROVE LgInv'
  OBVIOUS
<1> DEFINE n == lgApply.cur
           g == lgLoggers[n]
           h == clearAppender(g)
<1>1. /\ lgApply.pc = "clear" /\ lgLoggers' = WithLogger(n, h)
      /\ lgApply' = [lgApply EXCEPT !.pc = "add", !.at = 1]
      /\ UNCHANGED <<lgConfig, lgEvents, lgPattern, lgCount>>
  BY DEF ApplyClear
<1>2. /\ n \in lgApply.todo /\ n \in DOMAIN lgApply.new /\ lgApply.new \in LogConfigs
      /\ n \in AllNames /\ lgApply.new[n] \in LoggerDef /\ n \in DOMAIN lgLoggers
      /\ g.m_level = lgApply.new[n].level
  BY <1>1, LogAssumption DEF LgInv, ApplyLocals, LoggersAs
<1>3. DOMAIN g = DOMAIN NewLogger /\ g.m_level \in UNKNOW..FATAL \cup {Removed} /\ getLogger(n) = g
  BY <1>2 DEF LgInv, LgTypeOK, getLogger
<1>4. /\ DOMAIN h = DOMAIN NewLogger /\ h.m_level = g.m_level /\ h.m_formatter = g.m_formatter
      /\ h.m_appenders = <<>>
  BY <1>3 DEF NewLogger, clearAppender
<1> HIDE DEF n, g, h
<1>5. /\ DOMAIN lgLoggers' = DOMAIN lgLoggers \cup {n} /\ lgLoggers'[n] = h
      /\ \A m \in DOMAIN lgLoggers : m # n => lgLoggers'[m] = lgLoggers[m]
      /\ \A m : getLogger(m)' = IF m = n THEN h ELSE getLogger(m)
  BY <1>1, WithLoggerFacts
<1>6. /\ DOMAIN lgApply' = DOMAIN lgApply /\ lgApply'.pc = "add" /\ lgApply'.at = 1
      /\ lgApply'.new = lgApply.new /\ lgApply'.todo = lgApply.todo /\ lgApply'.gone = lgApply.gone
      /\ lgApply'.cur = n
  BY <1>1 DEF LgInv, LgTypeOK, NotApplying, n
<1>7. LgTypeOK'
  BY <1>1, <1>2, <1>3, <1>4, <1>5, <1>6 DEF LgInv, LgTypeOK
<1>8. ApplyLocals'
  BY <1>1, <1>2, <1>6 DEF LgInv, ApplyLocals
<1>9. FormatterKept'
  BY <1>1, <1>3, <1>4, <1>5 DEF LgInv, FormatterKept
<1>10. LoggersAs'
  <2>1. TargetConfig' = TargetConfig
    BY <1>1, <1>6 DEF TargetConfig
  <2>2. \A m \in AllNames \ (lgApply.todo \cup lgApply.gone) :
           LoggerIs(getLogger(m)', m, TargetConfig, lgPattern[m], lgCount.ever)
    BY <1>2, <1>5 DEF LgInv, LoggersAs
  <2>3. lgApply.new[n].appenders \in Seq(AppenderDef)
    BY <1>2, DefinitionTyped
  <2>4. 1 \in 1..(Len(lgApply.new[n].appenders) + 1)
    BY <2>3
  <2>5. h.m_appenders = Built(lgApply.new[n].appenders, lgPattern[n], 1 - 1)
    BY <1>4 DEF Built
  <2> QED
    BY <1>1, <1>2, <1>4, <1>5, <1>6, <2>1, <2>2, <2>4, <2>5 DEF LoggersAs
<1>11. EventsAs' /\ LogAsConfigured'
  BY <1>1, <1>5, EventsOverlap DEF LgInv
<1> QED
  BY <1>7, <1>8, <1>9, <1>10, <1>11 DEF LgInv

\* addAppender() on what DefinedAppender() made is the appender that the definition
\* asks for: its own pattern, or that of the logger.
LEMMA AddedAppender ==
    ASSUME NEW g, "m_appenders" \in DOMAIN g, NEW default, g.m_formatter = Formatter(default), NEW k
    PROVE  LET x == [sink |-> Sink(k.type), m_level |-> k.level,
                     m_formatter |-> Formatter(PatternFor(k, default)), is_set_formatter |-> TRUE]
               h == addAppender(g, DefinedAppender(k))
           IN  /\ DOMAIN h = DOMAIN g /\ h.m_appenders = Append(g.m_appenders, x)
               /\ \A f \in DOMAIN g : f # "m_appenders" => h[f] = g[f]
<1> DEFINE x == [sink |-> Sink(k.type), m_level |-> k.level,
                 m_formatter |-> Formatter(PatternFor(k, default)), is_set_formatter |-> TRUE]
           d == DefinedAppender(k)
           y == IF d.m_formatter = NoFormatter THEN appenderSetFormatter(d, g.m_formatter) ELSE d
<1>1. \A p : Formatter(p) # NoFormatter
  BY DEF Formatter, NoFormatter
<1> DEFINE none == k.pattern = <<>> \/ LogFormatter(k.pattern).isError
           new  == NewAppender(k.type, k.level)
<1>2. new.sink = Sink(k.type) /\ new.m_level = k.level /\ new.m_formatter = NoFormatter
  BY DEF NewAppender
<1>3. d = IF none THEN new ELSE appenderSetFormatter(new, Formatter(k.pattern))
  BY DEF DefinedAppender
<1>4. PatternFor(k, default) = IF none THEN default ELSE k.pattern
  BY DEF PatternFor
<1> HIDE DEF none, new
<1>5. y = x
  <2>1. CASE none
    <3>1. d = new /\ y = appenderSetFormatter(new, Formatter(default))
      BY <1>2, <1>3, <2>1
    <3>2. y = [sink |-> Sink(k.type), m_level |-> k.level, m_formatter |-> Formatter(default),
               is_set_formatter |-> Formatter(default) # NoFormatter]
      BY <1>2, <3>1 DEF appenderSetFormatter
    <3>3. (Formatter(default) # NoFormatter) = TRUE
      BY <1>1
    <3> QED
      BY <1>4, <2>1, <3>2, <3>3
  <2>2. CASE ~none
    <3>1. d = [sink |-> Sink(k.type), m_level |-> k.level, m_formatter |-> Formatter(k.pattern),
               is_set_formatter |-> Formatter(k.pattern) # NoFormatter]
      BY <1>2, <1>3, <2>2 DEF appenderSetFormatter
    <3>2. d.m_formatter # NoFormatter
      BY <1>1, <3>1
    <3>3. (Formatter(k.pattern) # NoFormatter) = TRUE
      BY <1>1
    <3> QED
      BY <1>4, <2>2, <3>1, <3>2, <3>3
  <2> QED
    BY <2>1, <2>2
<1>6. addAppender(g, d) = [g EXCEPT !.m_appenders = Append(g.m_appenders, y)]
  BY DEF addAppender
<1> HIDE DEF x, y, d
<1>7. /\ DOMAIN addAppender(g, d) = DOMAIN g
      /\ addAppender(g, d).m_appenders = Append(g.m_appenders, x)
      /\ \A f \in DOMAIN g : f # "m_appenders" => addAppender(g, d)[f] = g[f]
  BY <1>5, <1>6
<1> QED
  BY <1>7 DEF x, d

\* One more appender of the definition.
LEMMA BuiltNext ==
    ASSUME NEW apps \in Seq(AppenderDef), NEW default, NEW i \in 1..Len(apps)
    PROVE  Append(Built(apps, default, i - 1),
                  [sink |-> Sink(apps[i].type), m_level |-> apps[i].level,
                   m_formatter |-> Formatter(PatternFor(apps[i], default)), is_set_formatter |-> TRUE])
           = Built(apps, default, i)
<1> DEFINE made(j) == [sink |-> Sink(apps[j].type), m_level |-> apps[j].level,
                       m_formatter |-> Formatter(PatternFor(apps[j], default)), is_set_formatter |-> TRUE]
           S == {made(j) : j \in 1..Len(apps)}
           b == Built(apps, default, i - 1)
<1>1. \A j \in 1..Len(apps) : made(j) \in S
  OBVIOUS
<1>2. i \in Nat /\ Len(apps) \in Nat /\ i - 1 \in Nat /\ i <= Len(apps) /\ 1 <= i
  OBVIOUS
<1>3. b = [j \in 1..(i - 1) |-> made(j)]
  BY DEF Built
<1>4. Built(apps, default, i) = [j \in 1..i |-> made(j)]
  BY DEF Built
<1> HIDE DEF made, S
<1>5. b \in Seq(S) /\ Len(b) = i - 1
  BY <1>1, <1>2, <1>3
<1>6. \A j \in 1..(i - 1) : b[j] = made(j)
  BY <1>3
<1> HIDE DEF b
<1>7. Append(b, made(i)) = [j \in 1..i |-> made(j)]
  <2> DEFINE c == Append(b, made(i))
  <2>1. i \in 1..Len(apps) /\ made(i) \in S
    BY <1>1
  <2>2. c \in Seq(S) /\ Len(c) = i /\ c[i] = made(i)
    BY <1>2, <1>5, <2>1
  <2>3. \A j \in 1..(i - 1) : c[j] = b[j]
    BY <1>2, <1>5, <2>1
  <2> HIDE DEF c
  <2>4. \A j \in 1..i : c[j] = made(j)
    BY <1>2, <1>6, <2>2, <2>3
  <2>5. DOMAIN c = 1..i /\ c = [j \in 1..i |-> c[j]]
    BY <1>2, <2>2
  <2>6. c = [j \in 1..i |-> made(j)]
    BY <2>4, <2>5
  <2> QED
    BY <2>6 DEF c
<1> QED
  BY <1>4, <1>7 DEF made, b

\* Appenders are added one by one; behind the last the definition is done.
LEMMA ApplyAddStep == LgInv /\ ApplyAdd => LgInv'
<1> SUFFICES ASSUME LgInv, ApplyAdd PROVE LgInv'
  OBVIOUS
<1> DEFINE n == lgApply.cur
           g == lgLoggers[n]
           apps == lgApply.new[n].appenders
<1>1. lgApply.pc = "add" /\ UNCHANGED <<lgConfig, lgEvents, lgPattern, lgCount>>
  BY DEF ApplyAdd
<1>2. /\ n \in lgApply.todo /\ n \in DOMAIN lgApply.new /\ lgApply.new \in LogConfigs
      /\ n \in AllNames /\ lgApply.new[n] \in LoggerDef /\ n \in DOMAIN lgLoggers
      /\ g.m_level = lgApply.new[n].level /\ lgApply.at \in 1..(Len(apps) + 1)
      /\ g.m_appenders = Built(apps, lgPattern[n], lgApply.at - 1)
  BY <1>1, LogAssumption DEF LgInv, ApplyLocals, LoggersAs
<1>3. apps \in Seq(AppenderDef)
  BY <1>2, DefinitionTyped
<1>4. /\ DOMAIN g = DOMAIN NewLogger /\ g.m_level \in UNKNOW..FATAL \cup {Removed}
      /\ getLogger(n) = g /\ g.m_formatter = Formatter(lgPattern[n])
  BY <1>2 DEF LgInv, LgTypeOK, FormatterKept, getLogger
<1>5. CASE lgApply.at > Len(apps)
  <2> DEFINE a == [lgApply EXCEPT !.todo = @ \ {n}]
  <2>1. lgApply' \in AfterLogger(a) /\ UNCHANGED lgLoggers
    BY <1>5 DEF ApplyAdd
  <2>2. /\ DOMAIN a = DOMAIN NotApplying /\ a.new = lgApply.new
        /\ a.todo = lgApply.todo \ {n} /\ a.gone = lgApply.gone
    BY DEF LgInv, LgTypeOK, NotApplying
  <2> HIDE DEF a, n, g, apps
  <2>3. /\ DOMAIN lgApply' = DOMAIN NotApplying /\ lgApply'.new = lgApply.new
        /\ lgApply'.todo = lgApply.todo \ {n} /\ lgApply'.gone = lgApply.gone
        /\ \/ lgApply'.pc = "level" /\ lgApply'.cur \in lgApply'.todo
           \/ lgApply'.pc = "remove" /\ lgApply'.todo = {} /\ lgApply'.cur \in lgApply'.gone
           \/ lgApply'.pc = "end" /\ lgApply'.todo = {} /\ lgApply'.gone = {}
    BY <2>1, <2>2, AfterLoggerFacts
  <2>4. LgTypeOK'
    BY <1>1, <2>1, <2>3 DEF LgInv, LgTypeOK
  <2>5. ApplyLocals'
    BY <1>1, <2>3 DEF LgInv, ApplyLocals
  <2>6. FormatterKept'
    BY <1>1, <2>1 DEF LgInv, FormatterKept, getLogger
  <2>7. LoggersAs'
    <3>1. TargetConfig' = lgApply.new /\ TargetConfig = lgApply.new
      BY <1>1, <2>3 DEF TargetConfig
    <3>2. lgApply.at - 1 = Len(apps)
      BY <1>2, <1>3, <1>5
    <3>3. LoggerIs(g, n, lgApply.new, lgPattern[n], lgCount.ever)
      BY <1>2, <3>2 DEF LoggerIs, apps
    <3>4. \A m \in AllNames \ (lgApply'.todo \cup lgApply'.gone) :
             LoggerIs(getLogger(m), m, lgApply.new, lgPattern[m], lgCount.ever)
      BY <1>4, <2>3, <3>1, <3>3 DEF LgInv, LoggersAs
    <3>5. \A m : getLogger(m)' = getLogger(m)
      BY <2>1 DEF getLogger
    <3> QED
      BY <1>1, <2>3, <3>1, <3>4, <3>5 DEF LoggersAs
  <2>8. EventsAs' /\ LogAsConfigured'
    BY <1>1, <2>1, EventsOverlap DEF LgInv
  <2> QED
    BY <2>4, <2>5, <2>6, <2>7, <2>8 DEF LgInv
<1>6. CASE ~ (lgApply.at > Len(apps))
  <2> DEFINE k == apps[lgApply.at]
             h == addAppender(g, DefinedAppender(k))
             x == [sink |-> Sink(k.type), m_level |-> k.level,
                   m_formatter |-> Formatter(PatternFor(k, lgPattern[n])), is_set_formatter |-> TRUE]
  <2>1. /\ lgLoggers' = WithLogger(n, h)
        /\ lgApply' = [lgApply EXCEPT !.at = @ + 1]
    BY <1>6 DEF ApplyAdd
  <2>2. lgApply.at \in 1..Len(apps)
    BY <1>2, <1>3, <1>6
  <2>3. "m_appenders" \in DOMAIN g /\ DOMAIN g = {"m_level", "m_formatter", "m_appenders"}
    BY <1>4 DEF NewLogger
  <2>4. /\ DOMAIN h = DOMAIN g /\ h.m_appenders = Append(g.m_appenders, x)
        /\ \A f \in DOMAIN g : f # "m_appenders" => h[f] = g[f]
    <3> HIDE DEF g, k, n
    <3> QED
      BY <1>4, <2>3, AddedAppender
  <2>5. h.m_level = g.m_level /\ h.m_formatter = g.m_formatter
    <3> HIDE DEF h, g
    <3> QED
      BY <2>3, <2>4
  <2>6. h.m_appenders = Built(apps, lgPattern[n], lgApply.at)
    <3> HIDE DEF h, g, n, apps
    <3> QED
      BY <1>2, <1>3, <2>2, <2>4, BuiltNext
  <2> HIDE DEF n, g, h, x, k, apps
  <2>7. /\ DOMAIN lgLoggers' = DOMAIN lgLoggers \cup {n} /\ lgLoggers'[n] = h
        /\ \A m \in DOMAIN lgLoggers : m # n => lgLoggers'[m] = lgLoggers[m]
        /\ \A m : getLogger(m)' = IF m = n THEN h ELSE getLogger(m)
    BY <2>1, WithLoggerFacts
  <2>8. /\ DOMAIN lgApply' = DOMAIN lgApply /\ lgApply'.pc = "add" /\ lgApply'.at = lgApply.at + 1
        /\ lgApply'.new = lgApply.new /\ lgApply'.todo = lgApply.todo /\ lgApply'.gone = lgApply.gone
        /\ lgApply'.cur = n
    BY <1>1, <2>1 DEF LgInv, LgTypeOK, NotApplying, n
  <2>9. LgTypeOK'
    BY <1>1, <1>2, <1>4, <2>4, <2>5, <2>7, <2>8 DEF LgInv, LgTypeOK
  <2>10. ApplyLocals'
    BY <1>1, <1>2, <2>8 DEF LgInv, ApplyLocals
  <2>11. FormatterKept'
    BY <1>1, <1>4, <2>5, <2>7 DEF LgInv, FormatterKept
  <2>12. LoggersAs'
    <3>1. TargetConfig' = TargetConfig
      BY <1>1, <2>8 DEF TargetConfig
    <3>2. \A m \in AllNames \ (lgApply.todo \cup lgApply.gone) :
             LoggerIs(getLogger(m)', m, TargetConfig, lgPattern[m], lgCount.ever)
      BY <1>2, <2>7 DEF LgInv, LoggersAs
    <3>3. lgApply.at + 1 \in 1..(Len(apps) + 1) /\ (lgApply.at + 1) - 1 = lgApply.at
      BY <1>3, <2>2
    <3> QED
      BY <1>1, <1>2, <2>5, <2>6, <2>7, <2>8, <3>1, <3>2, <3>3 DEF LoggersAs, apps
  <2>13. EventsAs' /\ LogAsConfigured'
    BY <1>1, <2>7, EventsOverlap DEF LgInv
  <2> QED
    BY <2>9, <2>10, <2>11, <2>12, <2>13 DEF LgInv
<1> QED
  BY <1>5, <1>6

\* A logger that is no longer defined falls silent.
LEMMA ApplyRemoveStep == LgInv /\ ApplyRemove => LgInv'
<1> SUFFICES ASSUME LgInv, ApplyRemove PROVE LgInv'
  OBVIOUS
<1> DEFINE n == lgApply.cur
           g == getLogger(n)
           h == Silenced(g)
           a == [lgApply EXCEPT !.gone = @ \ {n}]
<1>1. /\ lgApply.pc = "remove" /\ lgLoggers' = WithLogger(n, h) /\ lgApply' \in AfterLogger(a)
      /\ UNCHANGED <<lgConfig, lgEvents, lgPattern, lgCount>>
  BY DEF ApplyRemove
<1>2. /\ lgApply.todo = {} /\ n \in lgApply.gone /\ n \in DOMAIN lgConfig
      /\ n \notin DOMAIN lgApply.new /\ n \in lgCount.ever /\ n \in AllNames
  BY <1>1 DEF LgInv, ApplyLocals, LgTypeOK
<1>3. DOMAIN g = {"m_level", "m_formatter", "m_appenders"}
  BY DEF LgInv, LgTypeOK, getLogger, NewLogger
<1>4. /\ DOMAIN h = DOMAIN NewLogger /\ h.m_level = Removed /\ h.m_formatter = g.m_formatter
      /\ h.m_appenders = <<>>
  <2> HIDE DEF g
  <2> QED
    BY <1>3 DEF Silenced, clearAppender, NewLogger
<1>5. /\ DOMAIN a = DOMAIN NotApplying /\ a.new = lgApply.new
      /\ a.todo = {} /\ a.gone = lgApply.gone \ {n}
  BY <1>2 DEF LgInv, LgTypeOK, NotApplying
<1> HIDE DEF n, g, h, a
<1>6. /\ DOMAIN lgLoggers' = DOMAIN lgLoggers \cup {n} /\ lgLoggers'[n] = h
      /\ \A m \in DOMAIN lgLoggers : m # n => lgLoggers'[m] = lgLoggers[m]
      /\ \A m : getLogger(m)' = IF m = n THEN h ELSE getLogger(m)
  BY <1>1, WithLoggerFacts
<1>7. /\ DOMAIN lgApply' = DOMAIN NotApplying /\ lgApply'.new = lgApply.new
      /\ lgApply'.todo = {} /\ lgApply'.gone = lgApply.gone \ {n}
      /\ \/ lgApply'.pc = "remove" /\ lgApply'.cur \in lgApply'.gone
         \/ lgApply'.pc = "end" /\ lgApply'.gone = {}
  BY <1>1, <1>5, AfterLoggerFacts
<1>8. LgTypeOK'
  BY <1>1, <1>2, <1>4, <1>6, <1>7 DEF LgInv, LgTypeOK
<1>9. ApplyLocals'
  BY <1>1, <1>7 DEF LgInv, ApplyLocals
<1>10. FormatterKept'
  BY <1>1, <1>4, <1>6 DEF LgInv, FormatterKept, g
<1>11. LoggersAs'
  <2>1. TargetConfig' = lgApply.new /\ TargetConfig = lgApply.new
    BY <1>1, <1>7 DEF TargetConfig
  <2>2. LoggerIs(h, n, lgApply.new, lgPattern[n], lgCount.ever)
    BY <1>2, <1>4 DEF LoggerIs
  <2>3. \A m \in AllNames \ (lgApply'.todo \cup lgApply'.gone) :
           LoggerIs(getLogger(m)', m, lgApply.new, lgPattern[m], lgCount.ever)
    BY <1>2, <1>6, <1>7, <2>1, <2>2 DEF LgInv, LoggersAs
  <2> QED
    BY <1>1, <1>7, <2>1, <2>3 DEF LoggersAs
<1>12. EventsAs' /\ LogAsConfigured'
  BY <1>1, <1>6, EventsOverlap DEF LgInv
<1> QED
  BY <1>8, <1>9, <1>10, <1>11, <1>12 DEF LgInv

\* setValue() assigns the new value: every logger is as it says.
LEMMA EndApplyStep == LgInv /\ EndApply => LgInv'
<1> SUFFICES ASSUME LgInv, EndApply PROVE LgInv'
  OBVIOUS
<1> DEFINE new == lgApply.new
<1>1. /\ lgApply.pc = "end" /\ lgConfig' = new /\ lgApply' = NotApplying
      /\ lgCount' = [lgCount EXCEPT !.ever = @ \cup DOMAIN new]
      /\ UNCHANGED <<lgLoggers, lgEvents, lgPattern>>
  BY DEF EndApply
<1>2. /\ new \in LogConfigs /\ lgApply.todo = {} /\ lgApply.gone = {}
      /\ DOMAIN new \subseteq AllNames /\ \A n \in DOMAIN new : new[n] \in LoggerDef
  BY <1>1, LogAssumption DEF LgInv, ApplyLocals
<1>3. /\ lgCount' \in [applied : Nat, events : Nat, ever : SUBSET AllNames]
      /\ lgCount'.ever = lgCount.ever \cup DOMAIN new
  <2>1. lgCount \in [applied : Nat, events : Nat, ever : SUBSET AllNames]
    BY DEF LgInv, LgTypeOK
  <2> QED
    BY <1>1, <1>2, <2>1
<1>4. lgApply'.pc = "idle" /\ lgApply'.todo = {} /\ lgApply'.gone = {}
  BY <1>1 DEF NotApplying
<1> HIDE DEF new
<1>5. LgTypeOK'
  BY <1>1, <1>2, <1>3, <1>4 DEF LgInv, LgTypeOK
<1>6. ApplyLocals'
  BY <1>1, <1>4 DEF ApplyLocals
<1>7. FormatterKept'
  BY <1>1 DEF LgInv, FormatterKept, getLogger
<1>8. LoggersAs'
  <2>1. \A n : getLogger(n)' = getLogger(n)
    BY <1>1 DEF getLogger
  <2>2. ASSUME NEW n \in AllNames
        PROVE  LoggerIs(getLogger(n), n, new, lgPattern[n], lgCount'.ever)
    <3>1. LoggerIs(getLogger(n), n, new, lgPattern[n], lgCount.ever)
      BY <1>1, <1>2 DEF LgInv, LoggersAs, TargetConfig, new
    <3> QED
      BY <1>3, <3>1 DEF LoggerIs
  <2>3. TargetConfig' = new
    BY <1>1, <1>4 DEF TargetConfig
  <2> QED
    BY <1>1, <1>4, <2>1, <2>2, <2>3 DEF LoggersAs
<1>9. EventsAs' /\ LogAsConfigured'
  BY <1>1, EventsOverlap DEF LgInv
<1> QED
  BY <1>5, <1>6, <1>7, <1>8, <1>9 DEF LgInv

-----------------------------------------------------------------------------
(* The steps of a thread that logs *)

\* An event that was checked against logger m is on its way to what is expected
\* of m; so it is for the logger it was logged with.
LEMMA CheckedEvent ==
    ASSUME LgInv, NEW e, DOMAIN e = DOMAIN NoEvent, NEW m \in AllNames,
           e.logger \in AllNames, e.level \in LogLevels, e.overlap \in BOOLEAN,
           ~e.overlap => /\ lgApply.pc = "idle" /\ e.out = <<>>
                         /\ Expected(e.logger, e.level) = Expected(m, e.level),
           m = RootName \/ m = e.logger
    PROVE  LET c == CheckFor(e, m)
           IN  /\ DOMAIN c = DOMAIN NoEvent /\ c.pc \in {"root", "emit", "done"}
               /\ c.overlap = e.overlap /\ c.logger = e.logger /\ c.level = e.level
               /\ c.pc = "root" => c.logger # RootName
               /\ c.pc = "emit" => c.by = m
               /\ c.pc = "root" /\ ~c.overlap =>
                     c.out = <<>> /\ Expected(c.logger, c.level) = Expected(RootName, c.level)
               /\ c.pc = "emit" /\ ~c.overlap =>
                     Expected(c.logger, c.level) = Written(getLogger(m).m_appenders, c.level)
               /\ c.pc = "done" /\ ~c.overlap => c.out = Expected(c.logger, c.level)
<1> DEFINE c == CheckFor(e, m)
           apps == getLogger(m).m_appenders
           passes == Passes(m, e.level)
<1>0. DOMAIN e = {"pc", "logger", "by", "level", "out", "overlap"}
  BY DEF NoEvent
<1>1. c = IF ~passes THEN [e EXCEPT !.pc = "done"]
          ELSE IF apps # <<>> THEN [e EXCEPT !.pc = "emit", !.by = m]
          ELSE IF m # RootName THEN [e EXCEPT !.pc = "root"] ELSE [e EXCEPT !.pc = "done"]
  BY DEF CheckFor
<1>2. ~e.overlap =>
        /\ ~passes => Expected(m, e.level) = <<>>
        /\ passes /\ apps # <<>> => Expected(m, e.level) = Written(apps, e.level)
        /\ passes /\ apps = <<>> =>
              Expected(m, e.level) = IF m = RootName THEN <<>> ELSE Expected(RootName, e.level)
  BY CheckSound DEF LgInv
<1> HIDE DEF c, apps, passes
<1>3. /\ DOMAIN c = DOMAIN e /\ c.overlap = e.overlap /\ c.logger = e.logger
      /\ c.level = e.level /\ c.out = e.out
      /\ \/ ~passes /\ c.pc = "done"
         \/ passes /\ apps # <<>> /\ c.pc = "emit" /\ c.by = m
         \/ passes /\ apps = <<>> /\ m # RootName /\ c.pc = "root"
         \/ passes /\ apps = <<>> /\ m = RootName /\ c.pc = "done"
  <2>1. CASE ~passes
    BY <1>0, <1>1, <2>1
  <2>2. CASE passes /\ apps # <<>>
    <3>1. c = [e EXCEPT !.pc = "emit", !.by = m]
      BY <1>1, <2>2
    <3> QED
      BY <1>0, <2>2, <3>1
  <2>3. CASE passes /\ apps = <<>>
    BY <1>0, <1>1, <2>3
  <2> QED
    BY <2>1, <2>2, <2>3
<1>4. /\ DOMAIN c = DOMAIN NoEvent /\ c.pc \in {"root", "emit", "done"}
      /\ c.overlap = e.overlap /\ c.logger = e.logger /\ c.level = e.level
      /\ c.pc = "root" => c.logger # RootName
      /\ c.pc = "emit" => c.by = m
  BY <1>3
<1>5. /\ c.pc = "root" /\ ~c.overlap =>
            c.out = <<>> /\ Expected(c.logger, c.level) = Expected(RootName, c.level)
      /\ c.pc = "emit" /\ ~c.overlap => Expected(c.logger, c.level) = Written(apps, c.level)
      /\ c.pc = "done" /\ ~c.overlap => c.out = Expected(c.logger, c.level)
  BY <1>2, <1>3
<1> QED
  BY <1>4, <1>5 DEF c, apps

\* A step that changes one thread's event, and no logger but by making one, keeps
\* what holds of the configuration and of the other threads.
LEMMA LogStepKeeps ==
    ASSUME LgInv, NEW t \in LogThread, NEW e,
           lgEvents' = [lgEvents EXCEPT ![t] = e],
           DOMAIN lgLoggers' \subseteq AllNames, DOMAIN lgLoggers \subseteq DOMAIN lgLoggers',
           \A m : getLogger(m)' = getLogger(m),
           lgCount' \in [applied : Nat, events : Nat, ever : SUBSET AllNames],
           lgCount'.ever = lgCount.ever, UNCHANGED <<lgConfig, lgApply, lgPattern>>,
           DOMAIN e = DOMAIN NoEvent, e.pc \in {"root", "emit", "done"}, e.overlap \in BOOLEAN,
           ~e.overlap => lgApply.pc = "idle",
           e.logger \in AllNames, e.level \in LogLevels,
           e.pc = "root" => e.logger # RootName,
           e.pc = "emit" => e.by \in DOMAIN lgLoggers',
           e.pc = "root" /\ ~e.overlap =>
               e.out = <<>> /\ Expected(e.logger, e.level) = Expected(RootName, e.level),
           e.pc = "emit" /\ ~e.overlap =>
               Expected(e.logger, e.level) = Written(getLogger(e.by).m_appenders, e.level),
           e.pc = "done" /\ ~e.overlap => e.out = Expected(e.logger, e.level)
    PROVE  LgInv'
<1>1. \A n \in DOMAIN lgLoggers' : lgLoggers'[n] = getLogger(n)
  BY DEF getLogger
<1>2. \A n \in DOMAIN lgLoggers' :
         /\ DOMAIN lgLoggers'[n] = DOMAIN NewLogger
         /\ lgLoggers'[n].m_level \in UNKNOW..FATAL \cup {Removed}
  <2>1. NewLogger.m_level = DEBUG /\ DEBUG \in UNKNOW..FATAL
    BY DEF NewLogger, DEBUG, UNKNOW, FATAL
  <2> QED
    BY <1>1, <2>1 DEF LgInv, LgTypeOK, getLogger
<1>3. /\ DOMAIN lgEvents' = LogThread /\ lgEvents'[t] = e
      /\ \A u \in LogThread : u # t => lgEvents'[u] = lgEvents[u]
  BY DEF LgInv, LgTypeOK
<1>4. LgTypeOK'
  BY <1>2, <1>3 DEF LgInv, LgTypeOK
<1>5. ApplyLocals' /\ FormatterKept'
  BY DEF LgInv, ApplyLocals, FormatterKept
<1>6. LoggersAs'
  <2>1. TargetConfig' = TargetConfig
    BY DEF TargetConfig
  <2>2. \A n \in AllNames \ (lgApply.todo \cup lgApply.gone) :
           LoggerIs(getLogger(n)', n, TargetConfig', lgPattern'[n], lgCount'.ever)
    BY <2>1 DEF LgInv, LoggersAs
  <2>3. \A n \in DOMAIN lgLoggers : n \in DOMAIN lgLoggers' /\ lgLoggers'[n] = lgLoggers[n]
    BY <1>1 DEF getLogger
  <2> QED
    BY <2>2, <2>3 DEF LgInv, LoggersAs
<1>7. \A n, level : Expected(n, level)' = Expected(n, level)
  BY DEF Expected, OutOf
<1>8. \A n \in DOMAIN lgLoggers : n \in DOMAIN lgLoggers' /\ lgLoggers'[n] = lgLoggers[n]
  BY <1>1 DEF getLogger
<1>9. \A u \in LogThread : lgEvents'[u].pc = "emit" /\ ~lgEvents'[u].overlap =>
         Expected(lgEvents'[u].logger, lgEvents'[u].level)
            = Written(lgLoggers'[lgEvents'[u].by].m_appenders, lgEvents'[u].level)
  BY <1>1, <1>3, <1>8 DEF LgInv, EventsAs
<1>10. EventsAs'
  BY <1>3, <1>7, <1>8, <1>9 DEF LgInv, EventsAs
<1>11. LogAsConfigured'
  BY <1>3, <1>7 DEF LgInv, LogAsConfigured
<1> QED
  BY <1>4, <1>5, <1>6, <1>10, <1>11 DEF LgInv

\* A thread logs with a logger, which is made if it is not there yet.
LEMMA LogStep == ASSUME NEW t \in LogThread PROVE LgInv /\ Log(t) => LgInv'
<1> SUFFICES ASSUME LgInv, Log(t) PROVE LgInv'
  OBVIOUS
<1>1. PICK n \in AllNames, level \in LogLevels :
         /\ lgEvents' = [lgEvents EXCEPT ![t] =
               CheckFor([pc |-> "idle", logger |-> n, by |-> RootName, level |-> level, out |-> <<>>,
                         overlap |-> lgApply.pc # "idle"], n)]
         /\ lgLoggers' = WithLogger(n, getLogger(n))
         /\ lgCount' = [lgCount EXCEPT !.events = @ + 1]
         /\ UNCHANGED <<lgConfig, lgApply, lgPattern>>
  BY DEF Log
<1>0. /\ lgLoggers' = WithLogger(n, getLogger(n)) /\ lgCount' = [lgCount EXCEPT !.events = @ + 1]
      /\ UNCHANGED <<lgConfig, lgApply, lgPattern>>
  BY <1>1
<1> DEFINE e == [pc |-> "idle", logger |-> n, by |-> RootName, level |-> level, out |-> <<>>,
                 overlap |-> lgApply.pc # "idle"]
           c == CheckFor(e, e.logger)
<1>2. /\ DOMAIN e = DOMAIN NoEvent /\ e.logger = n /\ e.level = level /\ e.out = <<>>
      /\ e.overlap \in BOOLEAN /\ (~e.overlap => lgApply.pc = "idle")
  <2>1. DOMAIN e = DOMAIN NoEvent
    BY DEF NoEvent
  <2>2. e.logger = n /\ e.level = level /\ e.out = <<>>
    OBVIOUS
  <2>3. e.overlap \in BOOLEAN
    BY Zenon
  <2>4. e.overlap => lgApply.pc # "idle"
    BY Zenon
  <2>5. ~e.overlap => lgApply.pc = "idle"
    BY Zenon
  <2> QED
    BY <2>1, <2>2, <2>3, <2>5
<1> HIDE DEF e
<1>3. /\ DOMAIN e = DOMAIN NoEvent /\ e.overlap \in BOOLEAN
      /\ e.logger \in AllNames /\ e.level \in LogLevels /\ n = e.logger
      /\ ~e.overlap => /\ lgApply.pc = "idle" /\ e.out = <<>>
                       /\ Expected(e.logger, e.level) = Expected(n, e.level)
  BY <1>2
<1>4. /\ DOMAIN c = DOMAIN NoEvent /\ c.pc \in {"root", "emit", "done"}
      /\ c.overlap = e.overlap /\ c.logger = e.logger /\ c.level = e.level
      /\ c.pc = "root" => c.logger # RootName
      /\ c.pc = "emit" => c.by = e.logger
      /\ c.pc = "root" /\ ~c.overlap =>
            c.out = <<>> /\ Expected(c.logger, c.level) = Expected(RootName, c.level)
      /\ c.pc = "emit" /\ ~c.overlap =>
            Expected(c.logger, c.level) = Written(getLogger(e.logger).m_appenders, c.level)
      /\ c.pc = "done" /\ ~c.overlap => c.out = Expected(c.logger, c.level)
  BY <1>3, CheckedEvent
<1>5. lgEvents' = [lgEvents EXCEPT ![t] = c]
  BY <1>1 DEF e
<1> HIDE DEF c
<1>6. /\ DOMAIN lgLoggers' = DOMAIN lgLoggers \cup {n} /\ n \in DOMAIN lgLoggers'
      /\ \A m : getLogger(m)' = getLogger(m)
  <2> DEFINE g == getLogger(n)
  <2>1. lgLoggers' = WithLogger(n, g)
    BY <1>0
  <2> HIDE DEF g
  <2>2. /\ DOMAIN lgLoggers' = DOMAIN lgLoggers \cup {n}
        /\ \A m : getLogger(m)' = IF m = n THEN g ELSE getLogger(m)
    BY <2>1, WithLoggerFacts
  <2> QED
    BY <2>2 DEF g
<1>7. /\ lgCount' \in [applied : Nat, events : Nat, ever : SUBSET AllNames]
      /\ lgCount'.ever = lgCount.ever
  <2>1. lgCount \in [applied : Nat, events : Nat, ever : SUBSET AllNames]
    BY DEF LgInv, LgTypeOK
  <2> QED
    BY <1>0, <2>1
<1>8. DOMAIN lgLoggers' \subseteq AllNames
  BY <1>6 DEF LgInv, LgTypeOK
<1>9. c.overlap \in BOOLEAN /\ (~c.overlap => lgApply.pc = "idle")
  BY <1>2, <1>4
<1> QED
  BY <1>0, <1>3, <1>4, <1>5, <1>6, <1>7, <1>8, <1>9, LogStepKeeps

\* A logger without appenders asks the root logger.
LEMMA LogRootStep == ASSUME NEW t \in LogThread PROVE LgInv /\ LogRoot(t) => LgInv'
<1> SUFFICES ASSUME LgInv, LogRoot(t) PROVE LgInv'
  OBVIOUS
<1> DEFINE e == lgEvents[t]
           c == CheckFor(e, RootName)
<1>1. /\ e.pc = "root" /\ lgEvents' = [lgEvents EXCEPT ![t] = c]
      /\ UNCHANGED <<lgLoggers, lgConfig, lgApply, lgPattern, lgCount>>
  BY DEF LogRoot, LgInv, LgTypeOK
<1>2. /\ DOMAIN e = DOMAIN NoEvent /\ e.overlap \in BOOLEAN
      /\ e.logger \in AllNames /\ e.level \in LogLevels
      /\ ~e.overlap => /\ lgApply.pc = "idle" /\ e.out = <<>>
                       /\ Expected(e.logger, e.level) = Expected(RootName, e.level)
  BY <1>1 DEF LgInv, LgTypeOK, EventsAs
<1>3. RootName \in AllNames /\ RootName \in DOMAIN lgLoggers /\ DOMAIN lgLoggers \subseteq AllNames
  BY DEF AllNames, LgInv, LgTypeOK
<1> HIDE DEF e
<1>4. /\ DOMAIN c = DOMAIN NoEvent /\ c.pc \in {"root", "emit", "done"}
      /\ c.overlap = e.overlap /\ c.logger = e.logger /\ c.level = e.level
      /\ c.pc = "root" => c.logger # RootName
      /\ c.pc = "emit" => c.by = RootName
      /\ c.pc = "root" /\ ~c.overlap =>
            c.out = <<>> /\ Expected(c.logger, c.level) = Expected(RootName, c.level)
      /\ c.pc = "emit" /\ ~c.overlap =>
            Expected(c.logger, c.level) = Written(getLogger(RootName).m_appenders, c.level)
      /\ c.pc = "done" /\ ~c.overlap => c.out = Expected(c.logger, c.level)
  BY <1>2, <1>3, CheckedEvent
<1> HIDE DEF c
<1>5. \A m : getLogger(m)' = getLogger(m)
  BY <1>1 DEF getLogger
<1>6. lgCount' \in [applied : Nat, events : Nat, ever : SUBSET AllNames] /\ lgCount'.ever = lgCount.ever
  BY <1>1 DEF LgInv, LgTypeOK
<1> QED
  BY <1>1, <1>2, <1>3, <1>4, <1>5, <1>6, LogStepKeeps

\* The appenders write, under the logger's mutex.
LEMMA EmitStep == ASSUME NEW t \in LogThread PROVE LgInv /\ Emit(t) => LgInv'
<1> SUFFICES ASSUME LgInv, Emit(t) PROVE LgInv'
  OBVIOUS
<1> DEFINE e == lgEvents[t]
           out == Written(lgLoggers[e.by].m_appenders, e.level)
           c == [e EXCEPT !.pc = "done", !.out = out]
<1>1. /\ e.pc = "emit" /\ lgEvents' = [lgEvents EXCEPT ![t] = c]
      /\ UNCHANGED <<lgLoggers, lgConfig, lgApply, lgPattern, lgCount>>
  BY DEF Emit
<1>2. /\ DOMAIN e = DOMAIN NoEvent /\ e.overlap \in BOOLEAN
      /\ e.logger \in AllNames /\ e.level \in LogLevels
      /\ ~e.overlap => lgApply.pc = "idle" /\ out = Expected(e.logger, e.level)
  BY <1>1 DEF LgInv, LgTypeOK, EventsAs
<1>3. DOMAIN lgLoggers \subseteq AllNames
  BY DEF LgInv, LgTypeOK
<1>4. DOMAIN e = {"pc", "logger", "by", "level", "out", "overlap"}
  BY <1>2 DEF NoEvent
<1> HIDE DEF e, out
<1>5. /\ DOMAIN c = DOMAIN e /\ c.pc = "done" /\ c.out = out
      /\ c.overlap = e.overlap /\ c.logger = e.logger /\ c.level = e.level
  BY <1>4
<1> HIDE DEF c
<1>6. \A m : getLogger(m)' = getLogger(m)
  BY <1>1 DEF getLogger
<1>7. lgCount' \in [applied : Nat, events : Nat, ever : SUBSET AllNames] /\ lgCount'.ever = lgCount.ever
  BY <1>1 DEF LgInv, LgTypeOK
<1>8. /\ c.pc \in {"root", "emit", "done"} /\ c.overlap \in BOOLEAN /\ DOMAIN c = DOMAIN NoEvent
      /\ ~c.overlap => lgApply.pc = "idle" /\ c.out = Expected(c.logger, c.level)
  BY <1>2, <1>5
<1> QED
  BY <1>1, <1>2, <1>3, <1>5, <1>6, <1>7, <1>8, LogStepKeeps

-----------------------------------------------------------------------------
(* The invariant *)

\* The loggers as the first use of the LogManager makes them.
LEMMA LgStart == LgInit => LgInv
<1> SUFFICES ASSUME LgInit PROVE LgInv
  OBVIOUS
<1> DEFINE root == LogManager[RootName]
<1>1. DOMAIN LogManager = {RootName}
  BY DEF LogManager
<1>2. /\ DOMAIN root = DOMAIN NewLogger /\ root.m_level = DEBUG
      /\ root.m_formatter = Formatter(DefaultPattern)
  <2> DEFINE x == NewAppender(0, UNKNOW)
             y == IF x.m_formatter = NoFormatter THEN appenderSetFormatter(x, NewLogger.m_formatter) ELSE x
  <2>1. root = [NewLogger EXCEPT !.m_appenders = Append(@, y)]
    BY DEF LogManager, addAppender
  <2>2. DOMAIN NewLogger = {"m_level", "m_formatter", "m_appenders"} /\ NewLogger.m_level = DEBUG
        /\ NewLogger.m_formatter = Formatter(DefaultPattern)
    BY DEF NewLogger
  <2> HIDE DEF y, root
  <2> QED
    BY <2>1, <2>2
<1>3. NewLogger.m_level = DEBUG /\ NewLogger.m_formatter = Formatter(DefaultPattern)
      /\ NewLogger.m_appenders = <<>>
  BY DEF NewLogger
<1>4. DEBUG \in UNKNOW..FATAL
  BY DEF DEBUG, UNKNOW, FATAL
<1>5. /\ lgLoggers = LogManager /\ DOMAIN lgConfig = {} /\ lgApply = NotApplying
      /\ lgEvents = [t \in LogThread |-> NoEvent]
      /\ lgPattern = [n \in AllNames |-> DefaultPattern]
      /\ lgCount = [applied |-> 0, events |-> 0, ever |-> {}]
  BY DEF LgInit
<1>6. \A n : getLogger(n) = IF n = RootName THEN root ELSE NewLogger
  BY <1>1, <1>5 DEF getLogger
<1> HIDE DEF root
<1>7. /\ lgApply.pc = "idle" /\ lgApply.todo = {} /\ lgApply.gone = {}
      /\ \A t \in LogThread : lgEvents[t] = NoEvent
      /\ NoEvent.pc = "idle" /\ NoEvent.overlap \in BOOLEAN
  BY <1>5 DEF NotApplying, NoEvent
<1>8. DefaultPattern \in Seq(Symbol)
  BY DEF DefaultPattern, Symbol, Letters
<1>9. lgCount \in [applied : Nat, events : Nat, ever : SUBSET AllNames] /\ lgCount.ever = {}
  BY <1>5
<1>10. LgTypeOK
  BY <1>1, <1>2, <1>4, <1>5, <1>7, <1>8, <1>9 DEF LgTypeOK, AllNames, root
<1>11. ApplyLocals
  BY <1>5, <1>7 DEF ApplyLocals
<1>12. FormatterKept
  BY <1>2, <1>3, <1>5, <1>6 DEF FormatterKept
<1>13. LoggersAs
  <2>1. TargetConfig = lgConfig
    BY <1>7 DEF TargetConfig
  <2>2. \A n \in AllNames : LoggerIs(getLogger(n), n, lgConfig, lgPattern[n], {})
    BY <1>2, <1>3, <1>5, <1>6 DEF LoggerIs, root
  <2> QED
    BY <1>7, <1>9, <2>1, <2>2 DEF LoggersAs
<1>14. EventsAs /\ LogAsConfigured
  BY <1>7 DEF EventsAs, LogAsConfigured
<1> QED
  BY <1>10, <1>11, <1>12, <1>13, <1>14 DEF LgInv

\* Every step keeps the invariant.
LEMMA LgStep == LgInv /\ [LgNext]_lgVars => LgInv'
<1> SUFFICES ASSUME LgInv, [LgNext]_lgVars PROVE LgInv'
  OBVIOUS
<1>1. CASE UNCHANGED lgVars
  <2> USE <1>1 DEF lgVars
  <2>1. \A n : getLogger(n)' = getLogger(n)
    BY DEF getLogger
  <2>2. \A n, level : Expected(n, level)' = Expected(n, level)
    BY DEF Expected, OutOf
  <2>3. LgTypeOK' /\ ApplyLocals' /\ FormatterKept'
    BY <2>1 DEF LgInv, LgTypeOK, ApplyLocals, FormatterKept
  <2>4. LoggersAs'
    BY <2>1 DEF LgInv, LoggersAs, TargetConfig
  <2>5. EventsAs' /\ LogAsConfigured'
    BY <2>2 DEF LgInv, EventsAs, LogAsConfigured
  <2> QED
    BY <2>3, <2>4, <2>5 DEF LgInv
<1>2. CASE BeginApply \/ ApplyLevel \/ ApplyFormatter \/ ApplyClear \/ ApplyAdd \/ ApplyRemove \/ EndApply
  BY <1>2, BeginApplyStep, ApplyLevelStep, ApplyFormatterStep, ApplyClearStep, ApplyAddStep,
     ApplyRemoveStep, EndApplyStep
<1>3. ASSUME NEW t \in LogThread, Log(t) \/ LogRoot(t) \/ Emit(t) PROVE LgInv'
  BY <1>3, LogStep, LogRootStep, EmitStep
<1> QED
  BY <1>1, <1>2, <1>3 DEF LgNext

\* The loggers are at all times as the value of the variable says, in the part the
\* listener has done (Log.cpp:1176-1266).
THEOREM LgInvariant == LgSpec => []LgInv
  BY LgStart, LgStep, PTL DEF LgSpec

\* Every event that no reconfiguration overlaps is written exactly as the
\* configuration in effect says, whatever the loggers were configured as before:
\* for any names, configurations, threads and number of changes (Log.cpp:478-503).
THEOREM EventsAsConfigured == LgSpec => []LogAsConfigured
<1>1. LgInv => LogAsConfigured
  BY DEF LgInv
<1> QED
  BY <1>1, LgInvariant, PTL

-----------------------------------------------------------------------------
(* Process *)

\* Before anything is started.
LEMMA ProcessStart == ProcessInit => ProcessInv
<1> SUFFICES ASSUME ProcessInit PROVE ProcessInv
  OBVIOUS
<1>1. pidFile.kind = "absent"
  BY DEF ProcessInit, NoPid
<1> QED
  BY <1>1, ProcessAssumption
     DEF ProcessInit, ProcessInv, ProcessTypeOK, ParentsAlone, PidEnded, PortOwned, ParentPc, ServerPc

\* The steps of init(), run() and the parent that start no process.
LEMMA ParentSteps ==
    ASSUME NEW i \in Instance, ProcessInv,
           InitApp(i) \/ StartDaemon(i) \/ WaitPid(i) \/ Restart(i)
    PROVE  ProcessInv'
<1>1. UNCHANGED <<server, forks, pidFile, port, crashes>>
  BY DEF InitApp, StartDaemon, WaitPid, Restart
<1>2. PidEnded' /\ PortOwned'
  BY <1>1 DEF ProcessInv, PidEnded, PortOwned
<1>3. PICK q \in ParentPc : /\ parent' = [parent EXCEPT ![i] = q]
                            /\ q \in {"absent", "checked", "refused"} => parent[i] = "absent"
                            /\ q \in {"fork", "sleep", "forkError"} =>
                                  \/ parent[i] \in {"checked", "sleep"}
                                  \/ server[i] \in {"failed", "crashed"}
  BY DEF InitApp, StartDaemon, WaitPid, AfterChild, Restart, ParentPc
<1>4. ProcessTypeOK'
  BY <1>1, <1>3 DEF ProcessInv, ProcessTypeOK
<1>5. ParentsAlone'
  BY <1>1, <1>3 DEF ProcessInv, ProcessTypeOK, ParentsAlone
<1> QED
  BY <1>2, <1>4, <1>5 DEF ProcessInv

\* A process is started: the file still has an older pid, if any.
LEMMA ForkSteps ==
    ASSUME NEW i \in Instance, ProcessInv, StartTerminal(i) \/ Fork(i)
    PROVE  ProcessInv' /\ (forks'[i] # forks[i] => ~Running(i))
           /\ \A j \in Instance \ {i} : forks'[j] = forks[j]
<1>0. /\ parent \in [Instance -> ParentPc] /\ server \in [Instance -> ServerPc]
      /\ forks \in [Instance -> Nat]
  BY DEF ProcessInv, ProcessTypeOK
<1>1. parent[i] \in {"checked", "fork"} /\ UNCHANGED <<pidFile, port, crashes>>
  BY DEF StartTerminal, Fork
<1>2. server[i] \in {"none", "failed", "crashed"}
  BY <1>1 DEF ProcessInv, ParentsAlone
<1>3. CASE UNCHANGED <<server, forks>>
  <2>1. parent' = [parent EXCEPT ![i] = "forkError"]
    BY <1>0, <1>3 DEF StartTerminal, Fork
  <2>2. ProcessTypeOK' /\ PidEnded' /\ PortOwned'
    BY <1>1, <1>3, <2>1 DEF ProcessInv, ProcessTypeOK, PidEnded, PortOwned, ParentPc
  <2>3. ParentsAlone'
    BY <1>0, <1>2, <1>3, <2>1 DEF ProcessInv, ParentsAlone
  <2> QED
    BY <1>3, <2>2, <2>3 DEF ProcessInv
<1>4. CASE server' = [server EXCEPT ![i] = "main"] /\ forks' = [forks EXCEPT ![i] = @ + 1]
  <2>1. PICK q \in {"terminal", "wait"} : parent' = [parent EXCEPT ![i] = q]
    BY <1>0, <1>4 DEF StartTerminal, Fork
  <2>2. ProcessTypeOK'
    BY <1>0, <1>1, <1>4, <2>1 DEF ProcessInv, ProcessTypeOK, ParentPc, ServerPc
  <2>3. ParentsAlone'
    BY <1>0, <1>4, <2>1 DEF ProcessInv, ParentsAlone
  <2>4. PidEnded'
    <3> SUFFICES ASSUME pidFile.kind = "written" PROVE PidEnded'
      BY <1>1 DEF PidEnded
    <3>1. PICK j \in Instance : \E k \in 0..forks[j] :
             pidFile.pid = <<j, k>> /\ (k = forks[j] => server[j] = "finished")
      BY DEF ProcessInv, PidEnded
    <3>2. PICK k \in 0..forks[j] : pidFile.pid = <<j, k>> /\ (k = forks[j] => server[j] = "finished")
      BY <3>1
    <3>3. k \in 0..forks'[j] /\ (k = forks'[j] => server'[j] = "finished")
      BY <1>0, <1>4, <3>2
    <3> QED
      BY <1>1, <3>2, <3>3 DEF PidEnded
  <2>5. PortOwned'
    BY <1>0, <1>1, <1>2, <1>4 DEF ProcessInv, PortOwned
  <2>6. ~Running(i) /\ \A j \in Instance \ {i} : forks'[j] = forks[j]
    BY <1>0, <1>2, <1>4 DEF Running
  <2> QED
    BY <2>2, <2>3, <2>4, <2>5, <2>6 DEF ProcessInv
<1> QED
  BY <1>3, <1>4 DEF StartTerminal, Fork

\* The steps of the server process.
LEMMA ServerSteps ==
    ASSUME NEW i \in Instance, ProcessInv,
           OpenPidFile(i) \/ StartServers(i) \/ MainReturns(i) \/ CrashServer(i)
    PROVE  ProcessInv'
<1>0. /\ parent \in [Instance -> ParentPc] /\ server \in [Instance -> ServerPc]
      /\ forks \in [Instance -> Nat] /\ crashes \in 0..MaxCrashes /\ port \subseteq Instance
  BY DEF ProcessInv, ProcessTypeOK
<1>1. /\ UNCHANGED <<parent, forks>> /\ crashes' \in 0..MaxCrashes
      /\ server[i] \in {"main", "opened", "serving"}
  BY <1>0, ProcessAssumption DEF OpenPidFile, StartServers, MainReturns, CrashServer, Running
<1>2. PICK q \in ServerPc : server' = [server EXCEPT ![i] = q]
  BY DEF OpenPidFile, StartServers, MainReturns, CrashServer, ServerPc
<1>3. /\ parent[i] \notin {"absent", "checked", "refused", "fork", "sleep", "forkError"}
      /\ \A j \in Instance : j # i => server'[j] = server[j]
  BY <1>0, <1>1, <1>2 DEF ProcessInv, ParentsAlone
<1>4. ParentsAlone'
  BY <1>1, <1>3 DEF ProcessInv, ParentsAlone
<1>5. PortOwned' /\ port' \subseteq Instance
  <2>1. CASE OpenPidFile(i) \/ MainReturns(i)
    <3>1. port' = port /\ server[i] # "serving" /\ server'[i] # "serving"
      BY <1>0, <2>1 DEF OpenPidFile, MainReturns
    <3> QED
      BY <1>0, <1>3, <3>1 DEF ProcessInv, PortOwned
  <2>2. CASE StartServers(i) /\ port = {}
    <3>1. port' = {i} /\ server'[i] = "serving"
      BY <1>0, <2>2 DEF StartServers
    <3> QED
      BY <1>0, <1>3, <2>2, <3>1 DEF ProcessInv, PortOwned
  <2>3. CASE StartServers(i) /\ port # {}
    <3>1. port' = port /\ server[i] = "opened" /\ server'[i] = "finished"
      BY <1>0, <2>3 DEF StartServers
    <3> QED
      BY <1>0, <1>3, <3>1 DEF ProcessInv, PortOwned
  <2>4. CASE CrashServer(i)
    <3>1. port' = port \ {i} /\ server'[i] = "crashed"
      BY <1>0, <2>4 DEF CrashServer
    <3> QED
      BY <1>0, <1>3, <3>1 DEF ProcessInv, PortOwned
  <2> QED
    BY <2>1, <2>2, <2>3, <2>4
<1>6. PidEnded' /\ pidFile'.kind \in {"absent", "empty", "written"}
  <2>1. CASE pidFile' = pidFile
    <3>1. \A j \in Instance : server[j] = "finished" => server'[j] = "finished"
      BY <1>1, <1>3
    <3> QED
      BY <1>1, <2>1, <3>1 DEF ProcessInv, ProcessTypeOK, PidEnded
  <2>2. CASE pidFile' = [kind |-> "empty", pid |-> <<>>]
    BY <2>2 DEF PidEnded
  <2>3. CASE MainReturns(i)
    <3>1. /\ pidFile' = [kind |-> "written", pid |-> <<i, forks[i]>>] /\ server'[i] = "finished"
      BY <1>0, <2>3 DEF MainReturns
    <3>2. pidFile'.kind = "written" /\ pidFile'.pid = <<i, forks'[i]>> /\ forks'[i] \in 0..forks'[i]
      BY <1>0, <1>1, <3>1
    <3> QED
      BY <3>1, <3>2 DEF PidEnded
  <2> QED
    BY <2>1, <2>2, <2>3 DEF OpenPidFile, StartServers, MainReturns, CrashServer
<1>7. ProcessTypeOK'
  BY <1>0, <1>1, <1>2, <1>5, <1>6 DEF ProcessTypeOK
<1> QED
  BY <1>4, <1>5, <1>6, <1>7 DEF ProcessInv

\* Every step keeps the invariant, and starts no process beside another.
LEMMA ProcessStepKeeps ==
    ASSUME ProcessInv, [ProcessNext]_processVars
    PROVE  ProcessInv' /\ \A i \in Instance : forks'[i] # forks[i] => ~Running(i)
<1>1. CASE UNCHANGED processVars
  BY <1>1 DEF processVars, ProcessInv, ProcessTypeOK, ParentsAlone, PidEnded, PortOwned
<1>2. ASSUME NEW i \in Instance, StartTerminal(i) \/ Fork(i)
      PROVE  ProcessInv' /\ \A j \in Instance : forks'[j] # forks[j] => ~Running(j)
  BY <1>2, ForkSteps
<1>3. ASSUME NEW i \in Instance, InitApp(i) \/ StartDaemon(i) \/ WaitPid(i) \/ Restart(i)
      PROVE  ProcessInv' /\ forks' = forks
  BY <1>3, ParentSteps DEF InitApp, StartDaemon, WaitPid, Restart
<1>4. ASSUME NEW i \in Instance, OpenPidFile(i) \/ StartServers(i) \/ MainReturns(i) \/ CrashServer(i)
      PROVE  ProcessInv' /\ forks' = forks
  BY <1>4, ServerSteps DEF OpenPidFile, StartServers, MainReturns, CrashServer
<1> QED
  BY <1>1, <1>2, <1>3, <1>4 DEF ProcessNext

\* The port belongs to one serving process at most, and the processes are where
\* their parents believe them to be.
THEOREM ProcessInvariant == ProcessSpec => []ProcessInv
<1>1. ProcessInv /\ [ProcessNext]_processVars => ProcessInv'
  BY ProcessStepKeeps
<1> QED
  BY <1>1, ProcessStart, PTL DEF ProcessSpec

\* The pid file never keeps an instance from starting, whatever servers run
\* (application.cpp:189 "server is running!").
THEOREM PidFileRefusesNobody == ProcessSpec => []NobodyRefused
<1>1. ProcessInv => NobodyRefused
  <2> SUFFICES ASSUME ProcessInv, IsRunningPidFile PROVE FALSE
    BY DEF NobodyRefused
  <2>1. PICK i \in Instance : Running(i) /\ pidFile.pid = <<i, forks[i]>>
    BY DEF IsRunningPidFile
  <2>2. PICK j \in Instance : \E k \in 0..forks[j] :
           pidFile.pid = <<j, k>> /\ (k = forks[j] => server[j] = "finished")
    BY DEF ProcessInv, PidEnded, IsRunningPidFile
  <2>3. i = j /\ server[j] = "finished"
    BY <2>1, <2>2
  <2> QED
    BY <2>1, <2>3 DEF Running
<1> QED
  BY <1>1, ProcessInvariant, PTL

\* No instance ever has two server processes, however often they crash
\* (daemon.cpp:79-116).
THEOREM OneChildAtATime == ProcessSpec => OneChild
<1>1. ProcessInv /\ [ProcessNext]_processVars
         => [\A i \in Instance : forks'[i] # forks[i] => ~Running(i)]_processVars
  BY ProcessStepKeeps
<1> QED
  BY <1>1, ProcessInvariant, PTL DEF ProcessSpec, OneChild

-----------------------------------------------------------------------------
(* TcpServer *)

\* Before bind().
LEMMA TcpStart == TcpInit => TcpInv
  BY TcpAssumption DEF TcpInit, TcpInv, TcpTypeOK, AcceptPc, SocketsOwned, Accepting, AcceptorsRun,
     ConnectionsCounted

\* bind(), start() and stop() with its task.
LEMMA UserSteps ==
    ASSUME TcpInv, BindAll \/ StartServer \/ StopServer \/ CancelAccepts
    PROVE  TcpInv'
<1> USE DEF TcpInv
<1>0. /\ m_listenSockets \subseteq Listen /\ listening \subseteq Listen
      /\ acceptPc \in [Listen -> AcceptPc] /\ m_stopped \in BOOLEAN
  BY DEF TcpTypeOK
<1>1. UNCHANGED <<backlog, came, clients, lost>>
  BY DEF BindAll, StartServer, StopServer, CancelAccepts
<1>2. CASE BindAll
  <2>1. /\ m_listenSockets' \subseteq Listen /\ listening' = m_listenSockets'
        /\ UNCHANGED <<m_stopped, acceptPc, cancelTask>>
        /\ m_stopped /\ cancelTask = "none"
    BY <1>2 DEF BindAll
  <2>2. \A s \in Listen : acceptPc[s] = "none"
    BY <2>1 DEF AcceptorsRun
  <2>3. TcpTypeOK' /\ ConnectionsCounted'
    BY <1>1, <2>1 DEF TcpTypeOK, ConnectionsCounted
  <2>4. SocketsOwned' /\ AcceptorsRun'
    BY <2>1, <2>2 DEF SocketsOwned, AcceptorsRun, Accepting
  <2> QED
    BY <2>3, <2>4
<1>3. CASE StartServer
  <2>1. CASE ~m_stopped
    <3>1. UNCHANGED tcpVars
      BY <1>3, <2>1 DEF StartServer, tcpVars
    <3> QED
      BY <3>1 DEF tcpVars, TcpTypeOK, SocketsOwned, AcceptorsRun, ConnectionsCounted, Accepting
  <2>2. CASE m_stopped
    <3>1. /\ cancelTask = "none" /\ m_stopped' = FALSE
          /\ acceptPc' = [s \in Listen |-> IF s \in m_listenSockets THEN "queued" ELSE acceptPc[s]]
          /\ UNCHANGED <<m_listenSockets, listening, cancelTask>>
      BY <1>3, <2>2 DEF StartServer
    <3>2. \A s \in Listen : acceptPc[s] = "none"
      BY <2>2, <3>1 DEF AcceptorsRun
    <3>3. TcpTypeOK' /\ ConnectionsCounted'
      BY <1>0, <1>1, <3>1, <3>2 DEF TcpTypeOK, ConnectionsCounted, AcceptPc
    <3>4. SocketsOwned' /\ AcceptorsRun'
      BY <1>0, <3>1, <3>2 DEF SocketsOwned, AcceptorsRun, Accepting
    <3> QED
      BY <3>3, <3>4
  <2> QED
    BY <2>1, <2>2
<1>4. CASE StopServer
  <2>1. /\ m_stopped' = TRUE /\ UNCHANGED <<m_listenSockets, listening, acceptPc>>
        /\ cancelTask' = IF m_stopped THEN cancelTask ELSE "queued"
    BY <1>0, <1>4 DEF StopServer
  <2>2. TcpTypeOK' /\ ConnectionsCounted'
    BY <1>1, <2>1 DEF TcpTypeOK, ConnectionsCounted
  <2>3. SocketsOwned' /\ AcceptorsRun'
    BY <2>1 DEF SocketsOwned, AcceptorsRun, Accepting
  <2> QED
    BY <2>2, <2>3
<1>5. CASE CancelAccepts
  <2>1. /\ cancelTask = "queued" /\ cancelTask' = "done" /\ m_listenSockets' = {}
        /\ acceptPc' = [s \in Listen |->
               IF s \in m_listenSockets /\ acceptPc[s] = "held" THEN "accept" ELSE acceptPc[s]]
        /\ listening' = {s \in listening : acceptPc[s] \notin {"none", "ended"}}
        /\ UNCHANGED m_stopped
    BY <1>5 DEF CancelAccepts
  <2>2. \A s \in Listen : /\ acceptPc'[s] \in AcceptPc /\ (acceptPc'[s] = "got" <=> acceptPc[s] = "got")
                          /\ acceptPc'[s] \in {"none", "ended"} <=> acceptPc[s] \in {"none", "ended"}
    BY <1>0, <2>1 DEF AcceptPc
  <2>3. TcpTypeOK' /\ ConnectionsCounted'
    BY <1>0, <1>1, <2>1, <2>2 DEF TcpTypeOK, ConnectionsCounted
  <2>4. SocketsOwned' /\ AcceptorsRun'
    BY <1>0, <2>1, <2>2 DEF SocketsOwned, AcceptorsRun, Accepting
  <2> QED
    BY <2>3, <2>4
<1> QED
  BY <1>2, <1>3, <1>4, <1>5

\* The accept coroutine of a socket.
LEMMA AcceptorSteps ==
    ASSUME TcpInv, NEW s \in Listen, ServerStep(s)
    PROVE  TcpInv'
<1> USE DEF TcpInv
<1>0. /\ m_listenSockets \subseteq Listen /\ listening \subseteq Listen
      /\ acceptPc \in [Listen -> AcceptPc] /\ m_stopped \in BOOLEAN
      /\ backlog \in [Listen -> 0..MaxClients] /\ came \in [Listen -> 0..MaxClients]
      /\ clients \in [Listen -> 0..MaxClients] /\ lost \in [Listen -> 0..MaxClients]
      /\ MaxClients \in Nat
  BY TcpAssumption DEF TcpTypeOK
<1>1. Accepting(s) /\ UNCHANGED <<m_listenSockets, m_stopped, cancelTask, came>>
  BY DEF ServerStep, AcceptLoop, TryAccept, AcceptError, AcceptReady, ScheduleClient, Accepting
<1>2. CASE acceptPc' = [acceptPc EXCEPT ![s] = "ended"]
  <2>1. /\ AcceptLoop(s) /\ LoopTest(s) = "ended" /\ m_stopped
    BY <1>0, <1>2 DEF ServerStep, AcceptLoop, TryAccept, AcceptError, AcceptReady, ScheduleClient,
       LoopTest, AcceptPc
  <2>2. /\ listening' = IF s \in m_listenSockets THEN listening ELSE listening \ {s}
        /\ UNCHANGED <<backlog, clients, lost>> /\ acceptPc[s] # "got"
    BY <2>1 DEF AcceptLoop, Leave
  <2>3. \A u \in Listen : acceptPc'[u] = IF u = s THEN "ended" ELSE acceptPc[u]
    BY <1>0, <1>2
  <2>4. TcpTypeOK' /\ ConnectionsCounted'
    BY <1>0, <1>1, <1>2, <2>2, <2>3 DEF TcpTypeOK, ConnectionsCounted, AcceptPc
  <2>5. SocketsOwned' /\ AcceptorsRun'
    BY <1>0, <1>1, <2>1, <2>2, <2>3 DEF SocketsOwned, AcceptorsRun, Accepting
  <2> QED
    BY <2>4, <2>5
<1>3. CASE acceptPc' # [acceptPc EXCEPT ![s] = "ended"]
  <2> DEFINE q == acceptPc'[s]
  <2>1. /\ acceptPc' \in [Listen -> AcceptPc] /\ q \notin {"none", "ended"} /\ UNCHANGED listening
        /\ backlog' \in [Listen -> Int] /\ clients' \in [Listen -> Int] /\ lost' \in [Listen -> Int]
        /\ \A u \in Listen : u # s => /\ acceptPc'[u] = acceptPc[u] /\ backlog'[u] = backlog[u]
                                      /\ clients'[u] = clients[u] /\ lost'[u] = lost[u]
        /\ 0 <= backlog'[s] /\ backlog'[s] <= backlog[s]
        /\ clients[s] <= clients'[s] /\ lost[s] <= lost'[s]
        /\ backlog'[s] + clients'[s] + lost'[s] + (IF q = "got" THEN 1 ELSE 0)
              = backlog[s] + clients[s] + lost[s] + (IF acceptPc[s] = "got" THEN 1 ELSE 0)
    <3>1. CASE AcceptLoop(s)
      <4>1. /\ acceptPc' = [acceptPc EXCEPT ![s] = "accept"] /\ UNCHANGED listening
            /\ UNCHANGED <<backlog, clients, lost>> /\ acceptPc[s] # "got"
        BY <1>3, <3>1 DEF AcceptLoop, Leave
      <4> QED
        BY <1>0, <4>1 DEF AcceptPc
    <3>2. CASE TryAccept(s)
      BY <1>0, <3>2 DEF TryAccept, AcceptPc
    <3>3. CASE AcceptError(s) \/ AcceptReady(s)
      BY <1>0, <3>3 DEF AcceptError, AcceptReady, AcceptPc
    <3>4. CASE ScheduleClient(s)
      <4>1. /\ acceptPc[s] = "got" /\ acceptPc' = [acceptPc EXCEPT ![s] = "test"] /\ UNCHANGED listening
            /\ UNCHANGED <<backlog, lost>> /\ clients' = [clients EXCEPT ![s] = @ + 1]
        BY <3>4 DEF ScheduleClient
      <4> QED
        BY <1>0, <4>1 DEF AcceptPc
    <3> QED
      BY <3>1, <3>2, <3>3, <3>4 DEF ServerStep
  <2>2. \A u \in Listen : /\ acceptPc'[u] = IF u = s THEN q ELSE acceptPc[u]
                          /\ u # s => /\ backlog'[u] = backlog[u] /\ clients'[u] = clients[u]
                                      /\ lost'[u] = lost[u]
    BY <1>0, <2>1
  <2>3. ConnectionsCounted'
    <3> SUFFICES ASSUME NEW u \in Listen
                 PROVE  (backlog[u] + clients[u] + lost[u] + (IF acceptPc[u] = "got" THEN 1 ELSE 0) = came[u])'
      BY DEF ConnectionsCounted
    <3>1. backlog[u] + clients[u] + lost[u] + (IF acceptPc[u] = "got" THEN 1 ELSE 0) = came[u] /\ came'[u] = came[u]
      BY <1>1 DEF ConnectionsCounted
    <3>2. CASE u = s
      BY <1>0, <2>1, <2>2, <3>1, <3>2
    <3>3. CASE u # s
      BY <2>2, <3>1, <3>3
    <3> QED
      BY <3>2, <3>3
  <2>4. clients'[s] \in 0..MaxClients /\ backlog'[s] \in 0..MaxClients /\ lost'[s] \in 0..MaxClients
    <3>1. backlog'[s] + clients'[s] + lost'[s] + (IF q = "got" THEN 1 ELSE 0) = came[s]
      BY <1>1, <2>2, <2>3 DEF ConnectionsCounted
    <3> QED
      BY <1>0, <2>1, <3>1
  <2>5. TcpTypeOK'
    <3>1. /\ backlog' \in [Listen -> 0..MaxClients] /\ clients' \in [Listen -> 0..MaxClients]
          /\ lost' \in [Listen -> 0..MaxClients]
      BY <1>0, <2>1, <2>4
    <3> QED
      BY <1>0, <1>1, <2>1, <3>1 DEF TcpTypeOK
  <2>6. SocketsOwned' /\ AcceptorsRun'
    BY <1>0, <1>1, <2>1, <2>2 DEF SocketsOwned, AcceptorsRun, Accepting
  <2> QED
    BY <2>3, <2>5, <2>6
<1> QED
  BY <1>2, <1>3

\* Somebody connects.
LEMMA ClientSteps ==
    ASSUME TcpInv, NEW s \in Listen, ClientComes(s)
    PROVE  TcpInv'
<1> USE DEF TcpInv
<1>0. /\ acceptPc \in [Listen -> AcceptPc] /\ MaxClients \in Nat
      /\ backlog \in [Listen -> 0..MaxClients] /\ came \in [Listen -> 0..MaxClients]
      /\ clients \in [Listen -> 0..MaxClients] /\ lost \in [Listen -> 0..MaxClients]
  BY TcpAssumption DEF TcpTypeOK
<1>1. /\ came[s] < MaxClients /\ came' = [came EXCEPT ![s] = @ + 1]
      /\ backlog' = [backlog EXCEPT ![s] = @ + 1]
      /\ UNCHANGED <<m_listenSockets, m_stopped, listening, acceptPc, cancelTask, clients, lost>>
  BY DEF ClientComes
<1>2. ConnectionsCounted'
  BY <1>0, <1>1 DEF ConnectionsCounted
<1>3. backlog[s] + 1 \in 0..MaxClients
  <2>1. backlog[s] + clients[s] + lost[s] + (IF acceptPc[s] = "got" THEN 1 ELSE 0) = came[s]
    BY DEF ConnectionsCounted
  <2> QED
    BY <1>0, <1>1, <2>1
<1>4. TcpTypeOK'
  BY <1>0, <1>1, <1>3 DEF TcpTypeOK
<1>5. SocketsOwned' /\ AcceptorsRun'
  BY <1>1 DEF SocketsOwned, AcceptorsRun, Accepting
<1> QED
  BY <1>2, <1>4, <1>5

\* The sockets have owners, and no connection is dropped or handed out twice: at all
\* times each waits, is in hand, has a task, or was answered with an error by accept().
THEOREM TcpInvariant == TcpSpec => []TcpInv
<1>1. TcpInv /\ UNCHANGED tcpVars => TcpInv'
  BY DEF tcpVars, TcpInv, TcpTypeOK, SocketsOwned, AcceptorsRun, ConnectionsCounted, Accepting
<1>2. TcpInv /\ [TcpNext]_tcpVars => TcpInv'
  BY <1>1, UserSteps, AcceptorSteps, ClientSteps DEF TcpNext
<1> QED
  BY <1>2, TcpStart, PTL DEF TcpSpec

\* accept() is never called on a closed socket and no socket is left open behind
\* stop(), for any addresses and clients (tcp_server.cpp:128-175).
THEOREM AcceptsOnOpenSockets == TcpSpec => []AcceptsOnOpen
<1>1. TcpInv => AcceptsOnOpen
  BY DEF TcpInv, TcpTypeOK, SocketsOwned, AcceptorsRun, AcceptsOnOpen, Accepting
<1> QED
  BY <1>1, TcpInvariant, PTL

=============================================================================
