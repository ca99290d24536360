------------------------------- MODULE Config -------------------------------
(***************************************************************************)
(* Configuration (config.h, config.cpp): the registered variables with     *)
(* their listeners, and threads that load the files of a directory while   *)
(* an administrator edits them.                                            *)
(*                                                                         *)
(* A file's text is a list of <<name, value>> nodes, as ListAllMember()    *)
(* makes it, or is not valid YAML; the value BadValue cannot be converted  *)
(* to the variable's type.                                                 *)
(***************************************************************************)
EXTENDS Integers, Sequences, FiniteSets, SequencesExt

CONSTANTS
    CfgLoader,     \* threads that call LoadFromConfigDir()
    CfgFiles,      \* the sequence of files, in the order they are listed
    CfgTexts,      \* the texts: [ok |-> well-formed, nodes |-> sequence]
    CfgNames,      \* names of variables
    CfgListener,   \* the callbacks of addListener()
    BadValue,      \* a text that is no value
    CfgMaxEdits,   \* bound: edits
    CfgMaxScans    \* bound: calls of LoadFromConfigDir()

File == Range(CfgFiles)
CfgNode == UNION {Range(text.nodes) : text \in CfgTexts}
CfgText == [ok : BOOLEAN, nodes : Seq(CfgNode)]
CfgVal  == {0} \cup {node[2] : node \in CfgNode}

ASSUME CfgAssumption ==
    /\ CfgMaxEdits \in Nat /\ CfgMaxScans \in Nat
    /\ CfgFiles \in Seq(File) /\ CfgFiles # <<>>
    /\ CfgTexts \subseteq CfgText

VARIABLES
    cfgDatas,      \* GetDatas(): name -> [m_val, m_cbs]
    cfgDisk,       \* file -> [mtime, text, exists]
    cfgTimes,      \* s_file2modify_time; 0 when there is no entry
    cfgLoading,    \* loader -> where it is
    cfgTold,       \* listener -> the last new value it was called with
    cfgClock,      \* the second of the last edit
    cfgScans,      \* calls so far
    cfgHistory     \* what happened that the properties exclude

cfgVars == <<cfgDatas, cfgDisk, cfgTimes, cfgLoading, cfgTold, cfgClock, cfgScans, cfgHistory>>

\* A loader: files still to do, the file at hand with the time lstat() gave,
\* the nodes still to do and the assignment setValue() is about to make.
CfgIdle == [pc |-> "idle", files |-> <<>>, mtime |-> 0, nodes |-> <<>>]

CfgLoad == [pc : {"idle", "stat", "mark", "load", "set", "assign"},
            files : Seq(File), mtime : 0..cfgClock, nodes : Seq(CfgNode)]

CfgTypeOK ==
    /\ DOMAIN cfgDatas \subseteq CfgNames
    /\ cfgDatas \in [DOMAIN cfgDatas -> [m_val : CfgVal, m_cbs : SUBSET CfgListener]]
    /\ cfgDisk \in [File -> [mtime : 1..cfgClock, text : CfgText, exists : BOOLEAN]]
    /\ cfgTimes \in [File -> 0..cfgClock]
    /\ cfgLoading \in [CfgLoader -> CfgLoad]
    /\ cfgTold \in [CfgListener -> CfgVal]
    /\ cfgClock \in Nat \ {0} /\ cfgScans \in Nat
    /\ cfgHistory \in [overlap : BOOLEAN, sameSecond : BOOLEAN, late : BOOLEAN, edits : Nat]

CfgInit ==
    /\ cfgDatas = [n \in {} |-> 0]
    /\ cfgDisk = [f \in File |-> [mtime |-> 1, text |-> [ok |-> TRUE, nodes |-> <<>>], exists |-> TRUE]]
    /\ cfgTimes = [f \in File |-> 0]
    /\ cfgLoading = [l \in CfgLoader |-> CfgIdle]
    /\ cfgTold = [c \in CfgListener |-> 0]
    /\ cfgClock = 1 /\ cfgScans = 0
    /\ cfgHistory = [overlap |-> FALSE, sameSecond |-> FALSE, late |-> FALSE, edits |-> 0]

-----------------------------------------------------------------------------
(* The variables.                                                          *)

\* Config::LookUp(): a variable is created with its default value 0.
LookUp == \E n \in CfgNames :
    /\ n \notin DOMAIN cfgDatas
    /\ cfgDatas' = [x \in DOMAIN cfgDatas \cup {n} |->
                       IF x = n THEN [m_val |-> 0, m_cbs |-> {}] ELSE cfgDatas[x]]
    /\ cfgHistory' = [cfgHistory EXCEPT !.late = @ \/ cfgScans > 0]
    /\ UNCHANGED <<cfgDisk, cfgTimes, cfgLoading, cfgTold, cfgClock, cfgScans>>

\* A listener is added by somebody who has read the value.
addListener == \E n \in DOMAIN cfgDatas, c \in CfgListener :
    /\ \A x \in DOMAIN cfgDatas : c \notin cfgDatas[x].m_cbs
    /\ cfgDatas' = [cfgDatas EXCEPT ![n].m_cbs = @ \cup {c}]
    /\ cfgTold' = [cfgTold EXCEPT ![c] = cfgDatas[n].m_val]
    /\ cfgHistory' = [cfgHistory EXCEPT !.late = @ \/ cfgScans > 0]
    /\ UNCHANGED <<cfgDisk, cfgTimes, cfgLoading, cfgClock, cfgScans>>

delListener == \E n \in DOMAIN cfgDatas : \E c \in cfgDatas[n].m_cbs :
    /\ cfgDatas' = [cfgDatas EXCEPT ![n].m_cbs = @ \ {c}]
    /\ UNCHANGED <<cfgDisk, cfgTimes, cfgLoading, cfgTold, cfgClock, cfgScans, cfgHistory>>

-----------------------------------------------------------------------------
(* LoadFromConfigDir().                                                    *)

ListAllFile(l) ==
    /\ cfgLoading[l].pc = "idle" /\ cfgScans < CfgMaxScans
    /\ cfgLoading' = [cfgLoading EXCEPT ![l] = [CfgIdle EXCEPT !.pc = "stat", !.files = CfgFiles]]
    /\ cfgScans' = cfgScans + 1
    /\ UNCHANGED <<cfgDatas, cfgDisk, cfgTimes, cfgTold, cfgClock, cfgHistory>>

NextFile(s) == IF Len(s.files) > 1 THEN [CfgIdle EXCEPT !.pc = "stat", !.files = Tail(s.files)] ELSE CfgIdle

\* lstat(): an error ends the call, whatever files are left.
LstatFile(l) ==
    LET s == cfgLoading[l]  f == Head(s.files)
    IN  /\ s.pc = "stat"
        /\ cfgLoading' = [cfgLoading EXCEPT ![l] =
              IF cfgDisk[f].exists THEN [s EXCEPT !.pc = "mark", !.mtime = cfgDisk[f].mtime] ELSE CfgIdle]
        /\ UNCHANGED <<cfgDatas, cfgDisk, cfgTimes, cfgTold, cfgClock, cfgScans, cfgHistory>>

\* Under s_mutex: the file is skipped when its time, in seconds, is the one seen
\* last; otherwise the time is recorded before the file is read.
Unchanged(f, mtime) == cfgTimes[f] = mtime
MarkFile(l) ==
    LET s == cfgLoading[l]  f == Head(s.files)
    IN  /\ s.pc = "mark"
        /\ IF Unchanged(f, s.mtime)
           THEN cfgLoading' = [cfgLoading EXCEPT ![l] = NextFile(s)] /\ UNCHANGED cfgTimes
           ELSE /\ cfgLoading' = [cfgLoading EXCEPT ![l].pc = "load"]
                /\ cfgTimes' = [cfgTimes EXCEPT ![f] = s.mtime]
        /\ UNCHANGED <<cfgDatas, cfgDisk, cfgTold, cfgClock, cfgScans, cfgHistory>>

\* YAML::LoadFile() and ListAllMember(): a file that cannot be opened or parsed,
\* or that has an illegal name, is given up as a whole.
LoadFile(l) ==
    LET s == cfgLoading[l]  d == cfgDisk[Head(s.files)]
    IN  /\ s.pc = "load"
        /\ cfgLoading' = [cfgLoading EXCEPT ![l] =
              IF d.exists /\ d.text.ok THEN [s EXCEPT !.pc = "set", !.nodes = d.text.nodes] ELSE NextFile(s)]
        /\ UNCHANGED <<cfgDatas, cfgDisk, cfgTimes, cfgTold, cfgClock, cfgScans, cfgHistory>>

\* Faulty variant of Notify: the callbacks get the old value.
NotifyOld(n, val) == [c \in CfgListener |-> IF c \in cfgDatas[n].m_cbs THEN cfgDatas[n].m_val ELSE cfgTold[c]]
\* setValue() under the read lock: the callbacks are called with the new value.
Notify(n, val) == [c \in CfgListener |-> IF c \in cfgDatas[n].m_cbs THEN val ELSE cfgTold[c]]

\* LoadFromYaml(), one node: LookUpBase(), fromString(), and setValue() up to the
\* end of the read lock.  A node nobody registered, a value that cannot be
\* converted and one that is no news change nothing.
SetNode(l) ==
    LET s == cfgLoading[l]
        n == Head(s.nodes)[1]
        v == Head(s.nodes)[2]
        news == s.nodes # <<>> /\ n \in DOMAIN cfgDatas /\ v # BadValue /\ v # cfgDatas[n].m_val
    IN  /\ s.pc = "set"
        /\ cfgLoading' = [cfgLoading EXCEPT ![l] =
              IF s.nodes = <<>> THEN NextFile(s)
              ELSE IF news THEN [s EXCEPT !.pc = "assign"] ELSE [s EXCEPT !.nodes = Tail(@)]]
        /\ cfgTold' = IF news THEN Notify(n, v) ELSE cfgTold
        /\ UNCHANGED <<cfgDatas, cfgDisk, cfgTimes, cfgClock, cfgScans>>
        /\ cfgHistory' = [cfgHistory EXCEPT !.overlap = @ \/
              \E k \in CfgLoader \ {l} : cfgLoading[k].pc \in {"load", "set", "assign"}]

\* setValue() under the write lock.
AssignValue(l) ==
    LET s == cfgLoading[l]
    IN  /\ s.pc = "assign"
        /\ cfgDatas' = [cfgDatas EXCEPT ![Head(s.nodes)[1]].m_val = Head(s.nodes)[2]]
        /\ cfgLoading' = [cfgLoading EXCEPT ![l] = [s EXCEPT !.pc = "set", !.nodes = Tail(@)]]
        /\ UNCHANGED <<cfgDisk, cfgTimes, cfgTold, cfgClock, cfgScans, cfgHistory>>

-----------------------------------------------------------------------------
(* The administrator: a file is written, in a new second or in the same    *)
(* second as the edit before, or is removed.                               *)

EditFile == \E f \in File, text \in CfgTexts, tick \in 0..1 :
    /\ cfgHistory.edits < CfgMaxEdits
    /\ cfgClock' = cfgClock + tick
    /\ cfgDisk' = [cfgDisk EXCEPT ![f] = [mtime |-> cfgClock + tick, text |-> text, exists |-> TRUE]]
    /\ cfgHistory' = [cfgHistory EXCEPT !.edits = @ + 1, !.sameSecond = @ \/ cfgDisk[f].mtime = cfgClock + tick]
    /\ UNCHANGED <<cfgDatas, cfgTimes, cfgLoading, cfgTold, cfgScans>>

RemoveFile == \E f \in File :
    /\ cfgDisk[f].exists /\ cfgHistory.edits < CfgMaxEdits
    /\ cfgDisk' = [cfgDisk EXCEPT ![f].exists = FALSE]
    /\ cfgHistory' = [cfgHistory EXCEPT !.edits = @ + 1]
    /\ UNCHANGED <<cfgDatas, cfgTimes, cfgLoading, cfgTold, cfgClock, cfgScans>>

CfgNext ==
    \/ LookUp \/ addListener \/ delListener \/ EditFile \/ RemoveFile
    \/ \E l \in CfgLoader :
          ListAllFile(l) \/ LstatFile(l) \/ MarkFile(l) \/ LoadFile(l) \/ SetNode(l) \/ AssignValue(l)

CfgSpec == CfgInit /\ [][CfgNext]_cfgVars

-----------------------------------------------------------------------------
(* The properties.                                                         *)

\* What a file says of a variable: the last node that can be converted.
Said(text, n) == {i \in 1..Len(text.nodes) : text.nodes[i][1] = n /\ text.nodes[i][2] # BadValue}

\* When nothing is being loaded, the listeners were told the value the variable
\* has, and a file whose time is the recorded one has its values in effect
\* (config.h:489-510, config.cpp:129-184).  This is so unless two loaders were at
\* work at once, a variable or a listener was added after the first load, or a
\* file was written twice within a second, none of which the code can tell.
ConfigInEffect ==
    ~cfgHistory.overlap /\ ~cfgHistory.late /\ (\A l \in CfgLoader : cfgLoading[l].pc = "idle") =>
        /\ \A n \in DOMAIN cfgDatas : \A c \in cfgDatas[n].m_cbs : cfgTold[c] = cfgDatas[n].m_val
        /\ ~cfgHistory.sameSecond /\ Len(CfgFiles) = 1 =>
             \A f \in File, n \in DOMAIN cfgDatas :
                cfgDisk[f].exists /\ cfgDisk[f].text.ok /\ cfgTimes[f] = cfgDisk[f].mtime
                  /\ Said(cfgDisk[f].text, n) # {} =>
                    cfgDatas[n].m_val =
                        cfgDisk[f].text.nodes[CHOOSE i \in Said(cfgDisk[f].text, n) :
                                                \A j \in Said(cfgDisk[f].text, n) : j <= i][2]

\* The files of the directory are loaded when they were modified (config.cpp:145
\* "只有当配置文件真的发生修改才去加载这个文件"): once every loader is done, no
\* recorded time hides a text that is not in effect.
ConfigFresh ==
    (\A l \in CfgLoader : cfgLoading[l].pc = "idle") /\ Len(CfgFiles) = 1 =>
        \A f \in File, n \in DOMAIN cfgDatas :
            cfgDisk[f].exists /\ cfgDisk[f].text.ok /\ cfgTimes[f] = cfgDisk[f].mtime
              /\ Cardinality(Said(cfgDisk[f].text, n)) = 1 =>
                \E i \in Said(cfgDisk[f].text, n) : cfgDatas[n].m_val = cfgDisk[f].text.nodes[i][2]

-----------------------------------------------------------------------------
(* The inductive invariant behind ConfigInEffect.                          *)

\* What a loader has in hand where it is.
InHand(s) ==
    /\ s.pc # "idle" => s.files # <<>> /\ cfgScans > 0
    /\ s.pc = "assign" => /\ s.nodes # <<>> /\ Head(s.nodes)[1] \in DOMAIN cfgDatas
                          /\ Head(s.nodes)[2] # BadValue
    /\ s.pc # "idle" /\ Len(CfgFiles) = 1 => s.files = CfgFiles

\* Nothing is recorded before the first call, and the clock is the time of the edits.
LoaderOK ==
    /\ \A l \in CfgLoader : InHand(cfgLoading[l])
    /\ cfgScans = 0 => \A f \in File : cfgTimes[f] = 0
    /\ Len(CfgFiles) = 1 => \A f \in File : cfgDisk[f].mtime = cfgClock

\* A callback is registered with one variable.
OneVariable == \A n, m \in DOMAIN cfgDatas :
    n # m => cfgDatas[n].m_cbs \cap cfgDatas[m].m_cbs = {}

Alone == ~cfgHistory.overlap /\ ~cfgHistory.late

OneAssigns == \A k, l \in CfgLoader :
    cfgLoading[k].pc = "assign" /\ cfgLoading[l].pc = "assign" => k = l

\* The listeners know the value in effect, or the one about to be assigned.
Told ==
    /\ \A l \in CfgLoader : cfgLoading[l].pc = "assign" =>
          LET node == Head(cfgLoading[l].nodes)
          IN  \A c \in cfgDatas[node[1]].m_cbs : cfgTold[c] = node[2]
    /\ \A n \in DOMAIN cfgDatas :
          (\A l \in CfgLoader : cfgLoading[l].pc = "assign" => Head(cfgLoading[l].nodes)[1] # n)
            => \A c \in cfgDatas[n].m_cbs : cfgTold[c] = cfgDatas[n].m_val

\* The first m nodes of a text are in effect: each variable has the last value they give.
InEffect(text, m) == \A n \in DOMAIN cfgDatas : \A i \in Said(text, n) :
    i <= m /\ (\A j \in Said(text, n) : j <= m => j <= i) => cfgDatas[n].m_val = text.nodes[i][2]

\* A loader is at work on this text; what it has done is in effect, and will stay so.
Done(l, text) == Len(text.nodes) - Len(cfgLoading[l].nodes)
AtWork(l, text) ==
    LET s == cfgLoading[l]  done == Done(l, text)
    IN  /\ s.pc \in {"set", "assign"} /\ done >= 0
        /\ \A j \in 1..Len(s.nodes) : s.nodes[j] = text.nodes[done + j]
        /\ \/ done = 0
           \/ /\ InEffect(text, done)
              /\ \A k \in CfgLoader \ {l} : cfgLoading[k].pc # "assign"

\* A text whose time is recorded is going to be read, is being applied, or is in effect.
Applied(f) ==
    LET d == cfgDisk[f]
    IN  d.exists /\ d.text.ok /\ cfgTimes[f] = d.mtime =>
          \/ \E l \in CfgLoader : cfgLoading[l].pc = "load"
          \/ \E l \in CfgLoader : AtWork(l, d.text)
          \/ /\ InEffect(d.text, Len(d.text.nodes))
             /\ \A l \in CfgLoader : cfgLoading[l].pc \notin {"set", "assign"}

EffectInv ==
    /\ Alone => OneAssigns /\ Told
    /\ Alone /\ ~cfgHistory.sameSecond /\ Len(CfgFiles) = 1 => \A f \in File : Applied(f)

CfgInv == CfgTypeOK /\ LoaderOK /\ OneVariable /\ EffectInv

=============================================================================
