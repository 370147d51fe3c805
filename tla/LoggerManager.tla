----------------------------- MODULE LoggerManager -----------------------------
(***************************************************************************)
(* The loggers of log/logger.cpp: objects with a level and appenders, and  *)
(* the map of the manager from names to objects.  Every call locks the     *)
(* spin lock of the manager or of one logger and is a step of its own.     *)
(***************************************************************************)
EXTENDS Integers, Sequences

CONSTANTS
    LoggerOrder,    \* the names of loggers, in the order of std::set
    Levels,         \* the levels, DEBUG among them
    Appenders       \* the appenders a configuration may name

DEBUG == "DEBUG"
Stdout == "stdout"                      \* the appender of a logger nobody configured
LoggerNames == {LoggerOrder[i] : i \in DOMAIN LoggerOrder}

ASSUME LoggerAssumption ==
    /\ LoggerOrder \in Seq(STRING) /\ \A i, j \in DOMAIN LoggerOrder : LoggerOrder[i] = LoggerOrder[j] => i = j
    /\ DEBUG \in Levels /\ "root" \in LoggerNames

VARIABLE
    log     \* heap: the loggers that were made; map: the place of each name's logger, or 0

Logger(name, level, appenders) == [name |-> name, level |-> level, appenders |-> appenders]

LoggerInit ==
    log = [heap |-> <<Logger("root", DEBUG, <<Stdout>>)>>,
           map |-> [name \in LoggerNames |-> IF name = "root" THEN 1 ELSE 0]]

\* std::make_shared<Logger>(): the new logger is the last of the heap.
Made(l, name, level) == [l EXCEPT !.heap = Append(@, Logger(name, level, <<>>))]
Last(l) == Len(l.heap)

clearAppenders(l, o) == [l EXCEPT !.heap[o].appenders = <<>>]
addAppender(l, o, a) == [l EXCEPT !.heap[o].appenders = Append(@, a)]
setLogger(l, name, o) == [l EXCEPT !.map[name] = o]

\* getLogger(name, true): what it leaves; the logger is the one of the name.
getLogger(l, name) ==
    IF l.map[name] # 0 THEN l
    ELSE LET made == Made(l, name, DEBUG) IN
         setLogger(addAppender(made, Last(made), Stdout), name, Last(made))

\* LON_LOG_NAME(name) of a thread that wants to log.
UseLogger == \E name \in LoggerNames : log' = getLogger(log, name)
=============================================================================
