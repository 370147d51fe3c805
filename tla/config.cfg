CONSTANTS
    LoggerOrder <- RootAndSystem
    Levels = {"DEBUG", "ERROR"}
    Appenders = {"file", "other_file"}
    Threads = {t1, t2}
    Inputs <- AddedAndRemoved
    Keys = {0, 1}
    Names = {"logs", "port"}
    Types = {"set", "int"}
    MaxCalls = 3
SPECIFICATION Spec
CHECK_DEADLOCK FALSE
INVARIANT LoggersFollow
PROPERTY SetReturns
