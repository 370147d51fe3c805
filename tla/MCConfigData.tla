------------------------------ MODULE MCConfigData ------------------------------
EXTENDS ConfigData

RootAndSystem == <<"root", "system">>
Settings(level, appender) == [level |-> level, appender |-> appender]
RootOnly == [name \in {"root"} |-> Settings("DEBUG", "file")]
SystemOnly == [name \in {"system"} |-> Settings("DEBUG", "other_file")]
Both == [name \in {"root", "system"} |->
            IF name = "root" THEN Settings("ERROR", "other_file") ELSE Settings("DEBUG", "other_file")]
AddedAndRemoved == {NoData, RootOnly, SystemOnly, Both}
=============================================================================
