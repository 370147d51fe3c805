--------------------------------- MODULE Config ---------------------------------
(***************************************************************************)
(* The registry of config/config.h: the items of the configuration by      *)
(* name, behind a lock that callers take for reading or for writing.       *)
(***************************************************************************)
EXTENDS Integers

CONSTANTS
    Names,         \* the names of items in lower case, "logs" among them
    Types,         \* the types of an item
    MaxCalls       \* bound: calls that register an item or set its value

\* The item "logs" is a set.
ASSUME ConfigAssumption == "logs" \in Names /\ "set" \in Types /\ MaxCalls \in Nat

VARIABLES
    datas,         \* s_datas: the type of the item of each name, or NoItem
    registering,   \* the call that has the write lock of the registry, or None
    calls          \* how many calls were made

registry == <<datas, registering, calls>>

NoItem == "none"
None == [name |-> "none", type |-> "none"]

\* GlobalConfig calls "logs" before main().
RegistryInit ==
    /\ datas = [n \in Names |-> IF n = "logs" THEN "set" ELSE NoItem]
    /\ registering = None /\ calls = 0

\* setData<T>() and setData(ptr) have the write lock.  A name that is no name
\* is refused and changes nothing.
Register ==
    /\ registering = None /\ calls < MaxCalls
    /\ \E n \in Names, type \in Types : registering' = [name |-> n, type |-> type]
    /\ calls' = calls + 1
    /\ UNCHANGED datas

\* An item that exists is kept, and returned if it has the type.
Insert ==
    /\ registering # None
    /\ LET r == registering
       IN datas' = [datas EXCEPT ![r.name] = IF @ = NoItem THEN r.type ELSE @]
    /\ registering' = None
    /\ UNCHANGED calls
=============================================================================
