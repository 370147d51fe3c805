-------------------------------- MODULE MCUri --------------------------------
(***************************************************************************)
(* Small instance of Uri and Address for TLC.  A behavior parses one input *)
(* or, independent of it, makes one call of a function of Address.         *)
(***************************************************************************)
EXTENDS Uri, Address

Parse == call = NoCall /\ Next /\ UNCHANGED call

NetInit == Init /\ call \in {NoCall, Pending}
NetNext ==
    \/ Parse
    \/ (CallParse /\ UNCHANGED vars) \/ (CallInsert /\ UNCHANGED vars)
    \/ (CallPrefix4 /\ UNCHANGED vars) \/ (CallPrefix6 /\ UNCHANGED vars)

NetSpec == NetInit /\ [][NetNext]_<<vars, call>>
=============================================================================
