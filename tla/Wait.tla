--------------------------------- MODULE Wait ---------------------------------
(***************************************************************************)
(* What a call that may wait promises the fiber that makes it, whatever    *)
(* timers, events and other threads do: it parks only while it is in the   *)
(* call, every park is ended by one wake-up, it goes on only when it was   *)
(* woken, and it reports a timeout only when its own time was up.          *)
(***************************************************************************)
CONSTANT Fibers

VARIABLES
    status,   \* "out", "busy", "parked", "woken"
    timeUp,   \* the time of the call in progress has run out
    result    \* how the last call ended

vars == <<status, timeUp, result>>

Results == {"none", "ok", "error", "timedout"}

Init ==
    /\ status = [f \in Fibers |-> "out"]
    /\ timeUp = [f \in Fibers |-> FALSE]
    /\ result = [f \in Fibers |-> "none"]

Moves(f, from, to) == status[f] \in from /\ status' = [status EXCEPT ![f] = to]

Begin(f) ==
    /\ Moves(f, {"out"}, "busy")
    /\ timeUp' = [timeUp EXCEPT ![f] = FALSE]
    /\ UNCHANGED result

\* A sleep parks at once.
Doze(f) ==
    /\ Moves(f, {"out"}, "parked")
    /\ timeUp' = [timeUp EXCEPT ![f] = FALSE]
    /\ UNCHANGED result

Park(f) == Moves(f, {"busy"}, "parked") /\ UNCHANGED <<timeUp, result>>

\* One step may wake several fibers, never one twice.
Wake(F) ==
    /\ F # {} /\ \A f \in F : status[f] = "parked"
    /\ status' = [f \in Fibers |-> IF f \in F THEN "woken" ELSE status[f]]
    /\ UNCHANGED <<timeUp, result>>

GoOn(f) == Moves(f, {"woken"}, "busy") /\ UNCHANGED <<timeUp, result>>

RunOut(f) ==
    /\ status[f] # "out"
    /\ timeUp' = [timeUp EXCEPT ![f] = TRUE]
    /\ UNCHANGED <<status, result>>

End(f, r) ==
    /\ Moves(f, {"busy", "woken"}, "out")
    /\ r = "timedout" => timeUp[f]
    /\ result' = [result EXCEPT ![f] = r]
    /\ UNCHANGED timeUp

\* A call that has nothing to wait for is over at once.
Pass(f, r) ==
    /\ status[f] = "out" /\ r # "timedout"
    /\ result' = [result EXCEPT ![f] = r]
    /\ UNCHANGED <<status, timeUp>>

Next ==
    \/ \E f \in Fibers : \/ Begin(f) \/ Doze(f) \/ Park(f) \/ GoOn(f) \/ RunOut(f)
                         \/ \E r \in Results : End(f, r) \/ Pass(f, r)
    \/ \E F \in SUBSET Fibers : Wake(F)

Spec == Init /\ [][Next]_vars
=============================================================================
