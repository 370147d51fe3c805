-------------------------------- MODULE Fiber --------------------------------
(***************************************************************************)
(* The state machine of lon::fiber::Fiber (fiber/fiber.h, fiber/fiber.cpp) *)
(* as constant operators: the states, and which of them each member        *)
(* function accepts.  A member function that throws is described by the    *)
(* predicate of the states in which it throws; the ucontext calls, which   *)
(* only fail for lack of memory, are taken to succeed.                     *)
(***************************************************************************)

\* Fiber::State.
FiberStates == {"ERROR", "INIT", "HOLD", "EXEC", "TERM", "READY"}

\* The states mainFunc leaves behind: m_cb returned or let an exception out.
Finished(state) == state \in {"TERM", "ERROR"}

\* Fiber::swapIn refuses a fiber that is already executing.
SwapInThrows(state) == state = "EXEC"

\* Fiber::reset: the condition as it is written, "not TERM, not INIT, and
\* ERROR", which accepts a fiber that is held, ready or even executing.
ResetThrows(state) == state # "TERM" /\ state # "INIT" /\ state = "ERROR"

=============================================================================
