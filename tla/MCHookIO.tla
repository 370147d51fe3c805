------------------------------- MODULE MCHookIO -------------------------------
(* Small instances of HookIO for TLC.                                      *)
EXTENDS HookIO, TLC

CONSTANTS f1, f2

TwoFibers   == {f1, f2}
OneFd       == {1}
TwoFds      == {1, 2}
OneThread   == {1}
OneOrTwo    == {1, 2}
AllKinds    == {"read", "accept", "connect", "sleep"}
ServerKinds == {"accept", "sleep"}
AllOps      == {"cancel", "timeout", "fcntl", "ioctl", "unhooked"}
TimeoutOnly == {"timeout"}

FiberSymmetry == Permutations({f1, f2})
=============================================================================
