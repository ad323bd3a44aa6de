---------------------------- MODULE MCEventLoop ----------------------------
(* The instances of EventLoop that TLC checks: EventLoopProofs, so that the    *)
(* assumption the proofs use is evaluated on the constants of the runs.        *)
EXTENDS EventLoopProofs
=============================================================================
