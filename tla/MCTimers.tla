------------------------------ MODULE MCTimers ------------------------------
(* The call bracket on small instances.                                    *)
EXTENDS Timers, TLC

CONSTANT sb

\* Both switches either way.
AnyPolicy == [billHost : BOOLEAN, billWall : BOOLEAN]
=============================================================================
