-------------------------- MODULE MCCinderUnmanage --------------------------
(* CinderUnmanage with the code's six attempts.                             *)
EXTENDS CinderUnmanage

AnyFault == {"refused", "timeout"}
=============================================================================
